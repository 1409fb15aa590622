--------------------------- MODULE ConnectionProofs ---------------------------
(***************************************************************************)
(* Proofs about Connection.  First, for bytes of any size: a header holds  *)
(* the length that was written to it, and one that was cut holds no        *)
(* greater one.  Then, for any messages: the bytes on the wire are those   *)
(* of the messages that were sent and not yet read, each at its place,     *)
(* until some are missing; then nothing is left on the wire at all.  What  *)
(* the reader is given, and that it keeps in step, follow.                 *)
(***************************************************************************)
EXTENDS Connection, SequenceTheorems, TLAPS

LEMMA BaseType == Base \in Nat /\ Base >= 2
  BY ConnectionAssumption

(* Quotient and remainder. *)
LEMMA DivMod ==
  ASSUME NEW a \in Nat, NEW b \in Nat, b > 0
  PROVE  /\ a \div b \in Nat /\ a % b \in 0 .. b - 1
         /\ a = b * (a \div b) + (a % b)
  OBVIOUS

LEMMA DivUnique ==
  ASSUME NEW b \in Nat, b > 0, NEW q \in Nat, NEW p \in Nat,
         NEW r \in 0 .. b - 1, NEW s \in 0 .. b - 1,
         b * q + r = b * p + s
  PROVE  q = p /\ r = s
<1>1. ~(q > p)
  <2> SUFFICES ASSUME q > p PROVE FALSE
    OBVIOUS
  <2>1. PICK d \in Nat : q = p + 1 + d
    <3>1. q - p - 1 \in Nat /\ q = p + 1 + (q - p - 1)
      OBVIOUS
    <3> QED
      BY <3>1
  <2>2. b * q = b * p + b + b * d /\ b * d \in Nat
    BY <2>1
  <2> QED
    BY <2>2
<1>2. ~(p > q)
  <2> SUFFICES ASSUME p > q PROVE FALSE
    OBVIOUS
  <2>1. PICK d \in Nat : p = q + 1 + d
    <3>1. p - q - 1 \in Nat /\ p = q + 1 + (p - q - 1)
      OBVIOUS
    <3> QED
      BY <3>1
  <2>2. b * p = b * q + b + b * d /\ b * d \in Nat
    BY <2>1
  <2> QED
    BY <2>2
<1>3. q = p
  BY <1>1, <1>2
<1> QED
  BY <1>3

(* Dividing by a and then by b is dividing by a * b. *)
LEMMA DivDiv ==
  ASSUME NEW n \in Nat, NEW a \in Nat, a > 0, NEW b \in Nat, b > 0
  PROVE  n \div (a * b) = (n \div a) \div b
<1> DEFINE q == n \div a
           r == n % a
           p == q \div b
           s == q % b
<1>1. q \in Nat /\ r \in 0 .. a - 1 /\ n = a * q + r
  BY DivMod
<1>2. p \in Nat /\ s \in 0 .. b - 1 /\ q = b * p + s
  BY <1>1, DivMod
<1> HIDE DEF q, r, p, s
<1>3. a * b \in Nat /\ a * b > 0
  OBVIOUS
<1>4. n = (a * b) * p + (a * s + r)
  BY <1>1, <1>2
<1>5. a * s + r \in 0 .. (a * b) - 1
  <2>1. PICK t \in Nat : b = s + 1 + t
    <3>1. b - s - 1 \in Nat /\ b = s + 1 + (b - s - 1)
      BY <1>2
    <3> QED
      BY <3>1
  <2>2. s \in Nat
    BY <1>2
  <2>3. a * b = a * s + a + a * t /\ a * s \in Nat /\ a * t \in Nat
    BY <2>1, <2>2
  <2> QED
    BY <1>1, <2>3
<1>6. /\ n \div (a * b) \in Nat /\ n % (a * b) \in 0 .. (a * b) - 1
      /\ n = (a * b) * (n \div (a * b)) + (n % (a * b))
  BY <1>3, DivMod
<1>7. n \div (a * b) = p
  <2> DEFINE c == a * b
             e == a * s + r
             f == n \div c
             g == n % c
  <2>1. /\ c \in Nat /\ c > 0 /\ f \in Nat /\ g \in 0 .. c - 1
        /\ e \in 0 .. c - 1 /\ n = c * f + g /\ n = c * p + e
    BY <1>3, <1>4, <1>5, <1>6
  <2> HIDE DEF c, e, f, g
  <2>2. f = p
    BY <1>2, <2>1, DivUnique
  <2> QED
    BY <2>2 DEF c, f
<1> QED
  BY <1>7 DEF p, q

-----------------------------------------------------------------------------
(* encodeHeader writes the digits of the size, and decode_header finds it  *)
(* again, as long as it fits into four bytes.                              *)
THEOREM HeaderHoldsSize ==
  ASSUME NEW n \in Nat, n < Base * Base * Base * Base
  PROVE  /\ encodeHeader(n) \in Seq(Byte) /\ Len(encodeHeader(n)) = HEADER_SIZE
         /\ decode_header(encodeHeader(n)) = n
<1> DEFINE b == Base
           n1 == n \div b
           n2 == n1 \div b
           n3 == n2 \div b
<1>0. b \in Nat /\ b >= 2
  BY BaseType
<1> HIDE DEF b
<1>1. n1 \in Nat /\ n % b \in 0 .. b - 1 /\ n = b * n1 + (n % b)
  BY <1>0, DivMod
<1>2. n2 \in Nat /\ n1 % b \in 0 .. b - 1 /\ n1 = b * n2 + (n1 % b)
  <2> HIDE DEF n1
  <2> QED
    BY <1>0, <1>1, DivMod
<1>3. n3 \in Nat /\ n2 % b \in 0 .. b - 1 /\ n2 = b * n3 + (n2 % b)
  <2> HIDE DEF n2
  <2> QED
    BY <1>0, <1>2, DivMod
<1>4. n \div (b * b) = n2
  BY <1>0, DivDiv
<1>5. n \div (b * b * b) = n3
  <2>1. b * b \in Nat /\ b * b > 0
    BY <1>0
  <2>2. n \div ((b * b) * b) = (n \div (b * b)) \div b
    <3> DEFINE c == b * b
    <3> HIDE DEF c
    <3>1. n \div (c * b) = (n \div c) \div b
      BY <1>0, <2>1, DivDiv DEF c
    <3> QED
      BY <3>1 DEF c
  <2> QED
    BY <1>4, <2>2
<1> HIDE DEF n1, n2, n3
<1>6. n3 < b
  <2> SUFFICES ASSUME n3 >= b PROVE FALSE
    BY <1>0, <1>3
  <2>1. n2 >= b * b
    BY <1>0, <1>3
  <2>2. n1 >= b * b * b
    <3>1. b * n2 >= b * (b * b)
      BY <1>0, <1>2, <2>1
    <3> QED
      BY <1>0, <1>2, <3>1
  <2>3. b * n1 >= b * (b * b * b)
    BY <1>0, <1>1, <2>2
  <2> QED
    BY <1>0, <1>1, <2>3 DEF b
<1>7. n3 % b = n3
  <2>1. n3 \div b \in Nat /\ n3 % b \in 0 .. b - 1 /\ n3 = b * (n3 \div b) + (n3 % b)
    BY <1>0, <1>3, DivMod
  <2>2. b * 0 + n3 = b * (n3 \div b) + (n3 % b) /\ n3 \in 0 .. b - 1
    BY <1>0, <1>3, <1>6, <2>1
  <2> DEFINE e == n3 \div b
             f == n3 % b
  <2> HIDE DEF e, f
  <2>3. b * 0 + n3 = b * e + f /\ e \in Nat /\ f \in 0 .. b - 1
    BY <2>1, <2>2 DEF e, f
  <2>4. n3 = f
    BY <1>0, <2>2, <2>3, DivUnique
  <2> QED
    BY <2>4 DEF f
<1>8. encodeHeader(n) = <<n3, n2 % b, n1 % b, n % b>>
  BY <1>4, <1>5, <1>7 DEF encodeHeader, b, n1
<1>9. ((n3 * b + (n2 % b)) * b + (n1 % b)) * b + (n % b) = n
  <2>1. n3 * b + (n2 % b) = n2
    BY <1>0, <1>3
  <2>2. n2 * b + (n1 % b) = n1
    BY <1>0, <1>2
  <2>3. n1 * b + (n % b) = n
    BY <1>0, <1>1
  <2> QED
    BY <2>1, <2>2, <2>3
<1> QED
  BY <1>0, <1>1, <1>2, <1>3, <1>6, <1>8, <1>9 DEF decode_header, HEADER_SIZE, Byte, b

(* Zeros in place of the last bytes of a header make it no greater, so     *)
(* that a header that was cut never asks for a longer buffer.              *)
THEOREM CutHeaderIsLess ==
  ASSUME NEW h \in Seq(Byte), Len(h) = HEADER_SIZE, NEW k \in 0 .. HEADER_SIZE
  PROVE  LET cut == [i \in 1 .. HEADER_SIZE |-> IF i <= k THEN h[i] ELSE 0]
         IN  decode_header(cut) \in 0 .. decode_header(h)
<1> DEFINE cut == [i \in 1 .. HEADER_SIZE |-> IF i <= k THEN h[i] ELSE 0]
           b   == Base
<1>1. b \in Nat
  BY BaseType
<1>2. h[1] \in Nat /\ h[2] \in Nat /\ h[3] \in Nat /\ h[4] \in Nat
  <2>1. h \in [1 .. 4 -> Byte]
    BY LenProperties DEF HEADER_SIZE
  <2>2. \A x \in Byte : x \in Nat
    BY BaseType DEF Byte
  <2>3. \A i \in 1 .. 4 : h[i] \in Nat
    BY <2>1, <2>2
  <2>4. 1 \in 1 .. 4 /\ 2 \in 1 .. 4 /\ 3 \in 1 .. 4 /\ 4 \in 1 .. 4
    OBVIOUS
  <2> QED
    BY <2>3, <2>4
<1>3. /\ cut[1] \in 0 .. h[1] /\ cut[2] \in 0 .. h[2]
      /\ cut[3] \in 0 .. h[3] /\ cut[4] \in 0 .. h[4]
  BY <1>2 DEF HEADER_SIZE
<1>4. ASSUME NEW x \in Nat, NEW y \in 0 .. x, NEW u \in Nat, NEW v \in 0 .. u
      PROVE  x * b + u \in Nat /\ y * b + v \in 0 .. x * b + u
  <2>1. PICK d \in Nat : x = y + d
    <3>1. x - y \in Nat /\ x = y + (x - y)
      OBVIOUS
    <3> QED
      BY <3>1
  <2>2. x * b = y * b + d * b /\ d * b \in Nat /\ y * b \in Nat
    BY <1>1, <2>1
  <2> QED
    BY <2>2
<1> HIDE DEF cut, b
<1>5. cut[1] * b + cut[2] \in 0 .. h[1] * b + h[2] /\ h[1] * b + h[2] \in Nat
  BY <1>2, <1>3, <1>4
<1>6. /\ (cut[1] * b + cut[2]) * b + cut[3] \in 0 .. (h[1] * b + h[2]) * b + h[3]
      /\ (h[1] * b + h[2]) * b + h[3] \in Nat
  BY <1>2, <1>3, <1>4, <1>5
<1>7. ((cut[1] * b + cut[2]) * b + cut[3]) * b + cut[4]
        \in 0 .. ((h[1] * b + h[2]) * b + h[3]) * b + h[4]
  BY <1>2, <1>3, <1>4, <1>6
<1> QED
  BY <1>7 DEF decode_header, cut, b
-----------------------------------------------------------------------------
(* The messages. *)

AllBodies == UNION {UNION {Bodies(s[n]) : n \in DOMAIN s} : s \in Scripts}

LEMMA BodyFact ==
  ASSUME script \in Scripts, NEW n \in Nat \ {0}, NEW m \in Bodies(Kind(n))
  PROVE  /\ m \in Seq(Byte) /\ m \in AllBodies
         /\ Len(m) \in Nat /\ Len(m) < Base * Base * Base * Base
         /\ \A l \in 1 .. Len(m) : ~Parses(Kind(n), Zeros(l))
<1>1. PICK k \in DOMAIN script : Kind(n) = script[k]
  <2>1. CASE n \in DOMAIN script
    BY <2>1 DEF Kind
  <2>2. CASE n \notin DOMAIN script
    BY <2>2, ConnectionAssumption DEF Kind
  <2> QED
    BY <2>1, <2>2
<1>2. m \in Bodies(script[k])
  BY <1>1
<1>3. /\ m \in Seq(Byte) /\ Len(m) < Base * Base * Base * Base
      /\ \A l \in 1 .. Len(m) : ~Parses(script[k], Zeros(l))
  BY <1>2, ConnectionAssumption
<1>4. m \in AllBodies
  BY <1>2 DEF AllBodies
<1>5. Len(m) \in Nat
  BY <1>3, LenProperties
<1> QED
  BY <1>1, <1>3, <1>4, <1>5

LEMMA ParseMsgFact ==
  ASSUME NEW m \in Seq(Byte), Len(m) < Base * Base * Base * Base
  PROVE  /\ parseMsg(m) \in Seq(Byte)
         /\ Len(parseMsg(m)) = HEADER_SIZE + Len(m)
         /\ \A j \in 1 .. HEADER_SIZE : parseMsg(m)[j] = encodeHeader(Len(m))[j]
         /\ \A j \in 1 .. Len(m) : parseMsg(m)[HEADER_SIZE + j] = m[j]
<1> DEFINE h == encodeHeader(Len(m))
<1>1. Len(m) \in Nat
  BY LenProperties
<1>2. h \in Seq(Byte) /\ Len(h) = HEADER_SIZE
  BY <1>1, HeaderHoldsSize
<1> HIDE DEF h
<1>3. /\ h \o m \in Seq(Byte) /\ Len(h \o m) = HEADER_SIZE + Len(m)
      /\ \A i \in 1 .. HEADER_SIZE + Len(m) :
           (h \o m)[i] = IF i <= HEADER_SIZE THEN h[i] ELSE m[i - HEADER_SIZE]
  BY <1>2, ConcatProperties
<1>4. \A j \in 1 .. HEADER_SIZE : (h \o m)[j] = h[j]
  BY <1>1, <1>3 DEF HEADER_SIZE
<1>5. \A j \in 1 .. Len(m) : (h \o m)[HEADER_SIZE + j] = m[j]
  BY <1>1, <1>3 DEF HEADER_SIZE
<1> QED
  BY <1>3, <1>4, <1>5 DEF parseMsg, h

(* What a read of n bytes gives, and what it leaves. *)
LEMMA ZerosFact ==
  ASSUME NEW n \in Nat
  PROVE  /\ Zeros(n) \in Seq(Byte) /\ Len(Zeros(n)) = n
         /\ \A j \in 1 .. n : Zeros(n)[j] = 0
         /\ n = 0 => Zeros(n) = <<>>
<1>1. 0 \in Byte
  BY BaseType DEF Byte
<1>2. Zeros(n) \in Seq(Byte) /\ Len(Zeros(n)) = n
  BY <1>1 DEF Zeros
<1> QED
  BY <1>2, EmptySeq DEF Zeros

LEMMA BytesFact ==
  ASSUME wire \in Seq(Byte), NEW n \in Nat
  PROVE  /\ Bytes(n) \in Seq(Byte) /\ Len(Bytes(n)) = n
         /\ \A j \in 1 .. n : Bytes(n)[j] = IF j <= Len(wire) THEN wire[j] ELSE 0
<1>1. 0 \in Byte /\ Len(wire) \in Nat
  BY BaseType, LenProperties DEF Byte
<1>2. \A j \in 1 .. n : (IF j <= Len(wire) THEN wire[j] ELSE 0) \in Byte
  BY <1>1, ElementOfSeq
<1> QED
  BY <1>2 DEF Bytes

LEMMA RestFact ==
  ASSUME wire \in Seq(Byte), NEW n \in Nat
  PROVE  /\ Rest(n) \in Seq(Byte)
         /\ Len(Rest(n)) = IF n <= Len(wire) THEN Len(wire) - n ELSE 0
         /\ \A j \in 1 .. Len(Rest(n)) : Rest(n)[j] = wire[n + j]
         /\ n >= Len(wire) => Rest(n) = <<>>
<1>1. Len(wire) \in Nat
  BY LenProperties
<1>2. \A i \in n + 1 .. Len(wire) : wire[i] \in Byte
  BY <1>1, ElementOfSeq
<1>3. /\ SubSeq(wire, n + 1, Len(wire)) \in Seq(Byte)
      /\ Len(SubSeq(wire, n + 1, Len(wire))) =
           IF n + 1 <= Len(wire) THEN Len(wire) - (n + 1) + 1 ELSE 0
      /\ \A i \in 1 .. Len(wire) - (n + 1) + 1 :
           SubSeq(wire, n + 1, Len(wire))[i] = wire[n + 1 + i - 1]
  BY <1>1, <1>2, SubSeqProperties
<1>4. n >= Len(wire) => SubSeq(wire, n + 1, Len(wire)) = <<>>
  BY <1>1, SubSeqEmpty
<1> QED
  BY <1>1, <1>3, <1>4 DEF Rest
-----------------------------------------------------------------------------
(* The inductive invariant. *)

SentBodies == \A n \in 1 .. Len(sent) : sent[n] \in Bodies(Kind(n))

(* All that was read is as it was sent. *)
Whole == Len(read) <= Len(sent) /\ read = SubSeq(sent, 1, Len(read))

(* The message to be read next, and the one to be sent next. *)
Due    == Len(read) + 1
Unsent == Len(sent) + 1

(* Before message n there are p[n] bytes on the wire, and its own follow,  *)
(* as far as they are there; the header of the message that is being read  *)
(* has gone.                                                               *)
PlacesFrom(p, first) ==
  /\ \A n \in first .. Len(sent) :
       /\ p[n + 1] = p[n] + (HEADER_SIZE + Len(sent[n]))
       /\ p[n + 1] <= p[Unsent]
       /\ \A j \in 1 .. HEADER_SIZE + Len(sent[n]) :
            p[n] + j \in 1 .. Len(wire) => wire[p[n] + j] = parseMsg(sent[n])[j]
  /\ Len(wire) <= p[Unsent]
  /\ ended = "no" => Len(wire) = p[Unsent]

Places(p) ==
  /\ p[Due] = IF rpc = "body" THEN -HEADER_SIZE ELSE 0
  /\ PlacesFrom(p, Due)

InStep ==
  /\ Whole /\ rpc # "thrown"
  /\ rpc = "body" => Len(read) < Len(sent) /\ Len(buf) = Len(sent[Due])
  /\ \E p \in [Nat -> Int] : Places(p)

(* A read was short.  The one damaged message is still to be read if the   *)
(* header was.                                                             *)
Drained ==
  /\ wire = <<>> /\ ended # "no"
  /\ rpc = "body" =>
       Len(buf) <= IF Whole /\ Len(read) < Len(sent) THEN Len(sent[Due]) ELSE 0

IInv == TypeOK /\ SentBodies /\ (InStep \/ Drained)

LEMMA SentFact ==
  ASSUME TypeOK, SentBodies, NEW n \in 1 .. Len(sent)
  PROVE  /\ sent[n] \in Seq(Byte)
         /\ Len(sent[n]) \in Nat /\ Len(sent[n]) < Base * Base * Base * Base
         /\ \A l \in 1 .. Len(sent[n]) : ~Parses(Kind(n), Zeros(l))
<1>1. Len(sent) \in Nat
  BY LenProperties DEF TypeOK
<1>2. n \in Nat \ {0} /\ sent[n] \in Bodies(Kind(n)) /\ script \in Scripts
  BY <1>1 DEF SentBodies, TypeOK
<1> QED
  BY <1>2, BodyFact

LEMMA LenFacts ==
  ASSUME TypeOK
  PROVE  /\ Len(sent) \in Nat /\ Len(read) \in Nat
         /\ Len(wire) \in Nat /\ Len(buf) \in Nat
  BY LenProperties DEF TypeOK

(* What is read stays as it was sent when more is sent. *)
LEMMA WholeGrows ==
  ASSUME TypeOK, NEW m \in Seq(Byte), sent' = Append(sent, m), read' = read,
         Len(read) <= Len(sent)
  PROVE  Whole' <=> Whole
<1>1. Len(sent) \in Nat /\ Len(read) \in Nat
  BY LenFacts
<1>2. /\ sent' \in Seq(Seq(Byte)) /\ Len(sent') = Len(sent) + 1
      /\ \A i \in 1 .. Len(sent) : sent'[i] = sent[i]
  BY <1>1, AppendProperties DEF TypeOK
<1>3. SubSeq(sent', 1, Len(read)) = SubSeq(sent, 1, Len(read))
  BY <1>1, <1>2
<1> QED
  BY <1>1, <1>2, <1>3 DEF Whole

LEMMA ConcatFact ==
  ASSUME NEW S, NEW s \in Seq(S), NEW t \in Seq(S)
  PROVE  /\ s \o t \in Seq(S) /\ Len(s \o t) = Len(s) + Len(t)
         /\ \A i \in 1 .. Len(s) : (s \o t)[i] = s[i]
         /\ \A j \in 1 .. Len(t) : (s \o t)[Len(s) + j] = t[j]
<1>1. Len(s) \in Nat /\ Len(t) \in Nat
  BY LenProperties
<1>2. \A i \in 1 .. Len(s) + Len(t) :
        (s \o t)[i] = IF i <= Len(s) THEN s[i] ELSE t[i - Len(s)]
  BY ConcatProperties
<1>3. \A i \in 1 .. Len(s) : (s \o t)[i] = s[i]
  BY <1>1, <1>2
<1>4. \A j \in 1 .. Len(t) : (s \o t)[Len(s) + j] = t[j]
  BY <1>1, <1>2
<1> QED
  BY <1>3, <1>4, ConcatProperties

LEMMA LessRange ==
  ASSUME NEW x \in Nat, NEW n \in Nat, x < n
  PROVE  x \in 0 .. n
  OBVIOUS

LEMMA Within ==
  ASSUME NEW a \in Int, NEW b \in Nat, NEW j \in 1 .. b, NEW w \in Nat,
         a + b <= w, a + j >= 1
  PROVE  a + j \in 1 .. w
  OBVIOUS

(* The place behind a new message. *)
LEMMA ExtendPlaces ==
  ASSUME NEW p \in [Nat -> Int], NEW l \in Nat, NEW x \in Nat
  PROVE  \E q \in [Nat -> Int] : /\ \A n \in 1 .. l + 1 : q[n] = p[n]
                                /\ q[l + 2] = p[l + 1] + x
<1> WITNESS [p EXCEPT ![l + 2] = p[l + 1] + x] \in [Nat -> Int]
<1> QED
  OBVIOUS

LEMMA InitStep == Init => IInv
<1> SUFFICES ASSUME Init PROVE IInv
  OBVIOUS
<1>1. /\ wire = <<>> /\ buf = <<>> /\ sent = <<>> /\ read = <<>> /\ parsed = {}
      /\ ended = "no" /\ rpc = "header" /\ script \in Scripts
  BY DEF Init
<1>2. /\ wire \in Seq(Byte) /\ buf \in Seq(Byte)
      /\ sent \in Seq(Seq(Byte)) /\ read \in Seq(Seq(Byte))
  BY <1>1, EmptySeq
<1>3. Len(sent) = 0 /\ Len(read) = 0 /\ Len(wire) = 0
  BY <1>1
<1>4. TypeOK /\ SentBodies
  BY <1>1, <1>2, <1>3 DEF TypeOK, SentBodies
<1>5. Whole
  BY <1>1, <1>3, SubSeqEmpty DEF Whole
<1>6. Places([n \in Nat |-> 0])
  BY <1>1, <1>3 DEF Places, PlacesFrom, Due, Unsent
<1>7. [n \in Nat |-> 0] \in [Nat -> Int]
  OBVIOUS
<1> QED
  BY <1>1, <1>4, <1>5, <1>6, <1>7 DEF IInv, InStep

LEMMA WriteStep == IInv /\ Write => IInv'
<1> SUFFICES ASSUME IInv, Write PROVE IInv'
  OBVIOUS
<1> USE DEF HEADER_SIZE
<1>1. TypeOK /\ SentBodies /\ InStep /\ ended = "no"
  BY DEF IInv, Drained, Write
<1>2. /\ Len(sent) \in Nat /\ Len(read) \in Nat /\ Len(wire) \in Nat
      /\ Len(buf) \in Nat
  BY <1>1, LenFacts
<1>3. PICK m \in Bodies(Kind(Len(sent) + 1)) :
        sent' = Append(sent, m) /\ wire' = wire \o parseMsg(m)
  BY DEF Write
<1>4. UNCHANGED <<script, ended, rpc, buf, read, parsed>>
  BY DEF Write
<1>5. m \in Seq(Byte) /\ Len(m) \in Nat /\ Len(m) < Base * Base * Base * Base
  <2>1. script \in Scripts /\ Len(sent) + 1 \in Nat \ {0}
    BY <1>1, <1>2 DEF TypeOK
  <2> QED
    BY <1>3, <2>1, BodyFact
<1>6. /\ sent' \in Seq(Seq(Byte)) /\ Len(sent') = Len(sent) + 1
      /\ \A i \in 1 .. Len(sent) : sent'[i] = sent[i]
      /\ sent'[Len(sent) + 1] = m
  BY <1>1, <1>2, <1>3, <1>5, AppendProperties DEF TypeOK
<1>7. parseMsg(m) \in Seq(Byte) /\ Len(parseMsg(m)) = HEADER_SIZE + Len(m)
  BY <1>5, ParseMsgFact
<1>8. wire \in Seq(Byte)
  BY <1>1 DEF TypeOK
<1>9. wire' \in Seq(Byte) /\ Len(wire') = Len(wire) + (HEADER_SIZE + Len(m))
  <2>1. /\ wire \o parseMsg(m) \in Seq(Byte)
        /\ Len(wire \o parseMsg(m)) = Len(wire) + Len(parseMsg(m))
    BY <1>7, <1>8, ConcatFact
  <2> QED
    BY <1>3, <1>7, <2>1
<1>10. \A i \in 1 .. Len(wire) : wire'[i] = wire[i]
  <2>1. \A i \in 1 .. Len(wire) : (wire \o parseMsg(m))[i] = wire[i]
    BY <1>7, <1>8, ConcatFact
  <2> QED
    BY <1>3, <2>1
<1>11. \A j \in 1 .. HEADER_SIZE + Len(m) : wire'[Len(wire) + j] = parseMsg(m)[j]
  <2>1. \A j \in 1 .. Len(parseMsg(m)) :
          (wire \o parseMsg(m))[Len(wire) + j] = parseMsg(m)[j]
    BY <1>7, <1>8, ConcatFact
  <2> QED
    BY <1>3, <1>7, <2>1
<1>12. TypeOK'
  BY <1>1, <1>4, <1>6, <1>9 DEF TypeOK
<1>13. SentBodies'
  <2>1. \A n \in Nat : Kind(n)' = Kind(n)
    BY <1>4 DEF Kind
  <2> QED
    BY <1>1, <1>2, <1>3, <1>6, <2>1 DEF SentBodies
<1>14. Whole'
  BY <1>1, <1>3, <1>4, <1>5, WholeGrows DEF InStep, Whole
<1>15. PICK p \in [Nat -> Int] : Places(p)
  BY <1>1 DEF InStep
<1>16. \E r \in [Nat -> Int] : Places(r)'
  <2>0. /\ Len(sent) + 1 \in Nat /\ p[Len(sent) + 1] \in Int
        /\ HEADER_SIZE + Len(m) \in Nat
    BY <1>2, <1>5
  <2>1. PICK q \in [Nat -> Int] :
          /\ \A n \in 1 .. Len(sent) + 1 : q[n] = p[n]
          /\ q[Len(sent) + 2] = p[Len(sent) + 1] + (HEADER_SIZE + Len(m))
    BY <1>2, <2>0, ExtendPlaces
  <2>2. Len(read) <= Len(sent)
    BY <1>1 DEF InStep, Whole
  <2>3. Len(wire) = p[Len(sent) + 1]
    BY <1>1, <1>15 DEF Places, PlacesFrom, Unsent
  <2>4. (q[Due] = IF rpc = "body" THEN -HEADER_SIZE ELSE 0)'
    BY <1>2, <1>4, <1>15, <2>1, <2>2 DEF Places, Due
  <2>5. Len(wire') = q[Len(sent) + 2]
    BY <1>9, <2>0, <2>1, <2>3
  <2>6. ASSUME NEW n \in Due .. Len(sent)
        PROVE  /\ q[n + 1] = q[n] + (HEADER_SIZE + Len(sent'[n]))
               /\ q[n + 1] <= q[Len(sent) + 2]
               /\ \A j \in 1 .. HEADER_SIZE + Len(sent'[n]) :
                    q[n] + j \in 1 .. Len(wire') => wire'[q[n] + j] = parseMsg(sent'[n])[j]
    <3>1. n \in 1 .. Len(sent) /\ n + 1 \in 1 .. Len(sent) + 1 /\ n \in Nat
      BY <1>2 DEF Due
    <3>2. /\ p[n + 1] = p[n] + (HEADER_SIZE + Len(sent[n]))
          /\ p[n + 1] <= p[Len(sent) + 1]
          /\ \A j \in 1 .. HEADER_SIZE + Len(sent[n]) :
               p[n] + j \in 1 .. Len(wire) => wire[p[n] + j] = parseMsg(sent[n])[j]
      BY <1>15 DEF Places, PlacesFrom, Unsent
    <3>3. q[n] = p[n] /\ q[n + 1] = p[n + 1] /\ sent'[n] = sent[n]
      <4>1. sent'[n] = sent[n]
        BY <1>6, <3>1
      <4>2. n \in 1 .. Len(sent) + 1
        BY <1>2, <3>1
      <4> QED
        BY <2>1, <3>1, <4>1, <4>2
    <3>4. p[n] \in Int /\ p[n + 1] \in Int /\ Len(sent[n]) \in Nat
      BY <1>1, <3>1, SentFact
    <3>5. ASSUME NEW j \in 1 .. HEADER_SIZE + Len(sent[n]), p[n] + j \in 1 .. Len(wire')
          PROVE  wire'[p[n] + j] = parseMsg(sent[n])[j]
      <4>1. p[n] + j \in 1 .. Len(wire)
        <5>1. p[n] + (HEADER_SIZE + Len(sent[n])) <= Len(wire)
          BY <2>3, <3>2
        <5>2. HEADER_SIZE + Len(sent[n]) \in Nat
          BY <3>4
        <5>3. p[n] + j >= 1
          BY <3>5
        <5> QED
          BY <1>2, <3>4, <5>1, <5>2, <5>3, Within
      <4> QED
        BY <1>10, <3>2, <4>1
    <3>6. /\ p[n + 1] <= p[Len(sent) + 1] + (HEADER_SIZE + Len(m))
          /\ q[Len(sent) + 2] = p[Len(sent) + 1] + (HEADER_SIZE + Len(m))
      BY <2>0, <2>1, <3>2, <3>4
    <3> QED
      BY <3>2, <3>3, <3>5, <3>6
  <2>7. /\ q[Len(sent) + 2] = q[Len(sent) + 1] + (HEADER_SIZE + Len(sent'[Len(sent) + 1]))
        /\ \A j \in 1 .. HEADER_SIZE + Len(m) :
             q[Len(sent) + 1] + j \in 1 .. Len(wire') =>
               wire'[q[Len(sent) + 1] + j] = parseMsg(m)[j]
    <3>1. q[Len(sent) + 1] = p[Len(sent) + 1]
      BY <1>2, <2>1
    <3>2. q[Len(sent) + 2] = q[Len(sent) + 1] + (HEADER_SIZE + Len(m))
      BY <1>5, <2>0, <2>1, <3>1
    <3>3. sent'[Len(sent) + 1] = m
      BY <1>6
    <3>4. q[Len(sent) + 1] = Len(wire)
      BY <2>3, <3>1
    <3> QED
      BY <1>11, <3>2, <3>3, <3>4
  <2>8. q[Len(sent) + 2] \in Int
    BY <1>2, <2>1
  <2>9. ASSUME NEW n \in Due .. Len(sent) + 1
        PROVE  /\ q[n + 1] = q[n] + (HEADER_SIZE + Len(sent'[n]))
               /\ q[n + 1] <= q[Len(sent) + 2]
               /\ \A j \in 1 .. HEADER_SIZE + Len(sent'[n]) :
                    q[n] + j \in 1 .. Len(wire') => wire'[q[n] + j] = parseMsg(sent'[n])[j]
    <3>1. CASE n = Len(sent) + 1
      <4>1. n + 1 = Len(sent) + 2
        BY <1>2, <3>1
      <4>2. q[n + 1] <= q[Len(sent) + 2]
        BY <2>8, <4>1
      <4> QED
        BY <1>6, <2>7, <3>1, <4>1, <4>2
    <3>2. CASE n # Len(sent) + 1
      <4>1. n \in Due .. Len(sent)
        BY <1>2, <3>2 DEF Due
      <4> QED
        BY <2>6, <4>1
    <3> QED
      BY <3>1, <3>2
  <2>10. Unsent' = Len(sent) + 2 /\ Due' = Due /\ Len(sent') = Len(sent) + 1
    BY <1>2, <1>4, <1>6 DEF Unsent, Due
  <2>11. Len(wire') <= q[Len(sent) + 2]
    BY <2>5, <2>8
  <2>12. Places(q)'
    BY <2>4, <2>5, <2>9, <2>10, <2>11 DEF Places, PlacesFrom
  <2> QED
    BY <2>12
<1>17. InStep'
  <2>1. rpc' = "body" => Len(read') < Len(sent') /\ Len(buf') = Len(sent'[Due'])
    <3> SUFFICES ASSUME rpc = "body"
                 PROVE  Len(read) < Len(sent') /\ Len(buf) = Len(sent'[Due])
      BY <1>4 DEF Due
    <3>1. Len(read) < Len(sent) /\ Len(buf) = Len(sent[Due])
      BY <1>1 DEF InStep
    <3>2. Due \in 1 .. Len(sent)
      BY <1>2, <3>1 DEF Due
    <3>3. sent'[Due] = sent[Due]
      BY <1>6, <3>2
    <3>4. Len(read) < Len(sent')
      BY <1>2, <1>6, <3>1
    <3> QED
      BY <3>1, <3>3, <3>4
  <2> QED
    <3>2. rpc' # "thrown"
      BY <1>1, <1>4 DEF InStep
    <3> QED
      BY <1>14, <1>16, <2>1, <3>2 DEF InStep
<1> QED
  BY <1>12, <1>13, <1>17 DEF IInv

LEMMA EndStep == IInv /\ End => IInv'
<1> SUFFICES ASSUME IInv, End PROVE IInv'
  OBVIOUS
<1>1. TypeOK /\ SentBodies /\ InStep /\ ended = "no"
  BY DEF IInv, Drained, End
<1>2. /\ UNCHANGED <<script, rpc, buf, sent, read, parsed>>
      /\ ended' \in {"eof", "reset"}
  BY DEF End
<1>3. Len(wire) \in Nat
  BY <1>1, LenFacts
<1>4. PICK k \in 0 .. Len(wire) : wire' = SubSeq(wire, 1, k)
  BY DEF End
<1>5. /\ wire' \in Seq(Byte) /\ Len(wire') = k
      /\ \A i \in 1 .. k : wire'[i] = wire[i]
  BY <1>1, <1>3, <1>4 DEF TypeOK
<1>6. TypeOK' /\ SentBodies'
  BY <1>1, <1>2, <1>5 DEF TypeOK, SentBodies, Kind
<1>7. PICK p \in [Nat -> Int] : Places(p)
  BY <1>1 DEF InStep
<1>8. p[Unsent] = Len(wire)
  BY <1>1, <1>7 DEF Places, PlacesFrom
<1>9. Len(wire') <= p[Unsent]
  BY <1>3, <1>5, <1>8
<1>10. ASSUME NEW n \in Due .. Len(sent), NEW j \in 1 .. HEADER_SIZE + Len(sent[n]),
              p[n] + j \in 1 .. Len(wire')
       PROVE  wire'[p[n] + j] = parseMsg(sent[n])[j]
  <2>1. p[n] + j \in 1 .. Len(wire)
    BY <1>3, <1>5, <1>10
  <2>2. wire[p[n] + j] = parseMsg(sent[n])[j]
    BY <1>7, <2>1 DEF Places, PlacesFrom
  <2> QED
    BY <1>5, <1>10, <2>2
<1>11. Due' = Due /\ Unsent' = Unsent
  BY <1>2 DEF Due, Unsent
<1>12. Places(p)'
  BY <1>2, <1>7, <1>9, <1>10, <1>11 DEF Places, PlacesFrom
<1>13. InStep'
  BY <1>1, <1>2, <1>11, <1>12 DEF InStep, Whole
<1> QED
  BY <1>6, <1>13 DEF IInv

LEMMA MoveSum ==
  ASSUME NEW a \in Int, NEW d \in Nat, NEW x \in Int
  PROVE  (a + x) - d = (a - d) + x /\ d + ((a - d) + x) = a + x
  OBVIOUS

LEMMA MoveLess ==
  ASSUME NEW a \in Int, NEW b \in Int, NEW d \in Nat, a <= b
  PROVE  a - d <= b - d
  OBVIOUS

LEMMA MoveIn ==
  ASSUME NEW a \in Int, NEW d \in Nat, NEW x \in Int, NEW w \in Nat,
         (a - d) + x \in 1 .. w - d
  PROVE  a + x \in 1 .. w
  OBVIOUS

(* When d bytes have been read, all that is behind them moves up. *)
LEMMA PlacesMove ==
  ASSUME TypeOK, SentBodies, NEW d \in Nat, d <= Len(wire), wire' = Rest(d),
         sent' = sent, ended' = ended, NEW p \in [Nat -> Int],
         NEW first \in 1 .. Unsent, PlacesFrom(p, first)
  PROVE  \E q \in [Nat -> Int] : q[first] = p[first] - d /\ PlacesFrom(q, first)'
<1>1. Len(wire) \in Nat /\ Len(sent) \in Nat /\ first \in Nat /\ Unsent \in Nat
  BY LenFacts DEF Unsent
<1>2. PICK q \in [Nat -> Int] : \A n \in Nat : q[n] = p[n] - d
  <2>1. [n \in Nat |-> p[n] - d] \in [Nat -> Int]
    OBVIOUS
  <2> QED
    BY <2>1
<1>3. Len(wire') = Len(wire) - d /\ \A i \in 1 .. Len(wire') : wire'[i] = wire[d + i]
  BY <1>1, RestFact DEF TypeOK
<1>4. ASSUME NEW n \in first .. Len(sent)
      PROVE  /\ q[n + 1] = q[n] + (HEADER_SIZE + Len(sent[n]))
             /\ q[n + 1] <= q[Unsent]
             /\ \A j \in 1 .. HEADER_SIZE + Len(sent[n]) :
                  q[n] + j \in 1 .. Len(wire') => wire'[q[n] + j] = parseMsg(sent[n])[j]
  <2>1. n \in Nat /\ n + 1 \in Nat /\ n \in 1 .. Len(sent)
    BY <1>1
  <2>2. p[n] \in Int /\ p[n + 1] \in Int /\ p[Unsent] \in Int
    BY <1>1, <2>1
  <2>3. Len(sent[n]) \in Nat
    BY <2>1, SentFact
  <2>4. HEADER_SIZE + Len(sent[n]) \in Int
    BY <2>3 DEF HEADER_SIZE
  <2>5. p[n + 1] = p[n] + (HEADER_SIZE + Len(sent[n])) /\ p[n + 1] <= p[Unsent]
    BY DEF PlacesFrom
  <2>6. q[n] = p[n] - d /\ q[n + 1] = p[n + 1] - d /\ q[Unsent] = p[Unsent] - d
    BY <1>1, <1>2, <2>1
  <2>7. ASSUME NEW j \in 1 .. HEADER_SIZE + Len(sent[n]), q[n] + j \in 1 .. Len(wire')
        PROVE  wire'[q[n] + j] = parseMsg(sent[n])[j]
    <3>1. wire'[q[n] + j] = wire[d + (q[n] + j)]
      BY <1>3, <2>7
    <3>2. j \in Int
      BY <2>4
    <3>3. (p[n] - d) + j \in 1 .. Len(wire) - d
      BY <1>3, <2>6, <2>7
    <3>4. d + ((p[n] - d) + j) = p[n] + j /\ p[n] + j \in 1 .. Len(wire)
      BY <1>1, <2>2, <3>2, <3>3, MoveSum, MoveIn
    <3>5. wire[p[n] + j] = parseMsg(sent[n])[j]
      BY <3>4 DEF PlacesFrom
    <3> QED
      BY <2>6, <3>1, <3>4, <3>5
  <2>8. (p[n] + (HEADER_SIZE + Len(sent[n]))) - d = (p[n] - d) + (HEADER_SIZE + Len(sent[n]))
    BY <1>1, <2>2, <2>4, MoveSum
  <2>9. p[n + 1] - d <= p[Unsent] - d
    BY <1>1, <2>2, <2>5, MoveLess
  <2> QED
    BY <2>5, <2>6, <2>7, <2>8, <2>9
<1>5. Len(wire') <= q[Unsent] /\ (ended = "no" => Len(wire') = q[Unsent])
  <2>1. p[Unsent] \in Int /\ q[Unsent] = p[Unsent] - d
    BY <1>1, <1>2
  <2>2. Len(wire) <= p[Unsent] /\ (ended = "no" => Len(wire) = p[Unsent])
    BY DEF PlacesFrom
  <2>3. Len(wire) - d <= p[Unsent] - d
    BY <1>1, <2>1, <2>2, MoveLess
  <2> QED
    BY <1>3, <2>1, <2>2, <2>3
<1>6. Unsent' = Unsent
  BY DEF Unsent
<1>7. PlacesFrom(q, first)'
  BY <1>4, <1>5, <1>6 DEF PlacesFrom
<1> QED
  BY <1>1, <1>2, <1>7

(* Nothing is on the wire when all was read. *)
LEMMA AllRead ==
  ASSUME TypeOK, InStep, Len(read) >= Len(sent)
  PROVE  rpc = "header" /\ wire = <<>> /\ Len(read) = Len(sent)
<1>1. Len(sent) \in Nat /\ Len(read) \in Nat /\ Len(wire) \in Nat
  BY LenFacts
<1>2. rpc = "header"
  BY <1>1 DEF InStep, TypeOK
<1>3. Len(read) = Len(sent)
  BY <1>1 DEF InStep, Whole
<1>4. PICK p \in [Nat -> Int] : Places(p)
  BY DEF InStep
<1>5. Len(wire) <= 0
  BY <1>2, <1>3, <1>4 DEF Places, PlacesFrom, Due, Unsent
<1> QED
  BY <1>1, <1>2, <1>3, <1>5, EmptySeq DEF TypeOK

(* The bytes that are there of the header, or of the body, are those of    *)
(* the message to be read.                                                 *)
LEMMA OnWire ==
  ASSUME TypeOK, SentBodies, InStep, Len(read) < Len(sent)
  PROVE  /\ Due \in 1 .. Len(sent)
         /\ rpc = "header" => \A j \in 1 .. HEADER_SIZE : j <= Len(wire) =>
              wire[j] = encodeHeader(Len(sent[Due]))[j]
         /\ rpc = "body" => \A j \in 1 .. Len(sent[Due]) : j <= Len(wire) =>
              wire[j] = sent[Due][j]
<1> USE DEF HEADER_SIZE
<1>1. Len(sent) \in Nat /\ Len(read) \in Nat /\ Len(wire) \in Nat
  BY LenFacts
<1>2. Due \in 1 .. Len(sent)
  BY <1>1 DEF Due
<1>3. PICK p \in [Nat -> Int] : Places(p)
  BY DEF InStep
<1> DEFINE m == sent[Due]
<1>4. m \in Seq(Byte) /\ Len(m) \in Nat /\ Len(m) < Base * Base * Base * Base
  BY <1>2, SentFact
<1>5. /\ \A j \in 1 .. HEADER_SIZE : parseMsg(m)[j] = encodeHeader(Len(m))[j]
      /\ \A j \in 1 .. Len(m) : parseMsg(m)[HEADER_SIZE + j] = m[j]
  BY <1>4, ParseMsgFact
<1>6. \A j \in 1 .. HEADER_SIZE + Len(m) :
        p[Due] + j \in 1 .. Len(wire) => wire[p[Due] + j] = parseMsg(m)[j]
  <2>1. Due \in Due .. Len(sent)
    BY <1>1, <1>2
  <2> QED
    BY <1>3, <2>1 DEF Places, PlacesFrom
<1> HIDE DEF m
<1>7. ASSUME rpc = "header", NEW j \in 1 .. HEADER_SIZE, j <= Len(wire)
      PROVE  wire[j] = encodeHeader(Len(m))[j]
  <2>1. p[Due] = 0
    BY <1>3, <1>7 DEF Places
  <2>2. j \in 1 .. HEADER_SIZE + Len(m) /\ p[Due] + j = j /\ j \in 1 .. Len(wire)
    BY <1>1, <1>4, <1>7, <2>1
  <2> QED
    BY <1>5, <1>6, <2>2
<1>8. ASSUME rpc = "body", NEW j \in 1 .. Len(m), j <= Len(wire)
      PROVE  wire[j] = m[j]
  <2>1. p[Due] = -HEADER_SIZE
    BY <1>3, <1>8 DEF Places
  <2>2. /\ HEADER_SIZE + j \in 1 .. HEADER_SIZE + Len(m)
        /\ p[Due] + (HEADER_SIZE + j) = j /\ j \in 1 .. Len(wire)
    BY <1>1, <1>4, <1>8, <2>1
  <2> QED
    BY <1>5, <1>6, <2>2
<1> QED
  BY <1>2, <1>7, <1>8 DEF m

LEMMA NoHeader ==
  ASSUME TypeOK, wire = <<>>
  PROVE  decode_header(Bytes(HEADER_SIZE)) = 0
<1>1. Base \in Nat
  BY BaseType
<1>2. Bytes(4)[1] = 0 /\ Bytes(4)[2] = 0 /\ Bytes(4)[3] = 0 /\ Bytes(4)[4] = 0
  BY DEF Bytes
<1> QED
  BY <1>1, <1>2 DEF decode_header, HEADER_SIZE

LEMMA ReadHeaderStep == IInv /\ ReadHeader => IInv'
<1> SUFFICES ASSUME IInv, ReadHeader PROVE IInv'
  OBVIOUS
<1> USE DEF HEADER_SIZE
<1> DEFINE size == decode_header(Bytes(HEADER_SIZE))
<1>1. TypeOK /\ SentBodies /\ rpc = "header"
  BY DEF IInv, ReadHeader
<1>2. Len(sent) \in Nat /\ Len(read) \in Nat /\ Len(wire) \in Nat
  BY <1>1, LenFacts
<1>3. /\ buf' = Zeros(size) /\ wire' = Rest(HEADER_SIZE) /\ rpc' = "body"
      /\ ended' = IF Short(HEADER_SIZE) THEN "eof" ELSE ended
      /\ UNCHANGED <<script, sent, read, parsed>>
  BY DEF ReadHeader
<1>4. Short(HEADER_SIZE) => ended # "no"
  BY <1>2 DEF ReadHeader, CanRead, Short
<1> HIDE DEF size
<1>5. wire' \in Seq(Byte) /\ (HEADER_SIZE >= Len(wire) => wire' = <<>>)
  BY <1>1, <1>2, <1>3, RestFact DEF TypeOK
<1>6. Whole' = Whole /\ Due' = Due
  BY <1>3 DEF Whole, Due
<1>7. SentBodies'
  BY <1>1, <1>3 DEF SentBodies, Kind
<1>8. ASSUME size \in Nat PROVE TypeOK' /\ Len(buf') = size
  <2>1. buf' \in Seq(Byte) /\ Len(buf') = size
    BY <1>3, <1>8, ZerosFact
  <2> QED
    BY <1>1, <1>3, <1>5, <2>1 DEF TypeOK
<1>9. CASE InStep /\ Len(read) < Len(sent)
  <2> DEFINE m == sent[Due]
             h == encodeHeader(Len(m))
  <2>1. Due \in 1 .. Len(sent)
    BY <1>1, <1>9, OnWire
  <2>2. Len(m) \in Nat /\ Len(m) < Base * Base * Base * Base
    BY <1>1, <2>1, SentFact
  <2>3. h \in Seq(Byte) /\ Len(h) = HEADER_SIZE /\ decode_header(h) = Len(m)
    BY <2>2, HeaderHoldsSize
  <2>4. \A j \in 1 .. HEADER_SIZE : j <= Len(wire) => wire[j] = h[j]
    BY <1>1, <1>9, OnWire
  <2>5. ~Short(HEADER_SIZE) => InStep' /\ size = Len(m)
    <3> SUFFICES ASSUME ~Short(HEADER_SIZE) PROVE InStep' /\ size = Len(m)
      OBVIOUS
    <3>1. HEADER_SIZE <= Len(wire)
      BY <1>2 DEF Short
    <3>2. /\ Bytes(HEADER_SIZE)[1] = h[1] /\ Bytes(HEADER_SIZE)[2] = h[2]
          /\ Bytes(HEADER_SIZE)[3] = h[3] /\ Bytes(HEADER_SIZE)[4] = h[4]
      <4> HIDE DEF h
      <4> QED
        BY <1>2, <2>4, <3>1 DEF Bytes
    <3>3. size = Len(m)
      BY <2>3, <3>2 DEF size, decode_header
    <3>4. PICK p \in [Nat -> Int] : Places(p)
      BY <1>9 DEF InStep
    <3>5. p[Due] = 0 /\ PlacesFrom(p, Due)
      BY <1>1, <3>4 DEF Places
    <3>6. PICK first \in 1 .. Unsent : first = Due
      BY <1>2, <2>1 DEF Unsent
    <3>7. p[first] = 0 /\ PlacesFrom(p, first) /\ HEADER_SIZE \in Nat
      BY <3>5, <3>6
    <3>8. ended' = ended /\ sent' = sent
      BY <1>3
    <3>9. PICK q \in [Nat -> Int] :
                 q[first] = p[first] - HEADER_SIZE /\ PlacesFrom(q, first)'
      BY <1>1, <1>3, <3>1, <3>8, <3>7, PlacesMove
    <3>10. Places(q)'
      BY <1>3, <1>6, <3>6, <3>9, <3>7 DEF Places
    <3>11. Len(buf') = Len(sent'[Due'])
      BY <1>3, <1>6, <1>8, <2>2, <3>3
    <3>12. Whole' /\ Len(read') < Len(sent')
      BY <1>3, <1>6, <1>9 DEF InStep
    <3> QED
      BY <1>3, <3>3, <3>10, <3>11, <3>12 DEF InStep
  <2>6. Short(HEADER_SIZE) => Drained' /\ size \in 0 .. Len(m)
    <3> SUFFICES ASSUME Short(HEADER_SIZE) PROVE Drained' /\ size \in 0 .. Len(m)
      OBVIOUS
    <3>0. Len(wire) < HEADER_SIZE
      BY DEF Short
    <3>1. Len(wire) \in 0 .. HEADER_SIZE
      BY <1>2, <3>0, LessRange
    <3>2. \A j \in 1 .. HEADER_SIZE :
            (IF j <= Len(wire) THEN wire[j] ELSE 0) = (IF j <= Len(wire) THEN h[j] ELSE 0)
      BY <2>4
    <3> HIDE DEF h
    <3>3. Bytes(HEADER_SIZE)
            = [i \in 1 .. HEADER_SIZE |-> IF i <= Len(wire) THEN h[i] ELSE 0]
      BY <3>2 DEF Bytes
    <3>4. size \in 0 .. decode_header(h)
      BY <2>3, <3>1, <3>3, CutHeaderIsLess DEF size
    <3>5. size \in 0 .. Len(m)
      BY <2>3, <3>4
    <3>6. wire' = <<>> /\ ended' # "no"
      BY <1>2, <1>3, <1>4, <1>5, <3>0 DEF Short
    <3>7. Len(buf') = size
      BY <1>8, <2>2, <3>5
    <3>8. Whole' /\ Len(read') < Len(sent') /\ sent'[Due'] = m
      BY <1>3, <1>6, <1>9 DEF InStep
    <3>9. Len(buf') <= Len(m)
      BY <2>2, <3>5, <3>7
    <3> QED
      BY <3>5, <3>6, <3>8, <3>9 DEF Drained
  <2>7. size \in Nat
    BY <2>2, <2>5, <2>6
  <2> QED
    BY <1>7, <1>8, <2>5, <2>6, <2>7 DEF IInv
<1>10. CASE ~(InStep /\ Len(read) < Len(sent))
  <2>1. wire = <<>> /\ (InStep => Len(read) = Len(sent))
    BY <1>1, <1>2, <1>10, AllRead DEF IInv, Drained
  <2>2. size = 0
    BY <1>1, <2>1, NoHeader DEF size
  <2>3. Len(wire) = 0
    BY <2>1
  <2>4. wire' = <<>> /\ ended' # "no"
    BY <1>3, <1>4, <1>5, <2>3 DEF Short
  <2>5. TypeOK' /\ Len(buf') = 0
    BY <1>8, <2>2
  <2>6. Whole' /\ Len(read') < Len(sent') => Len(sent'[Due']) \in Nat
    <3> SUFFICES ASSUME Len(read) < Len(sent) PROVE Len(sent[Due]) \in Nat
      BY <1>3, <1>6
    <3>1. Due \in 1 .. Len(sent)
      BY <1>2 DEF Due
    <3> QED
      BY <1>1, <3>1, SentFact
  <2>7. Drained'
    BY <2>4, <2>5, <2>6 DEF Drained
  <2> QED
    BY <1>7, <2>5, <2>7 DEF IInv
<1> QED
  BY <1>9, <1>10

-----------------------------------------------------------------------------
(* What the reader is given for a body. *)

Given == Bytes(Len(buf))

(* The message as it was sent. *)
Received ==
  /\ InStep /\ Len(read) < Len(sent)
  /\ ~Short(Len(buf)) /\ Given = sent[Due]

(* The message with zeros for its end, or a shorter run of zeros. *)
Damaged ==
  /\ Whole /\ Len(read) < Len(sent)
  /\ ended # "no" /\ Rest(Len(buf)) = <<>>
  /\ \/ Given = Abstract!ZeroTail(sent[Due], Len(wire)) /\ Len(wire) \in 0 .. Len(sent[Due])
     \/ Given = Zeros(Len(buf)) /\ Len(buf) \in 0 .. Len(sent[Due])

(* Nothing, when all was read or a message was damaged before. *)
Nothing ==
  /\ ended # "no" /\ Rest(Len(buf)) = <<>>
  /\ Given = <<>> /\ (Whole => read = sent)

LEMMA WholeAll == ASSUME TypeOK, Whole, ~(Len(read) < Len(sent)) PROVE read = sent
<1>1. Len(sent) \in Nat /\ Len(read) \in Nat
  BY LenFacts
<1>2. Len(read) = Len(sent)
  BY <1>1 DEF Whole
<1>3. SubSeq(sent, 1, Len(sent)) = sent
  BY SubSeqFull DEF TypeOK
<1> QED
  BY <1>2, <1>3 DEF Whole

LEMMA BodyCases ==
  ASSUME IInv, rpc = "body", CanRead(Len(buf))
  PROVE  Received \/ Damaged \/ Nothing
<1>1. TypeOK /\ SentBodies
  BY DEF IInv
<1>2. /\ Len(sent) \in Nat /\ Len(read) \in Nat /\ Len(wire) \in Nat
      /\ Len(buf) \in Nat
  BY <1>1, LenFacts
<1>3. Short(Len(buf)) => ended # "no"
  BY <1>2 DEF CanRead, Short
<1>4. Len(buf) >= Len(wire) => Rest(Len(buf)) = <<>>
  BY <1>1, <1>2, RestFact DEF TypeOK
<1>5. CASE InStep
  <2> DEFINE m == sent[Due]
  <2>1. Len(read) < Len(sent) /\ Len(buf) = Len(m) /\ Whole
    BY <1>5 DEF InStep
  <2>2. Due \in 1 .. Len(sent)
    BY <1>1, <1>5, <2>1, OnWire
  <2>3. m \in Seq(Byte)
    BY <1>1, <2>2, SentFact
  <2>4. \A j \in 1 .. Len(m) : j <= Len(wire) => wire[j] = m[j]
    BY <1>1, <1>5, <2>1, OnWire
  <2> HIDE DEF m
  <2>5. Given = [i \in 1 .. Len(m) |-> IF i <= Len(wire) THEN m[i] ELSE 0]
    BY <2>1, <2>4 DEF Given, Bytes
  <2>6. CASE Short(Len(buf))
    <3>1. Len(wire) < Len(buf)
      BY <2>6 DEF Short
    <3>2. Len(wire) \in 0 .. Len(buf) /\ Len(buf) >= Len(wire)
      BY <1>2, <3>1, LessRange
    <3> QED
      BY <1>3, <1>4, <2>1, <2>5, <2>6, <3>2 DEF Damaged, Abstract!ZeroTail, m
  <2>7. CASE ~Short(Len(buf))
    <3>1. Len(m) <= Len(wire) /\ Len(m) \in Nat
      BY <1>2, <2>1, <2>7 DEF Short
    <3>2. \A i \in 1 .. Len(m) : i <= Len(wire)
      BY <1>2, <3>1
    <3>3. Given = [i \in 1 .. Len(m) |-> m[i]]
      BY <2>5, <3>2
    <3>4. m \in [1 .. Len(m) -> Byte]
      BY <2>3, LenProperties
    <3>5. Given = m
      BY <3>3, <3>4
    <3> QED
      BY <1>5, <2>1, <2>7, <3>5 DEF Received, m
  <2> QED
    BY <2>6, <2>7
<1>6. CASE ~InStep
  <2>1. /\ Drained /\ wire = <<>> /\ ended # "no"
    BY <1>6 DEF IInv, Drained
  <2>2. Len(wire) = 0
    BY <2>1
  <2>3. Rest(Len(buf)) = <<>>
    BY <1>2, <1>4, <2>2
  <2>4. Given = Zeros(Len(buf))
    BY <1>2, <2>2 DEF Given, Bytes, Zeros
  <2>5. CASE Whole /\ Len(read) < Len(sent)
    <3>1. Len(buf) <= Len(sent[Due])
      BY <2>1, <2>5 DEF Drained
    <3>2. Due \in 1 .. Len(sent)
      BY <1>2, <2>5 DEF Due
    <3>3. Len(sent[Due]) \in Nat
      BY <1>1, <3>2, SentFact
    <3>4. Len(buf) \in 0 .. Len(sent[Due])
      <4> DEFINE l == Len(sent[Due])
                 k == Len(buf)
      <4>1. k \in Nat /\ l \in Nat /\ k <= l
        BY <1>2, <3>1, <3>3
      <4> HIDE DEF k, l
      <4>2. k \in 0 .. l
        BY <4>1
      <4> QED
        BY <4>2 DEF k, l
    <3> QED
      BY <2>1, <2>3, <2>4, <2>5, <3>4 DEF Damaged
  <2>6. CASE ~(Whole /\ Len(read) < Len(sent))
    <3>1. Len(buf) <= 0
      BY <2>1, <2>6 DEF Drained
    <3>2. Len(buf) = 0
      BY <1>2, <3>1
    <3>3. Given = <<>>
      BY <2>4, <3>2, ZerosFact
    <3>4. Whole => read = sent
      BY <1>1, <2>6, WholeAll
    <3> QED
      BY <2>1, <2>3, <3>3, <3>4 DEF Nothing
  <2> QED
    BY <2>5, <2>6
<1> QED
  BY <1>5, <1>6

(* ReadBody is one of the three cases, or the reader throws. *)
LEMMA BodyTypes ==
  ASSUME IInv, ReadBody
  PROVE  /\ TypeOK' /\ SentBodies' /\ rpc' # "body"
         /\ Given \in Seq(Byte) /\ Len(Given) = Len(buf)
         /\ wire' = Rest(Len(buf)) /\ UNCHANGED <<script, ended, sent>>
         /\ \/ /\ Short(Len(buf)) /\ ended = "reset"
               /\ rpc' = "thrown" /\ UNCHANGED <<read, parsed>>
            \/ /\ ~(Short(Len(buf)) /\ ended = "reset")
               /\ rpc' = "header" /\ read' = Append(read, Given)
               /\ parsed' = parsed \cup {n \in {Due} : Parses(Kind(n), Given)}
<1>1. TypeOK /\ SentBodies
  BY DEF IInv
<1>2. Len(buf) \in Nat /\ Len(read) \in Nat
  BY <1>1, LenFacts
<1>3. Given \in Seq(Byte) /\ Len(Given) = Len(buf)
  BY <1>1, <1>2, BytesFact DEF Given, TypeOK
<1>4. /\ wire' = Rest(Len(buf)) /\ buf' = <<>> /\ UNCHANGED <<script, ended, sent>>
  BY DEF ReadBody
<1>5. \/ /\ Short(Len(buf)) /\ ended = "reset"
         /\ rpc' = "thrown" /\ UNCHANGED <<read, parsed>>
      \/ /\ ~(Short(Len(buf)) /\ ended = "reset")
         /\ rpc' = "header" /\ read' = Append(read, Given)
         /\ parsed' = parsed \cup {n \in {Due} : Parses(Kind(n), Given)}
  BY DEF ReadBody, Given, Due, packMsg
<1>6. wire' \in Seq(Byte) /\ buf' \in Seq(Byte)
  BY <1>1, <1>2, <1>4, RestFact, EmptySeq DEF TypeOK
<1>7. read' \in Seq(Seq(Byte)) /\ parsed' \subseteq DOMAIN read'
  <2>1. CASE UNCHANGED <<read, parsed>>
    BY <1>1, <2>1 DEF TypeOK
  <2>2. CASE /\ read' = Append(read, Given)
             /\ parsed' = parsed \cup {n \in {Due} : Parses(Kind(n), Given)}
    <3>1. read \in Seq(Seq(Byte))
      BY <1>1 DEF TypeOK
    <3>2. read' \in Seq(Seq(Byte)) /\ Len(read') = Len(read) + 1
      BY <1>3, <2>2, <3>1, AppendProperties
    <3>3. DOMAIN read' = 1 .. Len(read) + 1 /\ DOMAIN read = 1 .. Len(read)
      BY <3>1, <3>2, LenProperties
    <3>4. parsed \subseteq 1 .. Len(read) + 1 /\ Due \in 1 .. Len(read) + 1
      BY <1>1, <1>2, <3>3 DEF TypeOK, Due
    <3> QED
      BY <2>2, <3>2, <3>3, <3>4
  <2> QED
    BY <1>5, <2>1, <2>2
<1>8. TypeOK'
  BY <1>1, <1>4, <1>5, <1>6, <1>7 DEF TypeOK
<1>9. SentBodies'
  BY <1>1, <1>4 DEF SentBodies, Kind
<1> QED
  BY <1>3, <1>4, <1>5, <1>8, <1>9

(* One more message that was read as it was sent. *)
LEMMA WholeStep ==
  ASSUME TypeOK, Whole, Len(read) < Len(sent), read' = Append(read, sent[Due]), sent' = sent
  PROVE  Whole' /\ Len(read') = Len(read) + 1
<1>1. /\ Len(sent) \in Nat /\ Len(read) \in Nat /\ Due \in 1 .. Len(sent)
      /\ sent \in Seq(Seq(Byte)) /\ read \in Seq(Seq(Byte))
  BY LenFacts DEF Due, TypeOK
<1>2. sent[Due] \in Seq(Byte)
  BY <1>1, ElementOfSeq
<1>3. Len(read') = Len(read) + 1
  BY <1>1, <1>2, AppendProperties
<1>4. 1 \in 1 .. Len(sent) /\ Due \in 1 .. Len(sent)
  BY <1>1
<1>5. SubSeq(sent, 1, Due) = SubSeq(sent, 1, Due - 1) \o << sent[Due] >>
  BY <1>1, <1>4, SubSeqRecursiveSecond
<1>6. Append(read, sent[Due]) = read \o << sent[Due] >>
  BY <1>1, <1>2, AppendIsConcat
<1>7. Due - 1 = Len(read) /\ Len(read) + 1 = Due
  BY <1>1 DEF Due
<1>8. read = SubSeq(sent, 1, Len(read))
  BY DEF Whole
<1>9. read' = SubSeq(sent', 1, Len(read'))
  BY <1>3, <1>5, <1>6, <1>7, <1>8
<1>10. Len(read') <= Len(sent')
  BY <1>1, <1>3
<1> QED
  BY <1>3, <1>9, <1>10 DEF Whole

LEMMA ReadBodyStep == IInv /\ ReadBody => IInv'
<1> SUFFICES ASSUME IInv, ReadBody PROVE IInv'
  OBVIOUS
<1>1. TypeOK /\ SentBodies /\ rpc = "body" /\ CanRead(Len(buf))
  BY DEF IInv, ReadBody
<1>2. TypeOK' /\ SentBodies' /\ wire' = Rest(Len(buf)) /\ rpc' # "body"
  BY BodyTypes
<1>3. sent' = sent /\ ended' = ended
  BY BodyTypes
<1>4. CASE Received
  <2> DEFINE m == sent[Due]
  <2>1. InStep /\ Whole /\ Len(read) < Len(sent) /\ Len(buf) = Len(m) /\ ~Short(Len(buf))
    BY <1>1, <1>4 DEF Received, InStep
  <2>2. rpc' = "header" /\ read' = Append(read, m)
    BY <1>4, BodyTypes DEF Received
  <2>3. Whole' /\ Len(read') = Len(read) + 1
    BY <1>1, <1>3, <2>1, <2>2, WholeStep
  <2>4. Len(sent) \in Nat /\ Len(read) \in Nat /\ Len(wire) \in Nat
    BY <1>1, LenFacts
  <2>5. Due \in 1 .. Len(sent) /\ Due \in Due .. Len(sent)
    BY <2>1, <2>4 DEF Due
  <2>6. Len(m) \in Nat
    BY <1>1, <2>5, SentFact
  <2>7. PICK p \in [Nat -> Int] : Places(p)
    BY <2>1 DEF InStep
  <2>8. p[Due] = -HEADER_SIZE /\ PlacesFrom(p, Due)
    BY <1>1, <2>7 DEF Places
  <2>9. PICK first \in 1 .. Unsent : first = Due + 1
    BY <2>4, <2>5 DEF Unsent
  <2>10. p[first] = Len(m)
    <3>1. p[Due + 1] = p[Due] + (HEADER_SIZE + Len(m))
      BY <2>5, <2>8 DEF PlacesFrom
    <3> HIDE DEF m
    <3> QED
      BY <2>6, <2>8, <2>9, <3>1 DEF HEADER_SIZE
  <2>11. PlacesFrom(p, first)
    <3>1. first .. Len(sent) \subseteq Due .. Len(sent)
      BY <2>4, <2>5, <2>9
    <3> QED
      BY <2>8, <3>1 DEF PlacesFrom
  <2>12. PICK d \in Nat : d = Len(buf)
    BY <2>1, <2>6
  <2>13. d <= Len(wire) /\ wire' = Rest(d) /\ p[first] - d = 0
    BY <1>2, <2>1, <2>4, <2>6, <2>10, <2>12 DEF Short
  <2>14. PICK q \in [Nat -> Int] : q[first] = p[first] - d /\ PlacesFrom(q, first)'
    BY <1>1, <1>3, <2>11, <2>13, PlacesMove
  <2>15. Due' = first
    BY <2>3, <2>9 DEF Due
  <2>16. Places(q)'
    BY <2>2, <2>13, <2>14, <2>15 DEF Places
  <2>17. InStep'
    BY <2>2, <2>3, <2>16 DEF InStep
  <2> QED
    BY <1>2, <2>17 DEF IInv
<1>5. CASE Damaged \/ Nothing
  <2>1. Drained'
    BY <1>2, <1>3, <1>5 DEF Damaged, Nothing, Drained
  <2> QED
    BY <1>2, <2>1 DEF IInv
<1> QED
  BY <1>1, <1>4, <1>5, BodyCases

LEMMA Invariance == Spec => []IInv
<1>1. IInv /\ [Next]_vars => IInv'
  <2> SUFFICES ASSUME IInv, [Next]_vars PROVE IInv'
    OBVIOUS
  <2>1. CASE UNCHANGED vars
    BY <2>1 DEF IInv, TypeOK, SentBodies, Kind, InStep, Drained, Whole, Places,
                PlacesFrom, Due, Unsent, vars
  <2> QED
    BY <2>1, WriteStep, EndStep, ReadHeaderStep, ReadBodyStep DEF Next
<1> QED
  BY <1>1, InitStep, PTL DEF Spec

-----------------------------------------------------------------------------
(* The variables of both sides keep their types: whatever is cut off, a    *)
(* header decodes to a length, and a buffer consists of bytes.             *)
THEOREM TypeCorrect == Spec => []TypeOK
<1>1. IInv => TypeOK
  BY DEF IInv
<1> QED
  BY <1>1, Invariance, PTL

(* For any messages and wherever the connection ends, the buffer that      *)
(* do_read_msg makes is no longer than the message that was being sent.    *)
THEOREM NoLongerThanSentHolds == Spec => []NoLongerThanSent
<1>1. IInv => NoLongerThanSent
  <2> SUFFICES ASSUME IInv, rpc = "body"
               PROVE  Len(buf) <= IF Len(read) < Len(sent)
                                  THEN Len(sent[Len(read) + 1]) ELSE 0
    BY DEF NoLongerThanSent
  <2>1. TypeOK /\ SentBodies
    BY DEF IInv
  <2>2. Len(sent) \in Nat /\ Len(read) \in Nat /\ Len(buf) \in Nat
    BY <2>1, LenFacts
  <2>3. Len(read) < Len(sent) => Len(sent[Due]) \in Nat
    <3> SUFFICES ASSUME Len(read) < Len(sent) PROVE Len(sent[Due]) \in Nat
      OBVIOUS
    <3>1. Due \in 1 .. Len(sent)
      BY <2>2 DEF Due
    <3> QED
      BY <2>1, <3>1, SentFact
  <2>4. CASE InStep
    <3>1. Len(read) < Len(sent) /\ Len(buf) = Len(sent[Due])
      BY <2>4 DEF InStep
    <3>2. Len(buf) <= Len(sent[Due])
      BY <2>2, <3>1
    <3> QED
      BY <3>1, <3>2 DEF Due
  <2>5. CASE Drained
    <3>1. CASE Whole /\ Len(read) < Len(sent)
      BY <2>5, <3>1 DEF Drained, Due
    <3>2. CASE ~(Whole /\ Len(read) < Len(sent))
      <4>1. Len(buf) <= 0
        BY <2>5, <3>2 DEF Drained
      <4>2. Len(buf) = 0
        BY <2>2, <4>1
      <4> QED
        BY <2>3, <4>2 DEF Due
    <3> QED
      BY <3>1, <3>2
  <2> QED
    BY <2>4, <2>5 DEF IInv
<1> QED
  BY <1>1, Invariance, PTL

-----------------------------------------------------------------------------
(* The headers and errors of do_read_msg implement the abstract channel,   *)
(* for any messages and any place where the connection ends: each message  *)
(* is received, damaged or nothing.                                        *)
THEOREM ImplementsChannelHolds == Spec => ImplementsChannel
<1>1. Init => Abstract!Init
  BY DEF Init, Abstract!Init
<1>2. IInv /\ [Next]_vars => [Abstract!Next]_<<sent, read, ended # "no">>
  <2> SUFFICES ASSUME IInv, [Next]_vars
               PROVE  [Abstract!Next]_<<sent, read, ended # "no">>
    OBVIOUS
  <2>1. TypeOK /\ SentBodies
    BY DEF IInv
  <2>2. ASSUME Write PROVE Abstract!Next
    <3>1. ended = "no" /\ UNCHANGED <<ended, read>>
      BY <2>2 DEF Write
    <3>2. PICK m \in Bodies(Kind(Len(sent) + 1)) : sent' = Append(sent, m)
      BY <2>2 DEF Write
    <3>3. Len(sent) + 1 \in Nat \ {0} /\ script \in Scripts
      BY <2>1, LenFacts DEF TypeOK
    <3>4. m \in AllBodies
      BY <3>2, <3>3, BodyFact
    <3>5. Abstract!Send(m)
      BY <3>1, <3>2 DEF Abstract!Send
    <3> QED
      BY <3>4, <3>5 DEF Abstract!Next, AllBodies
  <2>3. ASSUME End PROVE Abstract!Next
    <3>1. Abstract!Close
      BY <2>3 DEF End, Abstract!Close
    <3> QED
      BY <3>1 DEF Abstract!Next
  <2>4. ASSUME ReadHeader PROVE UNCHANGED <<sent, read, ended # "no">>
    <3>1. Len(wire) \in Nat
      BY <2>1, LenFacts
    <3>2. UNCHANGED <<sent, read>>
      BY <2>4 DEF ReadHeader
    <3>3. Short(HEADER_SIZE) => ended # "no"
      BY <2>4, <3>1 DEF ReadHeader, CanRead, Short, HEADER_SIZE
    <3>4. (ended' # "no") <=> (ended # "no")
      BY <2>4, <3>3 DEF ReadHeader
    <3> QED
      BY <3>2, <3>4
  <2>5. ASSUME ReadBody PROVE [Abstract!Next]_<<sent, read, ended # "no">>
    <3>1. UNCHANGED <<sent, ended>>
      BY <2>5, BodyTypes
    <3>2. CASE UNCHANGED read
      BY <3>1, <3>2
    <3>3. CASE read' = Append(read, Given)
      <4>1. Abstract!Deliver(Given)
        BY <3>1, <3>3 DEF Abstract!Deliver
      <4>2. Received \/ Damaged \/ Nothing
        BY <2>5, BodyCases DEF ReadBody
      <4>3. Whole <=> Abstract!Whole
        BY DEF Whole, Abstract!Whole
      <4>4. CASE Received
        <5>1. Abstract!Receive
          BY <4>1, <4>3, <4>4 DEF Received, InStep, Abstract!Receive, Abstract!Next1, Due
        <5> QED
          BY <5>1 DEF Abstract!Next
      <4>5. CASE Damaged
        <5>1. Given \in Abstract!Damaged(sent[Due])
          BY <4>5 DEF Damaged, Abstract!Damaged, Zeros, Abstract!Zeros
        <5>2. Abstract!Damage
          BY <4>1, <4>3, <4>5, <5>1 DEF Damaged, Abstract!Damage, Abstract!Next1, Due
        <5> QED
          BY <5>2 DEF Abstract!Next
      <4>6. CASE Nothing
        <5>1. Abstract!Nothing
          BY <4>1, <4>3, <4>6 DEF Nothing, Abstract!Nothing
        <5> QED
          BY <5>1 DEF Abstract!Next
      <4> QED
        BY <4>2, <4>4, <4>5, <4>6
    <3> QED
      BY <2>5, <3>2, <3>3, BodyTypes
  <2>6. CASE UNCHANGED vars
    BY <2>6 DEF vars
  <2> QED
    BY <2>2, <2>3, <2>4, <2>5, <2>6 DEF Next
<1> QED
  BY <1>1, <1>2, Invariance, PTL DEF Spec, ImplementsChannel, Abstract!Spec

-----------------------------------------------------------------------------
LEMMA SubSeqAppend ==
  ASSUME NEW S, NEW s \in Seq(S), NEW e \in S, NEW k \in 0 .. Len(s)
  PROVE  SubSeq(Append(s, e), 1, k) = SubSeq(s, 1, k)
<1>1. Len(s) \in Nat
  BY LenProperties
<1>2. /\ Append(s, e) \in Seq(S) /\ Len(Append(s, e)) = Len(s) + 1
      /\ \A i \in 1 .. Len(s) : Append(s, e)[i] = s[i]
  BY AppendProperties
<1> QED
  BY <1>1, <1>2

(* The n-th buffer has the length of the n-th message, and what came       *)
(* before it is as it was sent.                                            *)
WasSent(n) ==
  /\ n <= Len(sent) /\ Len(read[n]) = Len(sent[n])
  /\ SubSeq(read, 1, n - 1) = SubSeq(sent, 1, n - 1)

(* What was said of the n-th buffer stays true.                            *)
LEMMA WasSentStays ==
  ASSUME IInv, [Next]_vars, NEW n \in 1 .. Len(read), WasSent(n)
  PROVE  WasSent(n)'
<1>1. TypeOK /\ Len(sent) \in Nat /\ Len(read) \in Nat
  BY LenFacts DEF IInv
<1>2. sent \in Seq(Seq(Byte)) /\ read \in Seq(Seq(Byte))
  BY <1>1 DEF TypeOK
<1>3. n - 1 \in 0 .. Len(sent) /\ n - 1 \in 0 .. Len(read) /\ n \in 1 .. Len(sent)
  BY <1>1 DEF WasSent
<1>4. ASSUME NEW m \in Seq(Byte), sent' = Append(sent, m), read' = read
      PROVE  WasSent(n)'
  <2>1. SubSeq(sent', 1, n - 1) = SubSeq(sent, 1, n - 1)
    BY <1>2, <1>3, <1>4, SubSeqAppend
  <2>2. Len(sent') = Len(sent) + 1 /\ sent'[n] = sent[n]
    BY <1>2, <1>3, <1>4, AppendProperties
  <2>3. n <= Len(sent')
    BY <1>1, <1>3, <2>2
  <2> QED
    BY <1>4, <2>1, <2>2, <2>3 DEF WasSent
<1>5. ASSUME NEW b \in Seq(Byte), read' = Append(read, b), sent' = sent
      PROVE  WasSent(n)'
  <2>1. SubSeq(read', 1, n - 1) = SubSeq(read, 1, n - 1)
    BY <1>2, <1>3, <1>5, SubSeqAppend
  <2>2. read'[n] = read[n]
    BY <1>2, <1>5, AppendProperties
  <2> QED
    BY <1>5, <2>1, <2>2 DEF WasSent
<1>6. CASE UNCHANGED <<sent, read>>
  BY <1>6 DEF WasSent
<1>7. CASE Write
  <2>1. PICK m \in Bodies(Kind(Len(sent) + 1)) : sent' = Append(sent, m)
    BY <1>7 DEF Write
  <2>2. Len(sent) + 1 \in Nat \ {0} /\ script \in Scripts
    BY <1>1 DEF TypeOK
  <2>3. m \in Seq(Byte)
    BY <2>1, <2>2, BodyFact
  <2> QED
    BY <1>4, <1>7, <2>1, <2>3 DEF Write
<1>8. CASE ReadBody
  BY <1>5, <1>6, <1>8, BodyTypes
<1> QED
  BY <1>6, <1>7, <1>8 DEF Next, End, ReadHeader, vars

(* What packMsg takes for a message was sent, for any messages of which    *)
(* the parser is only known not to take zeros for one.                     *)
THEOREM ParsesWhatWasSentHolds == Spec => []ParsesWhatWasSent
<1>1. Init => ParsesWhatWasSent
  BY DEF Init, ParsesWhatWasSent
<1>2. IInv /\ ParsesWhatWasSent /\ [Next]_vars => ParsesWhatWasSent'
  <2> SUFFICES ASSUME IInv, ParsesWhatWasSent, [Next]_vars,
                      NEW n \in parsed', ~Parses(Kind(n), <<>>)'
               PROVE  WasSent(n)'
    BY DEF ParsesWhatWasSent, WasSent
  <2>1. TypeOK /\ SentBodies /\ Len(sent) \in Nat /\ Len(read) \in Nat
    BY LenFacts DEF IInv
  <2>2. script' = script /\ \A k : Kind(k)' = Kind(k)
    BY DEF Next, Write, End, ReadHeader, ReadBody, vars, Kind
  <2>3. ~Parses(Kind(n), <<>>)
    BY <2>2
  <2>4. CASE n \in parsed
    <3>1. WasSent(n)
      BY <2>3, <2>4 DEF ParsesWhatWasSent, WasSent
    <3>2. n \in 1 .. Len(read)
      BY <2>1, <2>4, LenProperties DEF TypeOK
    <3> QED
      BY <3>1, <3>2, WasSentStays
  <2>5. CASE n \notin parsed
    <3>1. ReadBody
      BY <2>5 DEF Next, Write, End, ReadHeader, vars
    <3>2. /\ read' = Append(read, Given) /\ sent' = sent /\ Given \in Seq(Byte)
          /\ n = Due /\ Parses(Kind(n), Given) /\ Len(Given) = Len(buf)
      BY <2>5, <3>1, BodyTypes
    <3>3. Given # <<>>
      BY <2>3, <3>2
    <3>4. Received \/ Damaged
      BY <3>1, <3>3, BodyCases DEF ReadBody, Nothing
    <3>5. Whole /\ Len(read) < Len(sent)
      BY <3>4 DEF Received, Damaged, InStep
    <3>6. Due \in 1 .. Len(sent) /\ Due - 1 = Len(read)
      BY <2>1, <3>5 DEF Due
    <3>7. Len(Given) = Len(sent[Due])
      <4>1. CASE Received
        BY <4>1 DEF Received
      <4>2. CASE Damaged /\ Given = Zeros(Len(buf)) /\ Len(buf) \in 0 .. Len(sent[Due])
        <5>1. Len(buf) # 0
          BY <3>3, <4>2, ZerosFact
        <5>2. Len(sent[Due]) \in Nat
               /\ \A l \in 1 .. Len(sent[Due]) : ~Parses(Kind(Due), Zeros(l))
          BY <2>1, <3>6, SentFact
        <5>3. PICK l \in 0 .. Len(sent[Due]) : l = Len(buf)
          BY <4>2
        <5>4. l \in 1 .. Len(sent[Due])
          BY <5>1, <5>2, <5>3
        <5> QED
          BY <3>2, <4>2, <5>2, <5>3, <5>4
      <4>3. CASE Damaged /\ Given = Abstract!ZeroTail(sent[Due], Len(wire))
        <5>1. Len(sent[Due]) \in Nat
          BY <2>1, <3>6, SentFact
        <5>2. DOMAIN Given = 1 .. Len(sent[Due])
          BY <4>3 DEF Abstract!ZeroTail
        <5>3. DOMAIN Given = 1 .. Len(Given) /\ Len(Given) \in Nat
          BY <3>2, LenProperties
        <5> QED
          BY <5>1, <5>2, <5>3
      <4> QED
        BY <3>4, <4>1, <4>2, <4>3 DEF Damaged
    <3>8. read'[Due] = Given /\ SubSeq(read', 1, Len(read)) = SubSeq(read, 1, Len(read))
      <4>1. read \in Seq(Seq(Byte)) /\ Len(read) \in 0 .. Len(read)
        BY <2>1 DEF TypeOK
      <4>2. Append(read, Given)[Len(read) + 1] = Given
        BY <3>2, <4>1, AppendProperties
      <4> QED
        BY <3>2, <4>1, <4>2, SubSeqAppend DEF Due
    <3>9. SubSeq(read, 1, Len(read)) = SubSeq(sent, 1, Len(read))
      BY <2>1, <3>5, SubSeqFull DEF TypeOK, Whole
    <3>10. n <= Len(sent)
      BY <2>1, <3>2, <3>6
    <3> QED
      BY <3>2, <3>6, <3>7, <3>8, <3>9, <3>10 DEF WasSent
  <2> QED
    BY <2>4, <2>5
<1> QED
  BY <1>1, <1>2, Invariance, PTL DEF Spec
=============================================================================
