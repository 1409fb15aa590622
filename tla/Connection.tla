------------------------------ MODULE Connection ------------------------------
(***************************************************************************)
(* One direction of a connection: Connection::write of one process and     *)
(* Connection::readMessage of the other.  A message is written as a header *)
(* of four bytes, which holds its length, and the body.  The reader waits  *)
(* for the header, makes a buffer of zeros of that length, and waits for   *)
(* the body; the handler then parses the buffer.                           *)
(*                                                                         *)
(* The writer may close the connection or die at any time, and any part of *)
(* what it wrote last may then be missing.  The reader sees the end of the *)
(* connection (eof) or, once, a reset, then eof.  It does not look at the  *)
(* error of the read of the header, and takes eof in a body for success:   *)
(* bytes that did not come are zeros.                                      *)
(*                                                                         *)
(* The messages have kinds, and both sides agree on their order, script,   *)
(* the last of which repeats.                                              *)
(*                                                                         *)
(* An operator whose name begins with "faulty" is a wrong version of the   *)
(* definition after it, with which the properties must fail.               *)
(***************************************************************************)
EXTENDS Integers, Sequences

CONSTANTS Base,           \* how many values a byte has: 256
          Scripts,        \* the orders of kinds
          Bodies(_),      \* by kind: the serialised messages
          Parses(_, _),   \* by kind and buffer: ParseFromArray succeeds
          MaxMessages,    \* bound on the messages written
          MaxReads        \* bound on the calls of readMessage

HEADER_SIZE == 4
Byte        == 0 .. Base - 1
Zeros(n)    == [i \in 1 .. n |-> 0]

(* A message parses, and fits into its header; the tag of a field is not 0, *)
(* so that zeros do not parse.                                             *)
ASSUME ConnectionAssumption ==
  /\ Base \in Nat /\ Base >= 2
  /\ MaxMessages \in Nat /\ MaxReads \in Nat
  /\ \A s \in Scripts :
       /\ Len(s) \in Nat \ {0} /\ DOMAIN s = 1 .. Len(s)
       /\ \A n \in DOMAIN s : \A b \in Bodies(s[n]) :
            /\ b \in Seq(Byte) /\ Len(b) < Base * Base * Base * Base
            /\ Parses(s[n], b)
            /\ \A l \in 1 .. Len(b) : ~Parses(s[n], Zeros(l))

VARIABLES
  script,  \* the kinds of the messages, in order
  wire,    \* the bytes that were written and not yet read
  ended,   \* what the reader meets behind them
  rpc,     \* the reader: where it is
  buf,     \* the reader: buf
  sent,    \* history: what was written
  read,    \* history: the buffers that handlers were given
  parsed   \* history: which of these were parsed

vars == <<script, wire, ended, rpc, buf, sent, read, parsed>>

Init ==
  /\ script \in Scripts
  /\ wire = <<>> /\ ended = "no"
  /\ rpc = "header" /\ buf = <<>>
  /\ sent = <<>> /\ read = <<>> /\ parsed = {}

(* The kind of the n-th message. *)
Kind(n) == IF n \in DOMAIN script THEN script[n] ELSE script[Len(script)]

-----------------------------------------------------------------------------
(* The header. *)

(* The size is taken for one byte. *)
faultyEncodeHeader(size) == <<0, 0, 0, size % Base>>

encodeHeader(size) ==
  << (size \div (Base * Base * Base)) % Base, (size \div (Base * Base)) % Base,
     (size \div Base) % Base, size % Base >>

(* The bytes in the other order. *)
faultyDecodeHeader(h) == ((h[4] * Base + h[3]) * Base + h[2]) * Base + h[1]

decode_header(h) == ((h[1] * Base + h[2]) * Base + h[3]) * Base + h[4]

-----------------------------------------------------------------------------
(* The writer: write and do_write_msg. *)

parseMsg(m) == encodeHeader(Len(m)) \o m

Write ==
  /\ ended = "no" /\ Len(sent) < MaxMessages
  /\ \E m \in Bodies(Kind(Len(sent) + 1)) :
       /\ sent' = Append(sent, m)
       /\ wire' = wire \o parseMsg(m)
  /\ UNCHANGED <<script, ended, rpc, buf, read, parsed>>

End ==
  /\ ended = "no"
  /\ ended' \in {"eof", "reset"}
  /\ \E n \in 0 .. Len(wire) : wire' = SubSeq(wire, 1, n)
  /\ UNCHANGED <<script, rpc, buf, sent, read, parsed>>

-----------------------------------------------------------------------------
(* The reader: do_read_msg, and packMsg of the handler. *)

(* boost::asio::read of n bytes into zeros waits for all of them or the end. *)
CanRead(n) == Len(wire) >= n \/ ended # "no"
Bytes(n)   == [i \in 1 .. n |-> IF i <= Len(wire) THEN wire[i] ELSE 0]
Rest(n)    == SubSeq(wire, n + 1, Len(wire))
Short(n)   == Len(wire) < n

ReadHeader ==
  /\ rpc = "header" /\ Len(read) < MaxReads
  /\ CanRead(HEADER_SIZE)
  /\ buf' = Zeros(decode_header(Bytes(HEADER_SIZE)))
  /\ wire' = Rest(HEADER_SIZE)
  /\ ended' = IF Short(HEADER_SIZE) THEN "eof" ELSE ended
  /\ rpc' = "body"
  /\ UNCHANGED <<script, sent, read, parsed>>

(* ParsePartialFromArray, which does not ask for required fields. *)
faultyPackMsg(kind, b) == Parses(kind, b) \/ b = <<>>

packMsg(kind, b) == Parses(kind, b)

(* The error is looked at after the buffer was parsed. *)
faultyReadBody ==
  /\ rpc = "body" /\ CanRead(Len(buf))
  /\ wire' = Rest(Len(buf)) /\ buf' = <<>>
  /\ parsed' = parsed \cup {n \in {Len(read) + 1} : packMsg(Kind(n), Bytes(Len(buf)))}
  /\ IF Short(Len(buf)) /\ ended = "reset"
     THEN rpc' = "thrown" /\ UNCHANGED read
     ELSE rpc' = "header" /\ read' = Append(read, Bytes(Len(buf)))
  /\ UNCHANGED <<script, ended, sent>>

ReadBody ==
  /\ rpc = "body" /\ CanRead(Len(buf))
  /\ wire' = Rest(Len(buf)) /\ buf' = <<>>
  /\ IF Short(Len(buf)) /\ ended = "reset"
     THEN rpc' = "thrown" /\ UNCHANGED <<read, parsed>>
     ELSE /\ rpc' = "header"
          /\ read' = Append(read, Bytes(Len(buf)))
          /\ parsed' = parsed \cup
               {n \in {Len(read) + 1} : packMsg(Kind(n), Bytes(Len(buf)))}
  /\ UNCHANGED <<script, ended, sent>>

Next == Write \/ End \/ ReadHeader \/ ReadBody

Spec == Init /\ [][Next]_vars

-----------------------------------------------------------------------------
TypeOK ==
  /\ script \in Scripts
  /\ wire \in Seq(Byte) /\ buf \in Seq(Byte)
  /\ ended \in {"no", "eof", "reset"}
  /\ rpc \in {"header", "body", "thrown"}
  /\ sent \in Seq(Seq(Byte)) /\ read \in Seq(Seq(Byte))
  /\ parsed \subseteq DOMAIN read

(* A connection delivers the messages in order and as they were sent; only *)
(* after it has ended one is damaged, and empty ones follow: the errors    *)
(* that do_read_msg ignores never make it read from the middle of a        *)
(* message.                                                                *)
Abstract == INSTANCE Channel WITH
  Messages <- UNION {UNION {Bodies(s[n]) : n \in DOMAIN s} : s \in Scripts},
  closed   <- ended # "no"

ImplementsChannel == Abstract!Spec

(* However much of a header is missing, the buffer that is made is not     *)
(* longer than the message that was being sent.                            *)
NoLongerThanSent ==
  rpc = "body" =>
    Len(buf) <= IF Len(read) < Len(sent) THEN Len(sent[Len(read) + 1]) ELSE 0

(* What parses was sent: it has the length of a message that was sent, and *)
(* all that came before it is as it was sent.  Only a message without      *)
(* fields, a Dummy, is also seen where nothing was sent.                   *)
ParsesWhatWasSent ==
  \A n \in parsed :
    ~Parses(Kind(n), <<>>) =>
       /\ n <= Len(sent)
       /\ Len(read[n]) = Len(sent[n])
       /\ SubSeq(read, 1, n - 1) = SubSeq(sent, 1, n - 1)
=============================================================================
