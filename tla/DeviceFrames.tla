---------------------------- MODULE DeviceFrames ----------------------------
(***************************************************************************)
(* How commands and replies are cut into packets of a fixed size on their  *)
(* way to and from a hardware wallet (rawCall of hw/ledger, RawCall of     *)
(* hw/trezor). Data are sequences of numbers; a number may stand for a     *)
(* byte or for a field of a header. What the devices do with packets is    *)
(* modelled as the inverse.                                                *)
(***************************************************************************)
EXTENDS Integers, SequencesExt

CONSTANTS
  Packet,     \* 64: bytes in a packet
  ByteRange,  \* 256: the length of the data of a command is one byte
  TxChunk,    \* 1024: bytes of the data of a transaction in one message to a Trezor
  Lengths     \* of data to try

ASSUME FrameSizes ==
  /\ {Packet, ByteRange, TxChunk} \subseteq Nat \ {0}
  /\ Packet > 9 /\ Lengths \subseteq Nat

Data(n) == [i \in 1..n |-> i]
Zeros(n) == [i \in 1..n |-> 0]

\* buf in pieces of at most space numbers.
Pieces(buf, space) ==
  LET from(i) == (i - 1) * space + 1
      to(i)   == IF i * space < Len(buf) THEN i * space ELSE Len(buf)
  IN [i \in 1..(Len(buf) + space - 1) \div space |-> SubSeq(buf, from(i), to(i))]

Pad(s) == s \o Zeros(Packet - Len(s))

(***************************************************************************)
(* Ledger. Each packet starts with channel and tag (three bytes) and its   *)
(* number (two); the first one goes on with the length of the whole.       *)
(***************************************************************************)
LedgerHeader(i) == <<1, 1, 5, 0, i - 1>>

LedgerPackets(cmd, data) ==
  LET apdu   == <<cmd, 0, 0, 0, Len(data) % ByteRange>> \o data
      pieces == Pieces(<<0, Len(apdu)>> \o apdu, Packet - 5)
  IN [i \in DOMAIN pieces |-> LedgerHeader(i) \o pieces[i]]

\* One packet of the reply after the other, until as much has come as the first one said.
\* acc: [reply, size, done].
\* Variant: the last packet is taken with its padding.
TakePacketWhole(acc, payload) ==
  [acc EXCEPT !.reply = @ \o payload, !.done = acc.size - Len(acc.reply) <= Len(payload)]

TakePacket(acc, payload) ==
  LET left == acc.size - Len(acc.reply) IN
  IF left > Len(payload) THEN [acc EXCEPT !.reply = @ \o payload]
  ELSE [acc EXCEPT !.reply = @ \o SubSeq(payload, 1, left), !.done = TRUE]

LedgerTake(acc, chunk) ==
  IF acc.done THEN acc
  ELSE IF chunk[4] = 0 /\ chunk[5] = 0
       THEN TakePacket([acc EXCEPT !.reply = <<>>, !.size = chunk[7]],
                       SubSeq(chunk, 8, Len(chunk)))
       ELSE TakePacket(acc, SubSeq(chunk, 6, Len(chunk)))

Nothing == [reply |-> <<>>, size |-> 0, done |-> FALSE]

\* The data without the two bytes of the status.
LedgerReplyData(packets) ==
  LET r == FoldLeft(LedgerTake, Nothing, packets).reply IN SubSeq(r, 1, Len(r) - 2)

\* The device puts a command together, and sends a reply with its status.
LedgerReceives(packets) ==
  LET all == FlattenSeq([i \in DOMAIN packets |-> SubSeq(packets[i], 6, Len(packets[i]))])
      apdu == SubSeq(all, 3, 2 + all[2])
  IN [cmd |-> apdu[1], data |-> SubSeq(apdu, 6, 5 + apdu[5])]

LedgerSends(data) ==
  LET pieces == Pieces(<<0, Len(data) + 2>> \o data \o <<144, 0>>, Packet - 5)
  IN [i \in DOMAIN pieces |-> Pad(LedgerHeader(i) \o pieces[i])]

(***************************************************************************)
(* Trezor. Each packet starts with one byte; the first one goes on with    *)
(* two magic bytes, the kind of the message and the length of its data.    *)
(***************************************************************************)
TrezorPackets(kind, data) ==
  LET pieces == Pieces(<<35, 35, 0, kind, 0, 0, 0, Len(data)>> \o data, Packet - 1)
  IN [i \in DOMAIN pieces |-> Pad(<<63>> \o pieces[i])]

\* acc.kind: that of the message, once its first packet has come.
TrezorTake(acc, chunk) ==
  IF acc.done THEN acc
  ELSE IF acc.reply = <<>>
       THEN TakePacket([acc EXCEPT !.kind = chunk[5], !.size = chunk[9]],
                       SubSeq(chunk, 10, Len(chunk)))
       ELSE TakePacket(acc, SubSeq(chunk, 2, Len(chunk)))

RawReply(packets) ==
  LET r == FoldLeft(TrezorTake, [reply |-> <<>>, size |-> 0, kind |-> 0, done |-> FALSE],
                    packets)
  IN [kind |-> r.kind, data |-> r.reply]

TrezorReceives(packets) ==
  LET all == FlattenSeq([i \in DOMAIN packets |-> SubSeq(packets[i], 2, Len(packets[i]))])
  IN [kind |-> all[4], data |-> SubSeq(all, 9, 8 + all[8])]

\* signTx: the data of a transaction, a first chunk and then what the device asks for.
DataChunks(data) ==
  IF Len(data) > TxChunk
  THEN <<SubSeq(data, 1, TxChunk)>> \o Pieces(SubSeq(data, TxChunk + 1, Len(data)), TxChunk)
  ELSE <<data>>

(***************************************************************************)
(* Data in the commands and replies of a Ledger: derivation paths, four    *)
(* bytes a component; an address, as text behind the public key; the name  *)
(* and the version of an application.                                      *)
(***************************************************************************)
Uint32(n) == [k \in 1..4 |-> (n \div ByteRange^(4 - k)) % ByteRange]

serializePath(path) ==
  <<Len(path)>> \o FlattenSeq([i \in DOMAIN path |-> Uint32(path[i])])

\* What stands behind its own length in r.
Counted(r)     == SubSeq(r, 2, 1 + r[1])
BehindFirst(r) == SubSeq(r, 2 + r[1], Len(r))

parseGetAddressResponse(r) == Counted(BehindFirst(r))

parseInfo(r) == [name |-> Counted(Tail(r)), version |-> Counted(BehindFirst(Tail(r)))]

LedgerReadsPath(data) ==
  [i \in 1..data[1] |->
    FoldLeft(LAMBDA n, b : n * ByteRange + b, 0, SubSeq(data, 4 * i - 2, 4 * i + 1))]

\* A signature comes with V first; V is 27 or 28 where it is given out, 0 or 1 before.
Signature(reply) ==
  LET sig == Tail(reply) \o <<Head(reply)>> IN
  [sig EXCEPT ![Len(sig)] = IF @ \in {0, 1} THEN @ + 27 ELSE @]

\* Whatever its length, what is sent to a device is what the device puts together, and
\* what it replies is what the call returns: no packet boundary loses, doubles or adds
\* anything, but for the command of a Ledger whose length no longer fits its byte, which
\* the device never gets whole. Paths, addresses, names and signatures are read as they
\* were written.
FramesReassemble ==
  \A n \in Lengths :
    /\ n < ByteRange
         <=> LedgerReceives(LedgerPackets(7, Data(n))) = [cmd |-> 7, data |-> Data(n)]
    /\ LedgerReplyData(LedgerSends(Data(n))) = Data(n)
    /\ TrezorReceives(TrezorPackets(7, Data(n))) = [kind |-> 7, data |-> Data(n)]
    /\ RawReply(TrezorPackets(7, Data(n))) = [kind |-> 7, data |-> Data(n)]
    /\ FlattenSeq(DataChunks(Data(n))) = Data(n)
    /\ LET path == [i \in 1..n % 6 |-> i * n * 100]
           key  == <<n>> \o Data(n)
       IN /\ LedgerReadsPath(serializePath(path)) = path
          /\ parseGetAddressResponse(key \o <<4, 9, 8, 7, 6>> \o Data(3)) = <<9, 8, 7, 6>>
          /\ parseInfo(<<1>> \o key \o <<2, 5, 6, 0>>) = [name |-> Data(n), version |-> <<5, 6>>]
          /\ \A v \in 0..1 : Signature(<<v>> \o key) = key \o <<27 + v>>
=============================================================================
