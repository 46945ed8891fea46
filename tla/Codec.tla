------------------------------- MODULE Codec -------------------------------
(***************************************************************************)
(* The wire codec as pure operators: BinaryWriter and BinaryReader, the    *)
(* encoder ProtocolWriter::writePacket / writeMessagePayload and the       *)
(* decoder of ProtocolProcessor::processWrite / processMessage.            *)
(*                                                                         *)
(* A byte is a natural below 256 and a byte string a sequence of them.     *)
(* Integers wider than a byte are written and read digit by digit, so the  *)
(* operators never form a power of 256 above the value itself.  A reader   *)
(* is a cursor [buf, pos] with pos counted from 0, as in the C++ class.    *)
(***************************************************************************)
EXTENDS Integers, Sequences, SequencesExt

CONSTANTS
  Inflate(_),  \* libdeflate_zlib_decompress of a block: bytes, or Fail
  SigLen,      \* signature_length of processWrite (64)
  NullPeerId,  \* the id read through a null Peer* (the build reads address 0)
  Fail         \* model value: nullptr, a failed decode, no peer

\* BitchatPacketTypes.h
TAnnounce      == 1
TMessage       == 4
TNoiseIdentity == 19
PassAlongTypes == {5, 6, 7, 10, 11, 12, 16, 17, 18, 20, 21, 22, 23}
FRecipient     == 1
FSignature     == 2
FCompressed    == 4

\* v & b for a one-bit mask b.
Bit(v, b) == (v \div b) % 2 = 1
CapAt(s, cap) == SubSeq(s, 1, IF Len(s) < cap THEN Len(s) ELSE cap)

(***************************************************************************)
(* BinaryWriter                                                            *)
(***************************************************************************)
RECURSIVE BigEndian(_, _)
BigEndian(v, n) == IF n = 0 THEN <<>> ELSE BigEndian(v \div 256, n - 1) \o <<v % 256>>

WriteU8(v)  == BigEndian(v, 1)
WriteU16(v) == BigEndian(v, 2)
WriteU64(v) == BigEndian(v, 8)

\* hexify: '0' + n below ten, 'a' - 10 + n above.
HexifyOffByOne(n) == IF n < 10 THEN n + 48 ELSE n + 88
Hexify(n) == IF n < 10 THEN n + 48 ELSE n + 87

WriteU8Hex16(v)  == <<Hexify((v \div 16) % 16), Hexify(v % 16)>>
WriteU64Hex16(v) == FlattenSeq([i \in 1..8 |-> WriteU8Hex16(WriteU64(v)[i])])

\* A length-prefixed string, its length truncated to the prefix's width.
WriteStr8(s)  == WriteU8(Len(CapAt(s, 255))) \o CapAt(s, 255)
WriteStr16(s) == WriteU16(Len(CapAt(s, 65535))) \o CapAt(s, 65535)

(***************************************************************************)
(* ProtocolWriter                                                          *)
(***************************************************************************)
Opt(cond, bytes) == IF cond THEN bytes ELSE <<>>

WriteMessagePayload(m) ==
  WriteU8(m.mflags) \o WriteU64(m.mts) \o WriteStr8(m.id) \o WriteStr8(m.nick)
  \o WriteStr16(m.content)
  \o Opt(Bit(m.mflags, 4), WriteStr8(m.orig))
  \o Opt(Bit(m.mflags, 8), WriteStr8(m.rnick))
  \o Opt(Bit(m.mflags, 16),
         WriteU8(16) \o WriteU64Hex16(IF m.peer = Fail THEN NullPeerId ELSE m.peer))
  \o Opt(Bit(m.mflags, 32),
         WriteU8(Len(CapAt(m.mentions, 255)))
         \o FlattenSeq([i \in DOMAIN m.mentions |-> WriteStr8(m.mentions[i])]))
  \o Opt(Bit(m.mflags, 64), WriteStr8(m.channel))

\* The stored announce is a PacketPassAlong cast to Announce: its payload
\* string lies where Announce keeps its name.
WritePacket(p) ==
  LET payload == IF p.type = TMessage THEN WriteMessagePayload(p.body) ELSE p.body
      body    == CapAt(payload, 65535)
  IN  WriteU8(1) \o WriteU8(p.type) \o WriteU8((p.ttl - 1) % 256) \o WriteU64(p.ts)
      \o WriteU8(p.flags) \o WriteU16(Len(body)) \o WriteU64(p.sender)
      \o Opt(Bit(p.flags, FRecipient), WriteU64(p.recipient))
      \o body
      \o Opt(Bit(p.flags, FSignature), WriteStr8(p.sig))
      \o WriteU8(0)

(***************************************************************************)
(* BinaryReader: a short read returns the zero value (or nullptr for       *)
(* read_data) and leaves the cursor where it was.                          *)
(***************************************************************************)
ReadN(r, n) ==
  IF r.pos + n > Len(r.buf) THEN [v |-> 0, r |-> r]
  ELSE [v |-> FoldLeft(LAMBDA a, b : a * 256 + b, 0, SubSeq(r.buf, r.pos + 1, r.pos + n)),
        r |-> [r EXCEPT !.pos = @ + n]]

ReadData(r, len) ==
  IF r.pos + len > Len(r.buf) THEN [v |-> Fail, r |-> r]
  ELSE [v |-> SubSeq(r.buf, r.pos + 1, r.pos + len), r |-> [r EXCEPT !.pos = @ + len]]

ReadStr(r, w) == LET n == ReadN(r, w) IN ReadData(n.r, n.v)

(***************************************************************************)
(* processMessage                                                          *)
(***************************************************************************)
ReadOpt(r, fl, b) == IF Bit(fl, b) THEN ReadStr(r, 1) ELSE [v |-> <<>>, r |-> r]

RECURSIVE ReadMentions(_, _, _)
ReadMentions(r, n, acc) ==
  IF n = 0 THEN [v |-> acc, r |-> r]
  ELSE LET s == ReadStr(r, 1)
       IN  IF s.v = Fail THEN [v |-> Fail, r |-> r]
           ELSE ReadMentions(s.r, n - 1, Append(acc, s.v))

\* The 16 hex characters of the sender peer id: a character with the '@'
\* bit set is a letter and gains 9, and each pair makes one byte.
HexNibble(c) == IF Bit(c, 64) THEN c + 9 ELSE c
HexPeerId(s) ==
  FoldLeft(LAMBDA a, b : a * 256 + b, 0,
           [k \in 1..8 |-> ((HexNibble(s[2 * k - 1]) * 16) % 256) + (HexNibble(s[2 * k]) % 16)])

ProcessMessage(payload) ==
  LET fl == ReadN([buf |-> payload, pos |-> 0], 1)
      ts == ReadN(fl.r, 8)
      id == ReadStr(ts.r, 1)
      nk == ReadStr(id.r, 1)
      ct == ReadStr(nk.r, 2)
      og == ReadOpt(ct.r, fl.v, 4)
      rn == ReadOpt(og.r, fl.v, 8)
      pi == ReadOpt(rn.r, fl.v, 16)
      mc == IF Bit(fl.v, 32) THEN ReadN(pi.r, 1) ELSE [v |-> 0, r |-> pi.r]
      mn == ReadMentions(mc.r, mc.v, <<>>)
      ch == ReadOpt(mn.r, fl.v, 64)
      enc == Bit(fl.v, 128)
  IN  IF Len(payload) < 13 \/ Fail \in {id.v, nk.v, ct.v, og.v, rn.v, pi.v, mn.v, ch.v}
      THEN Fail
      ELSE [mflags |-> fl.v, mts |-> ts.v, id |-> id.v, nick |-> nk.v,
            content |-> IF enc THEN <<>> ELSE ct.v, enc |-> IF enc THEN ct.v ELSE <<>>,
            orig |-> og.v, rnick |-> rn.v,
            peer |-> IF Bit(fl.v, 16) /\ Len(pi.v) = 16 THEN HexPeerId(pi.v) ELSE Fail,
            mentions |-> mn.v, channel |-> ch.v]

(***************************************************************************)
(* processWrite: the header, the optional recipient and original size, the *)
(* payload (inflated when compressed and inflation gives bytes), the fixed *)
(* 64-byte signature.  The header reads are not checked: a short read      *)
(* leaves the field 0 and decoding goes on.  A missing payload ends it.    *)
(* memcpy from the nullptr of a short signature read copies whatever the   *)
(* build maps at address 0: the signature is then NullSig.                 *)
(***************************************************************************)
NullSig == <<Fail>>

ParsePacket(buf) ==
  LET vr == ReadN([buf |-> buf, pos |-> 0], 1)
      ty == ReadN(vr.r, 1)
      tl == ReadN(ty.r, 1)
      ts == ReadN(tl.r, 8)
      fl == ReadN(ts.r, 1)
      pl == ReadN(fl.r, 2)
      sd == ReadN(pl.r, 8)
      rc == IF Bit(fl.v, FRecipient) THEN ReadN(sd.r, 8) ELSE [v |-> 0, r |-> sd.r]
      os == IF Bit(fl.v, FCompressed) THEN ReadN(rc.r, 2) ELSE [v |-> 0, r |-> rc.r]
      len == IF Bit(fl.v, FCompressed) THEN (pl.v - 2) % 65536 ELSE pl.v
      pd == ReadData(os.r, len)
      inflated == IF pd.v # Fail /\ Bit(fl.v, FCompressed) THEN Inflate(pd.v) ELSE Fail
      payload == IF inflated # Fail /\ Len(inflated) \in 1..os.v THEN inflated ELSE pd.v
      sg == IF Bit(fl.v, FSignature) THEN ReadData(pd.r, SigLen) ELSE [v |-> <<>>, r |-> pd.r]
  IN  IF vr.v # 1 \/ pd.v = Fail THEN Fail
      ELSE [type |-> ty.v, ttl |-> tl.v, ts |-> ts.v, flags |-> fl.v, sender |-> sd.v,
            recipient |-> rc.v, sig |-> IF sg.v = Fail THEN NullSig ELSE sg.v,
            body |-> IF ty.v = TMessage THEN ProcessMessage(payload) ELSE payload]

\* The dispatch on type: what processWrite does with a parsed packet.
Dispatch(p) ==
  CASE p = Fail                       -> "dropped"
    [] p.type = TNoiseIdentity         -> "peer_key"
    [] p.type = TMessage               -> IF p.body = Fail THEN "dropped" ELSE "stored"
    [] p.type \in PassAlongTypes \cup {TAnnounce} -> IF p.ttl < 1 THEN "dropped" ELSE "stored"
    [] OTHER                           -> "ignored"

====
