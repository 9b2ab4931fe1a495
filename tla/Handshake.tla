------------------------------ MODULE Handshake ------------------------------
(***************************************************************************)
(* The constructor of ReplayEngine (src/TTD/TTD.cpp) with sha256.cpp and   *)
(* base64_encode of utils.cpp.  TTDReplay.dll hands out a random base64    *)
(* string; the caller appends three texts that its characters select       *)
(* (csts.h), hashes the whole, and gives the hash in base64 to the DLL,    *)
(* which makes an engine if the hash is the one it expects.                *)
(*                                                                         *)
(* The 64 rounds of sha256_transform are left out: the state of the hash   *)
(* is the blocks it has absorbed, and session.digest is what the rounds    *)
(* make of them.  A session is what the system and the DLL do: whether the *)
(* two libraries are found, which of the two functions TTDReplay.dll has,  *)
(* whether it answers, its 48 characters, the digest, and whether there is *)
(* memory for the base64 string.                                           *)
(***************************************************************************)
EXTENDS Integers, Sequences

CONSTANTS
  Sessions,
  aScopeOfLicense,  \* the 17 texts of the array, one every 0x66 characters
  aVYHVAX4gukZ8Wv,  \* the 11 texts, one every 79 characters
  GARBAGE           \* what an uninitialized or foreign byte holds

NUL == 0
Byte == 0 .. 255
Char == Byte \ {NUL}
BLOCK == 64

Session ==
  [ loaded : BOOLEAN, exports : SUBSET {"Initiate", "Create"}, initiated : BOOLEAN,
    Source : [1 .. 48 -> Byte], digest : [1 .. 32 -> Byte], memory : BOOLEAN ]

\* How long the texts are.
ScopeLengths == <<99, 99, 100, 100, 99, 96, 99, 96, 27, 56, 92, 93, 93, 96, 59, 98, 81>>
VYHVLengths == <<74, 70, 63, 38, 38, 76, 68, 53, 40, 50, 51>>

TextsOf(lengths, texts) ==
  /\ texts \in Seq(Seq(Char))
  /\ Len(texts) = Len(lengths)
  /\ \A k \in 1 .. Len(lengths) : Len(texts[k]) = lengths[k]

ASSUME HandshakeAssumption ==
  /\ GARBAGE \notin Byte
  /\ Sessions \subseteq Session
  /\ TextsOf(ScopeLengths, aScopeOfLicense)
  /\ TextsOf(VYHVLengths, aVYHVAX4gukZ8Wv)

VARIABLES
  session,
  Destination,  \* the string that is hashed, without its NUL
  ctx,          \* the SHA256_CTX; hashed stands for its state
  i,            \* characters given to the hash so far
  tmp,          \* the token for the DLL
  engine,
  pc            \* where the constructor is

vars == <<session, Destination, ctx, i, tmp, engine, pc>>

-----------------------------------------------------------------------------
(* Strings. *)

\* A C string: the characters before the first NUL.
CString(s) ==
  LET length == CHOOSE n \in 0 .. Len(s) :
                  /\ \A k \in 1 .. n : s[k] # NUL
                  /\ n = Len(s) \/ s[n + 1] = NUL
  IN  SubSeq(s, 1, length)

\* strncpy_s and strncat_s take at most count characters.
AtMost(s, count) == SubSeq(s, 1, IF Len(s) < count THEN Len(s) ELSE count)

\* Mutation: the difference is a signed number, its remainder may be negative.
UnsignedMod_Signed(c, n) == IF c < 48 THEN - ((48 - c) % n) ELSE (c - 48) % n

\* (c - 48) % n, the difference taken as an unsigned 64-bit number; what is
\* left over when n divides 2^64 is 1 for 17 and 5 for 11.
Pow64Mod(n) == IF n = 17 THEN 1 ELSE 5
UnsignedMod(c, n) == IF c < 48 THEN (c - 48 + Pow64Mod(n)) % n ELSE (c - 48) % n

\* The text at an index, or something else outside of the array.
Text(texts, index) ==
  IF index + 1 \in DOMAIN texts THEN texts[index + 1] ELSE <<GARBAGE>>

\* Mutation: the loop takes the first character twice.
Message_SameText(Source) ==
  AtMost(CString(Source), 47)
    \o AtMost(Text(aScopeOfLicense, UnsignedMod(Source[1], 17)), 101)
    \o AtMost(Text(aScopeOfLicense, UnsignedMod(Source[1], 17)), 101)
    \o AtMost(Text(aVYHVAX4gukZ8Wv, UnsignedMod(Source[3], 11)), 78)

Message(Source) ==
  AtMost(CString(Source), 47)
    \o AtMost(Text(aScopeOfLicense, UnsignedMod(Source[1], 17)), 101)
    \o AtMost(Text(aScopeOfLicense, UnsignedMod(Source[2], 17)), 101)
    \o AtMost(Text(aVYHVAX4gukZ8Wv, UnsignedMod(Source[3], 11)), 78)

-----------------------------------------------------------------------------
(* sha256.cpp. *)

sha256_init ==
  [data |-> [n \in 1 .. BLOCK |-> GARBAGE], datalen |-> 0, bitlen |-> 0, hashed |-> <<>>]

\* The state after one more block.
sha256_transform(hashed, data) == hashed \o data

\* One iteration of sha256_update.
UpdateByte(c, byte) ==
  LET data == [c.data EXCEPT ![c.datalen + 1] = byte]
  IN  IF c.datalen + 1 = BLOCK
      THEN [data |-> data, datalen |-> 0, bitlen |-> c.bitlen + 8 * BLOCK,
            hashed |-> sha256_transform(c.hashed, data)]
      ELSE [data |-> data, datalen |-> c.datalen + 1, bitlen |-> c.bitlen,
            hashed |-> c.hashed]

\* A bit and zeros after the data, up to a length.
Padded(c, length) ==
  [n \in 1 .. BLOCK |-> CASE n <= c.datalen \/ n > length -> c.data[n]
                          [] n = c.datalen + 1 -> 128
                          [] OTHER -> 0]

\* Byte k of the number of bits, 64-bit big-endian; a message here has fewer than
\* 2^24 bits, so that the upper five bytes are 0.
LengthByte(bits, k) ==
  CASE k = 8 -> bits % 256
    [] k = 7 -> (bits \div 256) % 256
    [] k = 6 -> (bits \div 65536) % 256
    [] OTHER -> 0
LengthField(bits) == [k \in 1 .. 8 |-> LengthByte(bits, k)]

WithLength(data, bits) ==
  [n \in 1 .. BLOCK |-> IF n <= 56 THEN data[n] ELSE LengthField(bits)[n - 56]]

\* Mutation: the buffer is not cleared before the length goes in.
sha256_final_NoMemset(c) ==
  LET bits == c.bitlen + 8 * c.datalen
      full == Padded(c, BLOCK)
  IN  IF c.datalen < 56
      THEN sha256_transform(c.hashed, WithLength(Padded(c, 56), bits))
      ELSE sha256_transform(sha256_transform(c.hashed, full), WithLength(full, bits))

\* Mutation: a block of 56 bytes is thought to have room for the length.
sha256_final_OffByOne(c) ==
  LET bits == c.bitlen + 8 * c.datalen
  IN  IF c.datalen <= 56
      THEN sha256_transform(c.hashed, WithLength(Padded(c, 56), bits))
      ELSE sha256_transform(sha256_transform(c.hashed, Padded(c, BLOCK)),
                            WithLength([n \in 1 .. BLOCK |-> 0], bits))

\* The state of the hash at the end.
sha256_final(c) ==
  LET bits == c.bitlen + 8 * c.datalen
  IN  IF c.datalen < 56
      THEN sha256_transform(c.hashed, WithLength(Padded(c, 56), bits))
      ELSE sha256_transform(sha256_transform(c.hashed, Padded(c, BLOCK)),
                            WithLength([n \in 1 .. BLOCK |-> 0], bits))

-----------------------------------------------------------------------------
(* base64_encode of utils.cpp. *)

\* 'A' .. 'Z', 'a' .. 'z', '0' .. '9', '+', '/'.
encoding_table(v) ==
  CASE v < 26 -> 65 + v
    [] v \in 26 .. 51 -> 71 + v
    [] v \in 52 .. 61 -> v - 4
    [] v = 62 -> 43
    [] OTHER -> 47

\* The octet at an index from 0, or 0 after the end.
Octet(data, k) == IF k < Len(data) THEN data[k + 1] ELSE 0

\* The six bits of letter r of the triple at t.
Sextet(data, t, r) ==
  CASE r = 0 -> Octet(data, t) \div 4
    [] r = 1 -> (Octet(data, t) % 4) * 16 + Octet(data, t + 1) \div 16
    [] r = 2 -> (Octet(data, t + 1) % 16) * 4 + Octet(data, t + 2) \div 64
    [] OTHER -> Octet(data, t + 2) % 64

mod_table(rest) == CASE rest = 0 -> 0 [] rest = 1 -> 2 [] OTHER -> 1

output_length(length) == 4 * ((length + 2) \div 3)

\* NUL in place of the usual '='.
base64_encode(data) ==
  [n \in 1 .. output_length(Len(data)) |->
     IF n > output_length(Len(data)) - mod_table(Len(data) % 3) THEN NUL
     ELSE encoding_table(Sextet(data, 3 * ((n - 1) \div 4), (n - 1) % 4))]

-----------------------------------------------------------------------------
Init ==
  /\ session \in Sessions
  /\ Destination = <<>>
  /\ ctx = sha256_init
  /\ i = 0
  /\ tmp = <<>>
  /\ engine = "none"
  /\ pc = "load"

\* An exception for a library that is not there.
LoadFails ==
  /\ pc = "load"
  /\ ~ session.loaded
  /\ pc' = "exception"
  /\ UNCHANGED <<session, Destination, ctx, i, tmp, engine>>

\* GetProcAddress gave NULL, which is called.
InitiateFails ==
  /\ pc = "load"
  /\ session.loaded
  /\ "Initiate" \notin session.exports
  /\ pc' = "crash"
  /\ UNCHANGED <<session, Destination, ctx, i, tmp, engine>>

\* The DLL answers with session.Source.  Whether it did is not looked at.
Initiate ==
  /\ pc = "load"
  /\ session.loaded
  /\ "Initiate" \in session.exports
  /\ Destination' = Message(session.Source)
  /\ ctx' = sha256_init
  /\ pc' = "update"
  /\ UNCHANGED <<session, i, tmp, engine>>

Update ==
  /\ pc = "update"
  /\ i < Len(Destination)
  /\ ctx' = UpdateByte(ctx, Destination[i + 1])
  /\ i' = i + 1
  /\ UNCHANGED <<session, Destination, tmp, engine, pc>>

\* The rest of ctx is not used again.
Final ==
  /\ pc = "update"
  /\ i = Len(Destination)
  /\ ctx' = [ctx EXCEPT !.hashed = sha256_final(ctx)]
  /\ pc' = "encode"
  /\ UNCHANGED <<session, Destination, i, tmp, engine>>

\* The string is copied to the start of 0x30 zeros.
Encode ==
  /\ pc = "encode"
  /\ session.memory
  /\ tmp' = [n \in 1 .. 48 |-> IF n \in DOMAIN base64_encode(session.digest)
                               THEN base64_encode(session.digest)[n] ELSE NUL]
  /\ pc' = "create"
  /\ UNCHANGED <<session, Destination, ctx, i, engine>>

\* memcpy from NULL.
EncodeFails ==
  /\ pc = "encode"
  /\ ~ session.memory
  /\ pc' = "crash"
  /\ UNCHANGED <<session, Destination, ctx, i, tmp, engine>>

\* The message as the standard pads it: a bit, zeros, and the number of bits,
\* to a whole number of blocks.
Pad(message) ==
  message \o <<128>> \o [n \in 1 .. (55 - Len(message)) % BLOCK |-> 0]
          \o LengthField(8 * Len(message))

\* The octets that a base64 string without '=' stands for.
Letter(c) == CHOOSE v \in 0 .. 63 : encoding_table(v) = c
Decode(s) ==
  LET six(k) == Letter(s[k + 1])
  IN  [n \in 1 .. (3 * Len(s)) \div 4 |->
         LET g == 4 * ((n - 1) \div 3)
         IN  CASE (n - 1) % 3 = 0 -> six(g) * 4 + six(g + 1) \div 16
               [] (n - 1) % 3 = 1 -> (six(g + 1) % 16) * 16 + six(g + 2) \div 4
               [] OTHER -> (six(g + 2) % 4) * 64 + six(g + 3)]

\* What the answer asks for: each of its first three characters is a number from '0'
\* on, taken modulo 2^64 as the difference of two bytes is, and names a whole text.
Pow64(n) == LET p == 65536 % n IN (p * p * p * p) % n
Index(c, n) == ((IF c < 48 THEN Pow64(n) ELSE 0) + c - 48) % n
Expected(Source) ==
  AtMost(CString(Source), 47)
    \o aScopeOfLicense[Index(Source[1], 17) + 1]
    \o aScopeOfLicense[Index(Source[2], 17) + 1]
    \o aVYHVAX4gukZ8Wv[Index(Source[3], 11) + 1]

\* The DLL expects the hash of the message that its answer asked for.
Accepts ==
  /\ session.initiated
  /\ ctx.hashed = Pad(Expected(session.Source))
  /\ Decode(CString(tmp)) = session.digest

\* GetProcAddress gave NULL for this one.
CreateFails ==
  /\ pc = "create"
  /\ "Create" \notin session.exports
  /\ pc' = "crash"
  /\ UNCHANGED <<session, Destination, ctx, i, tmp, engine>>

\* The result is not looked at either: without an engine, `instance` has what
\* was on the stack.
Create ==
  /\ pc = "create"
  /\ "Create" \in session.exports
  /\ engine' = IF Accepts THEN "engine" ELSE "garbage"
  /\ pc' = "done"
  /\ UNCHANGED <<session, Destination, ctx, i, tmp>>

Stopped == pc \in {"done", "exception", "crash"} /\ UNCHANGED vars

Next ==
  \/ LoadFails
  \/ InitiateFails
  \/ Initiate
  \/ Update
  \/ Final
  \/ Encode
  \/ EncodeFails
  \/ CreateFails
  \/ Create
  \/ Stopped

Spec == Init /\ [][Next]_vars

-----------------------------------------------------------------------------
(* Properties. *)

\* Destination holds text only (no index leaves the arrays) and fits with its
\* NUL in 336 characters, the block of the hash never overflows, and the token
\* fits in 0x30 characters and ends with a NUL.
TypeOK ==
  /\ session \in Session
  /\ Destination \in Seq(Char)
  /\ Len(Destination) < 336
  /\ ctx.data \in [1 .. BLOCK -> Byte \cup {GARBAGE}]
  /\ ctx.datalen \in 0 .. BLOCK - 1
  /\ ctx.bitlen \in Nat
  /\ ctx.hashed \in Seq(Byte)
  /\ i \in 0 .. Len(Destination)
  /\ tmp \in {<<>>} \cup [1 .. 48 -> Byte]
  /\ tmp # <<>> => tmp[48] = NUL
  /\ engine \in {"none", "garbage", "engine"}
  /\ pc \in {"load", "update", "encode", "create", "done", "exception", "crash"}

\* What is hashed is the message as FIPS 180-2 pads it, whatever its length is
\* modulo the block: nothing that an earlier block or the stack left in ctx.data
\* is in it.  Until then no character is lost or hashed twice.
PaddingExact ==
  /\ pc = "update" =>
       ctx.hashed \o SubSeq(ctx.data, 1, ctx.datalen) = SubSeq(Destination, 1, i)
  /\ pc \in {"encode", "create"} => ctx.hashed = Pad(Destination)

\* The constructor returns with an engine whenever the DLL did its part: the texts
\* are those that the answer names, none of them cut, the hash is of that message,
\* and the token reads back as the hash, for every digest.
HandshakeAccepted ==
  pc = "done" /\ session.initiated => engine = "engine"
=============================================================================
