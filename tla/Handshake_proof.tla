--------------------------- MODULE Handshake_proof ---------------------------
(***************************************************************************)
(* Theorems about Handshake: base64_encode loses nothing, sha256 pads      *)
(* every message as the standard does, and the DLL accepts the token.      *)
(***************************************************************************)
EXTENDS Handshake, SequenceTheorems, FiniteSetTheorems, TLAPS

-----------------------------------------------------------------------------
(* Strings. *)

\* A set of numbers that is not empty has a least one.
LEMMA LeastNumber ==
  ASSUME NEW T, T \subseteq Nat, T # {}
  PROVE  \E n \in T : \A m \in T : n <= m
<1> DEFINE Below == {0 .. n - 1 : n \in T}
<1>1. Below \subseteq FiniteSubsetsOf(Nat)
  <2> SUFFICES ASSUME NEW n \in T PROVE 0 .. n - 1 \in FiniteSubsetsOf(Nat)
    OBVIOUS
  <2>1. n \in Nat /\ IsFiniteSet(0 .. n - 1) /\ 0 .. n - 1 \subseteq Nat
    BY FS_Interval
  <2> QED
    BY <2>1 DEF FiniteSubsetsOf
<1>2. Below # {}
  OBVIOUS
<1>3. PICK B \in Below : \A A \in Below : <<A, B>> \notin StrictSubsetOrdering(Nat)
  BY <1>1, <1>2, FS_StrictSubsetOrderingWellFounded, WFMin
<1>4. PICK n \in T : B = 0 .. n - 1
  BY <1>3
<1>5. ASSUME NEW m \in T, m < n PROVE FALSE
  <2>1. m \in Nat /\ n \in Nat
    OBVIOUS
  <2>2. 0 .. m - 1 \subseteq Nat /\ B \subseteq Nat /\ 0 .. m - 1 \subseteq B /\ m \in B /\ m \notin 0 .. m - 1
    BY <1>4, <1>5, <2>1
  <2>3. <<0 .. m - 1, B>> \in StrictSubsetOrdering(Nat)
    BY <2>2 DEF StrictSubsetOrdering
  <2> QED
    BY <1>3, <2>3
<1> QED
  BY <1>5

\* A C string ends before the first NUL.
LEMMA CStringLength ==
  ASSUME NEW s \in Seq(Byte)
  PROVE  \E n \in 0 .. Len(s) :
           /\ CString(s) = SubSeq(s, 1, n)
           /\ \A k \in 1 .. n : s[k] # NUL
           /\ n = Len(s) \/ s[n + 1] = NUL
<1> DEFINE Ends == {n \in 0 .. Len(s) : n = Len(s) \/ s[n + 1] = NUL}
           Length(n) == /\ \A k \in 1 .. n : s[k] # NUL
                        /\ n = Len(s) \/ s[n + 1] = NUL
<1>1. Ends \subseteq Nat /\ Len(s) \in Ends
  BY LenProperties
<1>2. PICK n \in Ends : \A m \in Ends : n <= m
  BY <1>1, LeastNumber
<1>3. ASSUME NEW k \in 1 .. n PROVE s[k] # NUL
  <2>1. Len(s) \in Nat
    BY LenProperties
  <2>2. n \in 0 .. Len(s)
    OBVIOUS
  <2>3. k - 1 \in 0 .. Len(s) /\ k \in Int /\ (k - 1) + 1 = k
    BY <2>1, <2>2
  <2>4. ~ (n <= k - 1)
    BY <2>2, <2>3
  <2>5. k - 1 \notin Ends
    BY <1>2, <2>4, Zenon
  <2> QED
    BY <2>3, <2>5
<1>4. n \in 0 .. Len(s) /\ Length(n)
  BY <1>3
<1>5. Length(CHOOSE m \in 0 .. Len(s) : Length(m)) /\ (CHOOSE m \in 0 .. Len(s) : Length(m)) \in 0 .. Len(s)
  BY <1>4
<1> QED
  BY <1>5, Zenon DEF CString

-----------------------------------------------------------------------------
(* base64_encode. *)

\* No two values have the same letter, and no letter is a NUL.
LEMMA LetterOfValue ==
  ASSUME NEW v \in 0 .. 63
  PROVE  /\ encoding_table(v) \in Char
         /\ Letter(encoding_table(v)) = v
<1>1. \A x, y \in 0 .. 63 : encoding_table(x) = encoding_table(y) => x = y
  BY DEF encoding_table
<1>2. encoding_table(v) \in Char
  BY DEF encoding_table, Char, Byte, NUL
<1>3. Letter(encoding_table(v)) = v
  <2> DEFINE c == encoding_table(v)
  <2>1. \E x \in 0 .. 63 : encoding_table(x) = c
    OBVIOUS
  <2>2. Letter(c) \in 0 .. 63 /\ encoding_table(Letter(c)) = c
    BY <2>1, Zenon DEF Letter
  <2> QED
    BY <1>1, <2>2, Zenon
<1> QED
  BY <1>2, <1>3

LEMMA OctetType ==
  ASSUME NEW data \in Seq(Byte), NEW k \in Nat
  PROVE  Octet(data, k) \in 0 .. 255
<1>1. Len(data) \in Nat
  BY LenProperties
<1>2. CASE k < Len(data)
  <2>1. k + 1 \in 1 .. Len(data)
    BY <1>1, <1>2
  <2>2. data[k + 1] \in Byte
    BY <2>1, ElementOfSeq
  <2> QED
    BY <1>2, <2>2 DEF Octet, Byte
<1>3. CASE ~ (k < Len(data))
  BY <1>3 DEF Octet
<1> QED
  BY <1>2, <1>3

\* Three octets, split in four values of six bits and put together again.
Splits(a, b, c) ==
  /\ a \div 4 \in 0 .. 63
  /\ (a % 4) * 16 + b \div 16 \in 0 .. 63
  /\ (b % 16) * 4 + c \div 64 \in 0 .. 63
  /\ c % 64 \in 0 .. 63
  /\ (a \div 4) * 4 + ((a % 4) * 16 + b \div 16) \div 16 = a
  /\ (((a % 4) * 16 + b \div 16) % 16) * 16 + ((b % 16) * 4 + c \div 64) \div 4 = b
  /\ (((b % 16) * 4 + c \div 64) % 4) * 64 + (c % 64) = c

LEMMA SixBits ==
  ASSUME NEW a \in 0 .. 255, NEW b \in 0 .. 255, NEW c \in 0 .. 255
  PROVE  Splits(a, b, c)
<1>1. /\ a % 4 \in 0 .. 3 /\ b \div 16 \in 0 .. 15
      /\ b % 16 \in 0 .. 15 /\ c \div 64 \in 0 .. 3
  OBVIOUS
<1>2. ((a % 4) * 16 + b \div 16) \div 16 = a % 4 /\ ((a % 4) * 16 + b \div 16) % 16 = b \div 16
  BY <1>1
<1>3. ((b % 16) * 4 + c \div 64) \div 4 = b % 16 /\ ((b % 16) * 4 + c \div 64) % 4 = c \div 64
  BY <1>1
<1> QED
  BY <1>1, <1>2, <1>3 DEF Splits

\* The four letters of a triple hold its three octets.
LEMMA SextetValue ==
  ASSUME NEW data \in Seq(Byte), NEW t \in Nat
  PROVE  /\ \A r \in 0 .. 3 : Sextet(data, t, r) \in 0 .. 63
         /\ Sextet(data, t, 0) * 4 + Sextet(data, t, 1) \div 16 = Octet(data, t)
         /\ (Sextet(data, t, 1) % 16) * 16 + Sextet(data, t, 2) \div 4 = Octet(data, t + 1)
         /\ (Sextet(data, t, 2) % 4) * 64 + Sextet(data, t, 3) = Octet(data, t + 2)
<1> DEFINE a == Octet(data, t)
           b == Octet(data, t + 1)
           c == Octet(data, t + 2)
<1>1. a \in 0 .. 255 /\ b \in 0 .. 255 /\ c \in 0 .. 255
  BY OctetType
<1>2. /\ Sextet(data, t, 0) = a \div 4
      /\ Sextet(data, t, 1) = (a % 4) * 16 + b \div 16
      /\ Sextet(data, t, 2) = (b % 16) * 4 + c \div 64
      /\ Sextet(data, t, 3) = c % 64
  BY DEF Sextet
<1> HIDE DEF a, b, c
<1>3. Splits(a, b, c)
  BY <1>1, SixBits
<1>4. /\ Sextet(data, t, 0) \in 0 .. 63 /\ Sextet(data, t, 1) \in 0 .. 63
      /\ Sextet(data, t, 2) \in 0 .. 63 /\ Sextet(data, t, 3) \in 0 .. 63
  BY <1>2, <1>3 DEF Splits
<1>5. \A r \in 0 .. 3 : Sextet(data, t, r) \in 0 .. 63
  <2> SUFFICES ASSUME NEW r \in 0 .. 3 PROVE Sextet(data, t, r) \in 0 .. 63
    OBVIOUS
  <2>1. r = 0 \/ r = 1 \/ r = 2 \/ r = 3
    OBVIOUS
  <2> QED
    BY <1>4, <2>1, Zenon
<1> QED
  BY <1>2, <1>3, <1>5, Zenon DEF a, b, c, Splits

\* The number of letters that are not NUL, for each remainder of the length.
LEMMA LetterCount ==
  ASSUME NEW q \in Nat, NEW r \in 0 .. 2
  PROVE  output_length(3 * q + r) - mod_table((3 * q + r) % 3)
           = (IF r = 0 THEN 4 * q ELSE 4 * q + r + 1)
<1>1. (3 * q + r) % 3 = r
  OBVIOUS
<1>2. (3 * q + r + 2) \div 3 = IF r = 0 THEN q ELSE q + 1
  OBVIOUS
<1> QED
  BY <1>1, <1>2 DEF output_length, mod_table

\* What base64_encode writes, with any number of NULs after it.
Encoded(data, s) ==
  /\ s \in Seq(Byte)
  /\ Len(s) >= output_length(Len(data))
  /\ \A n \in 1 .. Len(s) :
       s[n] = IF n \in DOMAIN base64_encode(data) THEN base64_encode(data)[n] ELSE NUL

Letters(data) == output_length(Len(data)) - mod_table(Len(data) % 3)

\* How many letters there are, for a length of 3 * q + r.
LEMMA LettersOf ==
  ASSUME NEW data \in Seq(Byte)
  PROVE  \E q \in Nat, r \in 0 .. 2 :
           /\ Len(data) = 3 * q + r
           /\ Letters(data) = IF r = 0 THEN 4 * q ELSE 4 * q + r + 1
           /\ output_length(Len(data)) \in Nat
           /\ Letters(data) <= output_length(Len(data))
<1>1. Len(data) \in Nat
  BY LenProperties
<1>2. PICK q \in Nat, r \in 0 .. 2 : Len(data) = 3 * q + r
  <2>1. Len(data) = 3 * (Len(data) \div 3) + (Len(data) % 3)
    BY <1>1
  <2>2. Len(data) \div 3 \in Nat /\ Len(data) % 3 \in 0 .. 2
    BY <1>1
  <2> QED
    BY <2>1, <2>2
<1>3. Letters(data) = IF r = 0 THEN 4 * q ELSE 4 * q + r + 1
  BY <1>2, LetterCount DEF Letters
<1>4. output_length(Len(data)) \in Nat
  BY <1>1 DEF output_length
<1>5. mod_table(Len(data) % 3) \in Nat
  BY DEF mod_table
<1>6. Letters(data) <= output_length(Len(data))
  BY <1>4, <1>5 DEF Letters
<1> QED
  BY <1>2, <1>3, <1>4, <1>6

\* The letters come first, the NULs after them.
LEMMA EncodedLetters ==
  ASSUME NEW data \in Seq(Byte), NEW s, Encoded(data, s)
  PROVE  /\ Letters(data) \in 0 .. Len(s)
         /\ \A n \in 1 .. Letters(data) :
              /\ s[n] \in Char
              /\ Letter(s[n]) = Sextet(data, 3 * ((n - 1) \div 4), (n - 1) % 4)
         /\ \A n \in Letters(data) + 1 .. Len(s) : s[n] = NUL
<1> DEFINE out == output_length(Len(data))
<1>1. Len(s) \in Nat /\ out \in Nat /\ Letters(data) \in Nat /\ Letters(data) <= out /\ out <= Len(s)
  BY LettersOf, LenProperties DEF Encoded
<1>2. DOMAIN base64_encode(data) = 1 .. out
  BY DEF base64_encode
<1>3. ASSUME NEW n \in 1 .. Letters(data)
      PROVE  s[n] \in Char /\ Letter(s[n]) = Sextet(data, 3 * ((n - 1) \div 4), (n - 1) % 4)
  <2> DEFINE six == Sextet(data, 3 * ((n - 1) \div 4), (n - 1) % 4)
  <2>1. n \in 1 .. out /\ n \in 1 .. Len(s) /\ ~ (n > out - mod_table(Len(data) % 3))
    BY <1>1 DEF Letters
  <2>2. s[n] = base64_encode(data)[n]
    BY <1>2, <2>1 DEF Encoded
  <2>3. base64_encode(data)[n] = encoding_table(six)
    BY <2>1 DEF base64_encode
  <2>4. 3 * ((n - 1) \div 4) \in Nat /\ (n - 1) % 4 \in 0 .. 3
    BY <1>1
  <2>5. six \in 0 .. 63
    BY <2>4, SextetValue
  <2> HIDE DEF six
  <2>6. encoding_table(six) \in Char /\ Letter(encoding_table(six)) = six
    BY <2>5, LetterOfValue
  <2>7. s[n] \in Char /\ Letter(s[n]) = six
    BY <2>2, <2>3, <2>6, Zenon DEF six
  <2> QED
    BY <2>7 DEF six
<1>4. ASSUME NEW n \in Letters(data) + 1 .. Len(s)
      PROVE  s[n] = NUL
  <2>1. n \in 1 .. Len(s) /\ n > out - mod_table(Len(data) % 3)
    BY <1>1 DEF Letters
  <2>2. n \in 1 .. out => base64_encode(data)[n] = NUL
    BY <2>1 DEF base64_encode
  <2> QED
    BY <1>2, <2>1, <2>2 DEF Encoded
<1> QED
  BY <1>1, <1>3, <1>4

LEMMA CStringOfEncoded ==
  ASSUME NEW data \in Seq(Byte), NEW s, Encoded(data, s)
  PROVE  /\ CString(s) \in Seq(Byte)
         /\ Len(CString(s)) = Letters(data)
         /\ \A n \in 1 .. Letters(data) : CString(s)[n] = s[n]
<1>1. s \in Seq(Byte) /\ Len(s) \in Nat
  BY LenProperties DEF Encoded
<1>2. PICK n \in 0 .. Len(s) :
        /\ CString(s) = SubSeq(s, 1, n)
        /\ \A k \in 1 .. n : s[k] # NUL
        /\ n = Len(s) \/ s[n + 1] = NUL
  BY <1>1, CStringLength
<1>3. n = Letters(data)
  <2>1. Letters(data) \in 0 .. Len(s)
    BY EncodedLetters
  <2>2. ASSUME n < Letters(data) PROVE FALSE
    <3>1. n + 1 \in 1 .. Letters(data) /\ n # Len(s)
      BY <1>1, <2>1, <2>2
    <3>2. s[n + 1] \in Char
      BY <3>1, EncodedLetters
    <3> QED
      BY <1>2, <3>1, <3>2 DEF Char
  <2>3. ASSUME Letters(data) < n PROVE FALSE
    <3>1. Letters(data) + 1 \in 1 .. n /\ Letters(data) + 1 \in Letters(data) + 1 .. Len(s)
      BY <1>1, <2>1, <2>3
    <3> QED
      BY <1>2, <3>1, EncodedLetters
  <2> QED
    BY <1>1, <2>1, <2>2, <2>3
<1>4. \A k \in 1 .. n : s[k] \in Byte
  BY <1>1, ElementOfSeq
<1>5. /\ SubSeq(s, 1, n) \in Seq(Byte)
      /\ Len(SubSeq(s, 1, n)) = n
      /\ \A k \in 1 .. n : SubSeq(s, 1, n)[k] = s[k]
  BY <1>1, <1>4, SubSeqProperties
<1> QED
  BY <1>2, <1>3, <1>5

\* base64_encode loses nothing: read up to its first NUL, its result stands for
\* the octets that were encoded, whatever they are and however many.
THEOREM Base64RoundTrip ==
  ASSUME NEW data \in Seq(Byte), NEW s, Encoded(data, s)
  PROVE  Decode(CString(s)) = data
<1> DEFINE d == CString(s)
           six(k) == Letter(d[k + 1])
<1>1. PICK q \in Nat, r \in 0 .. 2 :
        /\ Len(data) = 3 * q + r
        /\ Letters(data) = IF r = 0 THEN 4 * q ELSE 4 * q + r + 1
  BY LettersOf
<1>2. d \in Seq(Byte) /\ Len(d) = Letters(data)
  BY CStringOfEncoded
<1>3. (3 * Len(d)) \div 4 = Len(data)
  BY <1>1, <1>2
<1>4. ASSUME NEW t \in Nat, NEW v \in 0 .. 3, 4 * t + v < Letters(data)
      PROVE  six(4 * t + v) = Sextet(data, 3 * t, v)
  <2>1. 4 * t + v + 1 \in 1 .. Letters(data)
    BY <1>1, <1>4
  <2>2. ((4 * t + v + 1) - 1) \div 4 = t /\ ((4 * t + v + 1) - 1) % 4 = v
    OBVIOUS
  <2>3. d[4 * t + v + 1] = s[4 * t + v + 1]
    BY <2>1, CStringOfEncoded
  <2>4. Letter(s[4 * t + v + 1]) = Sextet(data, 3 * t, v)
    BY <2>1, <2>2, EncodedLetters
  <2> QED
    BY <2>3, <2>4
<1>5. ASSUME NEW n \in 1 .. Len(data)
      PROVE  Decode(d)[n] = data[n]
  <2> DEFINE t == (n - 1) \div 3
             u == (n - 1) % 3
  <2>1. t \in Nat /\ u \in 0 .. 2 /\ n = 3 * t + u + 1 /\ 4 * t + u + 1 < Letters(data)
    BY <1>1
  <2>2. Octet(data, 3 * t + u) = data[n]
    BY <1>1, <2>1 DEF Octet
  <2>3. Decode(d)[n] = CASE u = 0 -> six(4 * t) * 4 + six(4 * t + 1) \div 16
                         [] u = 1 -> (six(4 * t + 1) % 16) * 16 + six(4 * t + 2) \div 4
                         [] OTHER -> (six(4 * t + 2) % 4) * 64 + six(4 * t + 3)
    BY <1>3 DEF Decode
  <2>4. six(4 * t + u) = Sextet(data, 3 * t, u) /\ six(4 * t + u + 1) = Sextet(data, 3 * t, u + 1)
    <3>1. 4 * t + u < Letters(data) /\ u \in 0 .. 3 /\ u + 1 \in 0 .. 3 /\ 4 * t + (u + 1) < Letters(data)
          /\ 4 * t + (u + 1) = 4 * t + u + 1
      BY <1>1, <2>1
    <3> HIDE DEF t, u, six, d
    <3> QED
      BY <1>4, <2>1, <3>1
  <2>5. /\ Sextet(data, 3 * t, 0) * 4 + Sextet(data, 3 * t, 1) \div 16 = Octet(data, 3 * t)
        /\ (Sextet(data, 3 * t, 1) % 16) * 16 + Sextet(data, 3 * t, 2) \div 4 = Octet(data, 3 * t + 1)
        /\ (Sextet(data, 3 * t, 2) % 4) * 64 + Sextet(data, 3 * t, 3) = Octet(data, 3 * t + 2)
    <3>1. 3 * t \in Nat
      BY <2>1
    <3> HIDE DEF t
    <3> QED
      BY <3>1, SextetValue
  <2> HIDE DEF t, u, six, d
  <2>6. CASE u = 0
    BY <2>1, <2>2, <2>3, <2>4, <2>5, <2>6
  <2>7. CASE u = 1
    BY <2>1, <2>2, <2>3, <2>4, <2>5, <2>7
  <2>8. CASE u = 2
    BY <2>1, <2>2, <2>3, <2>4, <2>5, <2>8
  <2> QED
    BY <2>1, <2>6, <2>7, <2>8
<1>6. Decode(d) = [n \in 1 .. Len(data) |-> Decode(d)[n]]
  BY <1>3 DEF Decode
<1>7. data = [n \in 1 .. Len(data) |-> data[n]]
  BY LenProperties
<1> QED
  BY <1>5, <1>6, <1>7

-----------------------------------------------------------------------------
(* sha256. *)

ShaType ==
  [ data : [1 .. BLOCK -> Byte \cup {GARBAGE}], datalen : 0 .. BLOCK - 1,
    bitlen : Nat, hashed : Seq(Byte) ]

\* The first k bytes of the message are in the hash, in whole blocks, and for
\* the rest in the current block.
Absorbed(c, message, k) ==
  /\ k = Len(c.hashed) + c.datalen
  /\ \E q \in Nat : Len(c.hashed) = BLOCK * q
  /\ c.bitlen = 8 * Len(c.hashed)
  /\ \A n \in 1 .. Len(c.hashed) : c.hashed[n] = message[n]
  /\ \A n \in 1 .. c.datalen : c.data[n] = message[Len(c.hashed) + n]

LEMMA FunctionIsSeq ==
  ASSUME NEW length \in Nat, NEW f \in [1 .. length -> Byte]
  PROVE  f \in Seq(Byte) /\ Len(f) = length
OBVIOUS

LEMMA BlockIsSeq ==
  ASSUME NEW block \in [1 .. 64 -> Byte]
  PROVE  64 \in Nat /\ block \in Seq(Byte) /\ 64 = Len(block)
BY FunctionIsSeq

LEMMA LengthFieldType ==
  ASSUME NEW bits \in Nat
  PROVE  LengthField(bits) \in [1 .. 8 -> Byte]
<1>1. ASSUME NEW k \in 1 .. 8 PROVE LengthByte(bits, k) \in Byte
  <2>1. bits % 256 \in 0 .. 255 /\ (bits \div 256) % 256 \in 0 .. 255 /\ (bits \div 65536) % 256 \in 0 .. 255
    OBVIOUS
  <2>2. CASE k = 8
    BY <2>1, <2>2 DEF LengthByte, Byte
  <2>3. CASE k = 7
    BY <2>1, <2>3 DEF LengthByte, Byte
  <2>4. CASE k = 6
    BY <2>1, <2>4 DEF LengthByte, Byte
  <2>5. CASE k \notin {6, 7, 8}
    BY <2>5 DEF LengthByte, Byte
  <2> QED
    BY <2>2, <2>3, <2>4, <2>5
<1> QED
  BY <1>1 DEF LengthField

LEMMA Offset ==
  ASSUME NEW h \in Nat, NEW n \in 1 .. 64
  PROVE  h + n \in 1 .. h + 64 /\ ~ (h + n <= h) /\ (h + n) - h = n
OBVIOUS

\* What the hash has absorbed after a further block.
LEMMA BlockAbsorbed ==
  ASSUME NEW hashed \in Seq(Byte), NEW block \in [1 .. 64 -> Byte]
  PROVE  \E h \in Nat :
           /\ h = Len(hashed)
           /\ hashed \o block \in Seq(Byte)
           /\ Len(hashed \o block) = h + 64
           /\ \A n \in 1 .. h : (hashed \o block)[n] = hashed[n]
           /\ \A n \in 1 .. 64 : (hashed \o block)[h + n] = block[n]
<1>1. block \in Seq(Byte) /\ Len(block) = 64
  BY FunctionIsSeq
<1>2. PICK h \in Nat : h = Len(hashed)
  BY LenProperties
<1>3. /\ hashed \o block \in Seq(Byte)
      /\ Len(hashed \o block) = Len(hashed) + Len(block)
      /\ \A n \in 1 .. Len(hashed) + Len(block) :
           (hashed \o block)[n] = IF n <= Len(hashed) THEN hashed[n] ELSE block[n - Len(hashed)]
  BY <1>1, ConcatProperties
<1> DEFINE both == hashed \o block
<1>4. /\ Len(both) = h + 64
      /\ \A n \in 1 .. h + 64 : both[n] = IF n <= h THEN hashed[n] ELSE block[n - h]
  BY <1>1, <1>2, <1>3, Zenon
<1>5. both \in Seq(Byte)
  BY <1>3
<1> HIDE DEF both
<1>6. ASSUME NEW n \in 1 .. 64 PROVE both[h + n] = block[n]
  BY <1>4, Offset, Zenon
<1>7. ASSUME NEW n \in 1 .. h PROVE both[n] = hashed[n]
  <2>1. n \in 1 .. h + 64 /\ n <= h
    OBVIOUS
  <2> QED
    BY <1>4, <2>1, Zenon
<1> QED
  BY <1>2, <1>4, <1>5, <1>6, <1>7, Zenon DEF both

\* sha256_update adds the next byte, whether it fills the block or not.
LEMMA UpdateAbsorbs ==
  ASSUME NEW c \in ShaType, NEW message \in Seq(Byte), NEW k \in Nat, k < Len(message),
         Absorbed(c, message, k)
  PROVE  /\ UpdateByte(c, message[k + 1]) \in ShaType
         /\ Absorbed(UpdateByte(c, message[k + 1]), message, k + 1)
<1> DEFINE b == message[k + 1]
           data == [c.data EXCEPT ![c.datalen + 1] = b]
<1>1. PICK h \in Nat, m \in 0 .. 63, length \in Nat, q \in Nat :
        /\ h = Len(c.hashed) /\ m = c.datalen /\ length = Len(message) /\ h = 64 * q
  <2>1. c.hashed \in Seq(Byte) /\ c.datalen \in 0 .. 63
    BY DEF ShaType, BLOCK
  <2>2. Len(c.hashed) \in Nat /\ Len(message) \in Nat
    BY <2>1, LenProperties
  <2>3. \E q \in Nat : Len(c.hashed) = 64 * q
    BY Zenon DEF Absorbed, BLOCK
  <2> QED
    BY <2>1, <2>2, <2>3, Zenon
<1>2. /\ k = h + m /\ c.bitlen = 8 * h
      /\ \A n \in 1 .. h : c.hashed[n] = message[n]
      /\ \A n \in 1 .. m : c.data[n] = message[h + n]
  BY <1>1, Zenon DEF Absorbed
<1>3. \A n \in 1 .. k + 1 : message[n] \in Byte
  BY <1>1, ElementOfSeq
<1>4. c.data \in [1 .. 64 -> Byte \cup {GARBAGE}] /\ c.hashed \in Seq(Byte)
  BY DEF ShaType, BLOCK
<1>5. /\ data \in [1 .. 64 -> Byte \cup {GARBAGE}]
      /\ \A n \in 1 .. m + 1 : data[n] = message[h + n]
  <2>1. b \in Byte
    BY <1>3
  <2>2. m + 1 \in 1 .. 64 /\ h + (m + 1) = k + 1
    <3>1. k = h + m
      BY <1>2
    <3> QED
      BY <3>1
  <2>3. \A n \in 1 .. m + 1 : n \in 1 .. 64 /\ (n # m + 1 => n \in 1 .. m)
    OBVIOUS
  <2> QED
    BY <1>1, <1>2, <1>4, <2>1, <2>2, <2>3
<1>6. UpdateByte(c, b) =
        IF m + 1 = 64
        THEN [data |-> data, datalen |-> 0, bitlen |-> c.bitlen + 8 * 64, hashed |-> c.hashed \o data]
        ELSE [data |-> data, datalen |-> m + 1, bitlen |-> c.bitlen, hashed |-> c.hashed]
  BY <1>1, Zenon DEF UpdateByte, BLOCK, sha256_transform
<1> HIDE DEF data, b
<1>7. CASE m + 1 = 64
  <2> DEFINE both == c.hashed \o data
             u == [data |-> data, datalen |-> 0, bitlen |-> c.bitlen + 8 * 64, hashed |-> both]
  <2>1. data \in [1 .. 64 -> Byte]
    <3>1. \A n \in 1 .. 64 : data[n] \in Byte
      <4> SUFFICES ASSUME NEW n \in 1 .. 64 PROVE data[n] \in Byte
        OBVIOUS
      <4>1. n \in 1 .. m + 1 /\ h + n \in 1 .. k + 1
        BY <1>2, <1>7
      <4> QED
        BY <1>3, <1>5, <4>1
    <3> QED
      BY <1>5, <3>1
  <2>2. /\ both \in Seq(Byte)
        /\ Len(both) = h + 64
        /\ \A n \in 1 .. h : both[n] = c.hashed[n]
        /\ \A n \in 1 .. 64 : both[h + n] = data[n]
    <3>1. c.hashed \in Seq(Byte) /\ h = Len(c.hashed)
      BY <1>1, <1>4
    <3>2. PICK l \in Nat :
            /\ l = Len(c.hashed)
            /\ c.hashed \o data \in Seq(Byte)
            /\ Len(c.hashed \o data) = l + 64
            /\ \A n \in 1 .. l : (c.hashed \o data)[n] = c.hashed[n]
            /\ \A n \in 1 .. 64 : (c.hashed \o data)[l + n] = data[n]
      BY <2>1, <3>1, BlockAbsorbed, Zenon
    <3>3. l = h
      BY <3>1, <3>2, Zenon
    <3> QED
      BY <3>2, <3>3, Zenon
  <2> HIDE DEF both
  <2>3. \A n \in 1 .. h + 64 : both[n] = message[n]
    <3> SUFFICES ASSUME NEW n \in 1 .. h + 64 PROVE both[n] = message[n]
      OBVIOUS
    <3>1. CASE n <= h
      <4>1. n \in 1 .. h
        BY <3>1
      <4> QED
        BY <1>2, <2>2, <4>1
    <3>2. CASE ~ (n <= h)
      <4>1. n - h \in 1 .. 64 /\ n - h \in 1 .. m + 1 /\ h + (n - h) = n
        BY <1>7, <3>2
      <4> QED
        BY <1>5, <2>2, <4>1, Zenon
    <3> QED
      BY <3>1, <3>2
  <2>4. k + 1 = h + 64 /\ h + 64 = 64 * (q + 1) /\ q + 1 \in Nat /\ c.bitlen + 8 * 64 = 8 * (h + 64)
        /\ c.bitlen + 8 * 64 \in Nat
    BY <1>1, <1>2, <1>7
  <2>5. UpdateByte(c, b) = u
    BY <1>6, <1>7, Zenon DEF both
  <2>6. u \in ShaType
    BY <1>5, <2>2, <2>4 DEF ShaType, BLOCK
  <2>7. Absorbed(u, message, k + 1)
    <3>1. u.hashed = both /\ u.datalen = 0 /\ u.bitlen = c.bitlen + 8 * 64
      OBVIOUS
    <3>2. k + 1 = (h + 64) + 0 /\ \A n \in 1 .. 0 : u.data[n] = message[h + 64 + n]
      BY <2>4
    <3> HIDE DEF u
    <3> QED
      BY <2>2, <2>3, <2>4, <3>1, <3>2, Zenon DEF Absorbed, BLOCK
  <2> QED
    BY <2>5, <2>6, <2>7, Zenon DEF b
<1>8. CASE m + 1 # 64
  <2> DEFINE u == [data |-> data, datalen |-> m + 1, bitlen |-> c.bitlen, hashed |-> c.hashed]
  <2>1. UpdateByte(c, b) = u
    BY <1>6, <1>8, Zenon
  <2>2. m + 1 \in 0 .. 63 /\ k + 1 = h + (m + 1) /\ c.bitlen \in Nat
    BY <1>2, <1>8
  <2>3. u \in ShaType
    BY <1>4, <1>5, <2>2 DEF ShaType, BLOCK
  <2>4. Absorbed(u, message, k + 1)
    <3>1. u.hashed = c.hashed /\ u.datalen = m + 1 /\ u.bitlen = c.bitlen /\ u.data = data
      OBVIOUS
    <3> HIDE DEF u
    <3> QED
      BY <1>1, <1>2, <1>5, <2>2, <3>1, Zenon DEF Absorbed, BLOCK
  <2> QED
    BY <2>1, <2>3, <2>4, Zenon DEF b
<1> QED
  BY <1>7, <1>8, Zenon

PaddedByte(message, l, field, length, n) ==
  IF n <= l THEN message[n]
  ELSE IF n = l + 1 THEN 128
  ELSE IF n <= length - 8 THEN 0 ELSE field[n - (length - 8)]

\* s is the message, a bit, zeros and the field, in length bytes.
PaddedTo(message, field, length, s) ==
  /\ s \in Seq(Byte)
  /\ Len(s) = length
  /\ \A n \in 1 .. length : s[n] = PaddedByte(message, Len(message), field, length, n)

\* There is one such string.
LEMMA OnePadding ==
  ASSUME NEW message, NEW field, NEW length \in Nat, NEW s, NEW t,
         PaddedTo(message, field, length, s), PaddedTo(message, field, length, t)
  PROVE  s = t
<1>1. /\ s \in Seq(Byte) /\ t \in Seq(Byte) /\ Len(s) = length /\ Len(t) = length
      /\ \A n \in 1 .. length : s[n] = t[n]
  BY Zenon DEF PaddedTo
<1> QED
  BY <1>1, SeqEqual

Joined(a, b, la, lb, s) ==
  /\ s \in Seq(Byte)
  /\ Len(s) = la + lb
  /\ \A n \in 1 .. la + lb : s[n] = IF n <= la THEN a[n] ELSE b[n - la]

\* Two strings, one after the other.
LEMMA Joining ==
  ASSUME NEW a \in Seq(Byte), NEW b \in Seq(Byte), NEW la \in Nat, NEW lb \in Nat,
         la = Len(a), lb = Len(b)
  PROVE  Joined(a, b, la, lb, a \o b)
BY ConcatProperties DEF Joined

\* How many zeros there are, for what is left after the whole blocks.
LEMMA ZerosOf ==
  ASSUME NEW q \in Nat, NEW m \in 0 .. 63
  PROVE  (55 - (64 * q + m)) % 64 = IF m < 56 THEN 55 - m ELSE 119 - m
OBVIOUS

\* Pad is such a string, of one or two blocks after the whole ones.
LEMMA PadPads ==
  ASSUME NEW message \in Seq(Byte), NEW q \in Nat, NEW m \in 0 .. 63,
         Len(message) = 64 * q + m
  PROVE  PaddedTo(message, LengthField(8 * (64 * q + m)),
                  IF m < 56 THEN 64 * q + 64 ELSE 64 * q + 128, Pad(message))
<1> DEFINE l == 64 * q + m
           z == IF m < 56 THEN 55 - m ELSE 119 - m
           length == IF m < 56 THEN 64 * q + 64 ELSE 64 * q + 128
           zeros == [n \in 1 .. z |-> 0]
           field == LengthField(8 * l)
           one == <<128>>
           s1 == message \o one
           s2 == s1 \o zeros
           s3 == s2 \o field
<1>1. l \in Nat /\ l + 1 \in Nat /\ z \in Nat /\ l + 1 + z \in Nat /\ length = l + 1 + z + 8 /\ 8 * l \in Nat
  OBVIOUS
<1>2. Pad(message) = s3
  BY ZerosOf, Zenon DEF Pad, BLOCK
<1>3. one \in Seq(Byte) /\ Len(one) = 1 /\ one[1] = 128
  BY DEF Byte
<1>4. zeros \in Seq(Byte) /\ Len(zeros) = z /\ \A n \in 1 .. z : zeros[n] = 0
  <2>1. zeros \in [1 .. z -> Byte] /\ \A n \in 1 .. z : zeros[n] = 0
    BY DEF Byte
  <2> HIDE DEF z, zeros
  <2> QED
    BY <1>1, <2>1, FunctionIsSeq
<1>5. field \in Seq(Byte) /\ Len(field) = 8
  <2>1. field \in [1 .. 8 -> Byte]
    BY <1>1, LengthFieldType, Zenon
  <2> HIDE DEF field
  <2> QED
    BY <2>1, FunctionIsSeq
<1>6. Len(message) = l
  OBVIOUS
<1> HIDE DEF z, zeros, field, one, length, l
<1>7. Joined(message, one, l, 1, s1)
  BY <1>1, <1>3, <1>6, Joining, Zenon
<1> HIDE DEF s1
<1>8. Joined(s1, zeros, l + 1, z, s2)
  <2>1. s1 \in Seq(Byte) /\ l + 1 = Len(s1)
    BY <1>7, Zenon DEF Joined
  <2>2. zeros \in Seq(Byte) /\ z = Len(zeros)
    BY <1>4, Zenon
  <2> QED
    BY <1>1, <2>1, <2>2, Joining, Zenon
<1> HIDE DEF s2
<1>9. Joined(s2, field, l + 1 + z, 8, s3)
  <2>1. s2 \in Seq(Byte) /\ l + 1 + z = Len(s2)
    BY <1>8, Zenon DEF Joined
  <2>2. 8 \in Nat /\ 8 = Len(field)
    BY <1>5
  <2> QED
    BY <1>1, <1>5, <2>1, <2>2, Joining, Zenon
<1> HIDE DEF s3
<1>10. ASSUME NEW n \in 1 .. length
       PROVE  s3[n] = PaddedByte(message, l, field, length, n)
  <2>1. n \in 1 .. l + 1 + z + 8 /\ length - 8 = l + 1 + z
    BY <1>1
  <2>2. CASE n <= l
    <3>1. n <= l + 1 + z /\ n \in 1 .. l + 1 + z /\ n <= l + 1 /\ n \in 1 .. l + 1
      BY <1>1, <2>2
    <3> QED
      BY <1>7, <1>8, <1>9, <2>1, <2>2, <3>1, Zenon DEF Joined, PaddedByte
  <2>3. CASE n = l + 1
    <3>1. n <= l + 1 + z /\ n \in 1 .. l + 1 + z /\ n <= l + 1 /\ n \in 1 .. l + 1 /\ ~ (n <= l) /\ n - l = 1
      BY <1>1, <2>3
    <3>2. s3[n] = one[n - l]
      BY <1>7, <1>8, <1>9, <2>1, <3>1, Zenon DEF Joined, PaddedByte
    <3>3. s3[n] = 128
      BY <1>3, <3>1, <3>2, Zenon DEF Joined, PaddedByte
    <3> QED
      BY <2>3, <3>1, <3>3, Zenon DEF Joined, PaddedByte
  <2>4. CASE ~ (n <= l + 1) /\ n <= l + 1 + z
    <3>1. n \in 1 .. l + 1 + z /\ ~ (n <= l) /\ n # l + 1 /\ n - (l + 1) \in 1 .. z
      BY <1>1, <2>4
    <3>2. s3[n] = 0
      BY <1>4, <1>8, <1>9, <2>1, <2>4, <3>1, Zenon DEF Joined, PaddedByte
    <3> QED
      BY <2>1, <2>4, <3>1, <3>2, Zenon DEF Joined, PaddedByte
  <2>5. CASE ~ (n <= l + 1 + z)
    <3>1. ~ (n <= l) /\ n # l + 1 /\ ~ (n <= length - 8)
      BY <1>1, <2>5
    <3>2. s3[n] = field[n - (l + 1 + z)]
      BY <1>9, <2>1, <2>5, Zenon DEF Joined, PaddedByte
    <3> QED
      BY <2>1, <3>1, <3>2, Zenon DEF Joined, PaddedByte
  <2>6. n <= l \/ n = l + 1 \/ (~ (n <= l + 1) /\ n <= l + 1 + z) \/ ~ (n <= l + 1 + z)
    BY <1>1
  <2> QED
    BY <2>2, <2>3, <2>4, <2>5, <2>6, Zenon
<1>11. Len(s3) = length
  BY <1>1, <1>9, Zenon DEF Joined
<1>12. PaddedTo(message, field, length, s3)
  BY <1>6, <1>9, <1>10, <1>11, Zenon DEF PaddedTo, Joined
<1> QED
  BY <1>2, <1>12, Zenon DEF l, z, field, length

\* All but m bytes of the message.
Copied(message, h, m, hashed) ==
  /\ hashed \in Seq(Byte)
  /\ h = Len(hashed) /\ h + m = Len(message)
  /\ \A n \in 1 .. h : hashed[n] = message[n]

\* The rest of the message from h on, m bytes, and the bit, in a block that has
\* zeros up to a place and the field from there on.
Filled(message, h, m, zeros, field, block) ==
  /\ block \in [1 .. 64 -> Byte]
  /\ \A n \in 1 .. 64 : block[n] = IF n <= m THEN message[h + n]
                                   ELSE IF n = m + 1 THEN 128
                                   ELSE IF n <= zeros THEN 0 ELSE field[n - zeros]

\* The field alone.
FieldOnly(field, block) ==
  /\ block \in [1 .. 64 -> Byte]
  /\ \A n \in 1 .. 64 : block[n] = IF n <= 56 THEN 0 ELSE field[n - 56]

\* sha256_final when the length fits in the current block.
LEMMA OneBlock ==
  ASSUME NEW message, NEW field, NEW hashed, NEW block, NEW h \in Nat, NEW m \in 0 .. 55,
         Copied(message, h, m, hashed), Filled(message, h, m, 56, field, block)
  PROVE  PaddedTo(message, field, h + 64, hashed \o block)
<1> DEFINE both == hashed \o block
           l == h + m
<1>1. 64 \in Nat /\ block \in Seq(Byte) /\ 64 = Len(block)
  BY BlockIsSeq, Zenon DEF Filled
<1>2. Joined(hashed, block, h, 64, both)
  BY <1>1, Joining, Zenon DEF Copied
<1> HIDE DEF both
<1>3. ASSUME NEW n \in 1 .. h + 64 PROVE both[n] = PaddedByte(message, l, field, h + 64, n)
  <2>1. CASE n <= h
    <3>1. n \in 1 .. h /\ n <= l
      BY <2>1
    <3> QED
      BY <1>2, <2>1, <3>1, Zenon DEF Joined, PaddedByte, Copied
  <2>2. CASE ~ (n <= h)
    <3>1. /\ n - h \in 1 .. 64 /\ h + (n - h) = n /\ (n - h <= m <=> n <= l)
          /\ (n - h = m + 1 <=> n = l + 1) /\ (n - h <= 56 <=> n <= (h + 64) - 8)
          /\ (n - h) - 56 = n - ((h + 64) - 8)
      BY <2>2
    <3>2. both[n] = block[n - h]
      BY <1>2, <2>2, Zenon DEF Joined
    <3>3. block[n - h] = IF n - h <= m THEN message[h + (n - h)]
                         ELSE IF n - h = m + 1 THEN 128
                         ELSE IF n - h <= 56 THEN 0 ELSE field[(n - h) - 56]
      BY <3>1, Zenon DEF Filled
    <3>4. block[n - h] = IF n <= l THEN message[n]
                         ELSE IF n = l + 1 THEN 128
                         ELSE IF n <= (h + 64) - 8 THEN 0 ELSE field[n - ((h + 64) - 8)]
      <4>1. CASE n <= l
        BY <3>1, <3>3, <4>1, Zenon
      <4>2. CASE ~ (n <= l) /\ n = l + 1
        BY <3>1, <3>3, <4>2, Zenon
      <4>3. CASE ~ (n <= l) /\ n # l + 1 /\ n <= (h + 64) - 8
        BY <3>1, <3>3, <4>3, Zenon
      <4>4. CASE ~ (n <= l) /\ n # l + 1 /\ ~ (n <= (h + 64) - 8)
        BY <3>1, <3>3, <4>4, Zenon
      <4> QED
        BY <4>1, <4>2, <4>3, <4>4, Zenon
    <3> QED
      BY <3>2, <3>4, Zenon DEF PaddedByte
  <2> QED
    BY <2>1, <2>2, Zenon
<1> QED
  BY <1>2, <1>3, Zenon DEF PaddedTo, Joined, Copied, both

\* sha256_final when the length goes in a block of its own.
LEMMA TwoBlocks ==
  ASSUME NEW message, NEW field, NEW hashed, NEW first, NEW second,
         NEW h \in Nat, NEW m \in 56 .. 63,
         Copied(message, h, m, hashed), Filled(message, h, m, 64, field, first),
         FieldOnly(field, second)
  PROVE  PaddedTo(message, field, h + 128, (hashed \o first) \o second)
<1> DEFINE once == hashed \o first
           both == once \o second
           l == h + m
<1>1. /\ 64 \in Nat /\ first \in Seq(Byte) /\ 64 = Len(first)
      /\ h + 64 \in Nat /\ second \in Seq(Byte) /\ 64 = Len(second)
  <2>1. h + 64 \in Nat
    OBVIOUS
  <2> QED
    BY <2>1, BlockIsSeq, Zenon DEF Filled, FieldOnly
<1>2. Joined(hashed, first, h, 64, once)
  BY <1>1, Joining, Zenon DEF Copied
<1> HIDE DEF once
<1>3. Joined(once, second, h + 64, 64, both)
  <2>1. once \in Seq(Byte) /\ h + 64 = Len(once)
    BY <1>2, Zenon DEF Joined
  <2> QED
    BY <1>1, <2>1, Joining, Zenon
<1> HIDE DEF both
<1>4. ASSUME NEW n \in 1 .. h + 128 PROVE both[n] = PaddedByte(message, l, field, h + 128, n)
  <2>1. CASE n <= h
    <3>1. n \in 1 .. h /\ n <= l /\ n <= h + 64 /\ n \in 1 .. h + 64 /\ n \in 1 .. (h + 64) + 64
      BY <2>1
    <3> QED
      BY <1>2, <1>3, <2>1, <3>1, Zenon DEF Joined, PaddedByte, Copied
  <2>2. CASE ~ (n <= h) /\ n <= h + 64
    <3>1. /\ n - h \in 1 .. 64 /\ h + (n - h) = n /\ (n - h <= m <=> n <= l)
          /\ (n - h = m + 1 <=> n = l + 1) /\ n \in 1 .. h + 64 /\ n \in 1 .. (h + 64) + 64
          /\ n <= (h + 128) - 8 /\ n - h <= 64
      BY <2>2
    <3>2. both[n] = first[n - h]
      BY <1>2, <1>3, <2>2, <3>1, Zenon DEF Joined
    <3>3. first[n - h] = IF n - h <= m THEN message[h + (n - h)]
                         ELSE IF n - h = m + 1 THEN 128
                         ELSE IF n - h <= 64 THEN 0 ELSE field[(n - h) - 64]
      BY <3>1, Zenon DEF Filled
    <3>4. first[n - h] = IF n <= l THEN message[n] ELSE IF n = l + 1 THEN 128 ELSE 0
      <4>1. CASE n <= l
        BY <3>1, <3>3, <4>1, Zenon
      <4>2. CASE ~ (n <= l) /\ n = l + 1
        BY <3>1, <3>3, <4>2, Zenon
      <4>3. CASE ~ (n <= l) /\ n # l + 1
        BY <3>1, <3>3, <4>3, Zenon
      <4> QED
        BY <4>1, <4>2, <4>3, Zenon
    <3> QED
      BY <3>1, <3>2, <3>4, Zenon DEF PaddedByte
  <2>3. CASE ~ (n <= h + 64)
    <3>1. /\ n - (h + 64) \in 1 .. 64 /\ ~ (n <= l) /\ n # l + 1 /\ n \in 1 .. (h + 64) + 64
          /\ (n - (h + 64) <= 56 <=> n <= (h + 128) - 8)
          /\ (n - (h + 64)) - 56 = n - ((h + 128) - 8)
      BY <2>3
    <3>2. both[n] = second[n - (h + 64)]
      BY <1>3, <2>3, <3>1, Zenon DEF Joined
    <3>3. second[n - (h + 64)] =
            IF n - (h + 64) <= 56 THEN 0 ELSE field[(n - (h + 64)) - 56]
      BY <3>1, Zenon DEF FieldOnly
    <3>4. second[n - (h + 64)] =
            IF n <= (h + 128) - 8 THEN 0 ELSE field[n - ((h + 128) - 8)]
      BY <3>1, <3>3, Zenon
    <3> QED
      BY <3>1, <3>2, <3>4, Zenon DEF PaddedByte
  <2> QED
    BY <2>1, <2>2, <2>3, Zenon
<1>5. (h + 64) + 64 = h + 128
  OBVIOUS
<1> QED
  BY <1>3, <1>4, <1>5, Zenon DEF PaddedTo, Joined, Copied, both, once

\* What a place of the buffer holds when the bit and the zeros are in.
PlaceOf(c, m, length, n) ==
  IF n <= m \/ n > length THEN c.data[n] ELSE IF n = m + 1 THEN 128 ELSE 0

LEMMA PaddedAt ==
  ASSUME NEW c, NEW m \in 0 .. 63, m = c.datalen
  PROVE  /\ m < 56 => \A n \in 1 .. 64 : Padded(c, 56)[n] = PlaceOf(c, m, 56, n)
         /\ \A n \in 1 .. 64 : Padded(c, 64)[n] = PlaceOf(c, m, 64, n)
         /\ Padded(c, 64) = [n \in 1 .. 64 |-> Padded(c, 64)[n]]
<1>1. \A length : Padded(c, length) =
        [n \in 1 .. 64 |-> CASE n <= m \/ n > length -> c.data[n]
                             [] n = m + 1 -> 128
                             [] OTHER -> 0]
  BY DEF Padded, BLOCK
<1>2. Padded(c, 64) = [n \in 1 .. 64 |-> Padded(c, 64)[n]]
  BY <1>1
<1> QED
  BY <1>1, <1>2 DEF PlaceOf

\* Whatever is in the buffer after the bytes of the message, the hash takes the
\* message as the standard pads it.
LEMMA FinalPads ==
  ASSUME NEW c \in ShaType, NEW message \in Seq(Byte), Absorbed(c, message, Len(message))
  PROVE  sha256_final(c) \in Seq(Byte) /\ sha256_final(c) = Pad(message)
<1>1. PICK h \in Nat, m \in 0 .. 63, q \in Nat : h = Len(c.hashed) /\ m = c.datalen /\ h = 64 * q
  <2>1. c.hashed \in Seq(Byte) /\ c.datalen \in 0 .. 63
    BY DEF ShaType, BLOCK
  <2>2. Len(c.hashed) \in Nat
    BY <2>1, LenProperties
  <2>3. \E q \in Nat : Len(c.hashed) = 64 * q
    BY Zenon DEF Absorbed, BLOCK
  <2> QED
    BY <2>1, <2>2, <2>3, Zenon
<1> DEFINE field == LengthField(8 * (h + m))
<1>2. /\ Len(message) = h + m /\ c.bitlen = 8 * h
      /\ \A n \in 1 .. m : c.data[n] = message[h + n]
  BY <1>1, Zenon DEF Absorbed
<1>3. Copied(message, h, m, c.hashed)
  <2>1. c.hashed \in Seq(Byte)
    BY DEF ShaType
  <2> QED
    BY <1>1, <2>1, Zenon DEF Absorbed, Copied
<1>4. c.bitlen + 8 * c.datalen = 8 * (h + m)
  BY <1>1, <1>2
<1>5. field \in [1 .. 8 -> Byte]
  <2>1. 8 * (h + m) \in Nat
    OBVIOUS
  <2> QED
    BY <2>1, LengthFieldType, Zenon
<1>6. \A n \in 1 .. m : c.data[n] \in Byte
  <2> SUFFICES ASSUME NEW n \in 1 .. m PROVE message[h + n] \in Byte
    BY <1>2
  <2>1. h + n \in 1 .. h + m
    OBVIOUS
  <2>2. h + n \in 1 .. Len(message)
    BY <1>2, <2>1
  <2> QED
    BY <2>2, ElementOfSeq
<1>7. PaddedTo(message, field, IF m < 56 THEN h + 64 ELSE h + 128, Pad(message))
  <2>1. Len(message) = 64 * q + m
    BY <1>1, <1>2
  <2> QED
    BY <1>1, <2>1, PadPads, Zenon
<1> HIDE DEF field
<1>8. CASE m < 56
  <2> DEFINE block == WithLength(Padded(c, 56), 8 * (h + m))
  <2>1. block = [n \in 1 .. 64 |-> IF n <= 56 THEN Padded(c, 56)[n] ELSE field[n - 56]]
    BY Zenon DEF WithLength, BLOCK, field
  <2>4. sha256_final(c) = c.hashed \o block
    BY <1>1, <1>4, <1>8, Zenon DEF sha256_final, sha256_transform
  <2> HIDE DEF block
  <2>2. ASSUME NEW n \in 1 .. 64
        PROVE  /\ block[n] \in Byte
               /\ block[n] = IF n <= m THEN message[h + n]
                             ELSE IF n = m + 1 THEN 128
                             ELSE IF n <= 56 THEN 0 ELSE field[n - 56]
    <3>1. block[n] = IF n <= 56 THEN Padded(c, 56)[n] ELSE field[n - 56]
      BY <2>1, Zenon
    <3>2. Padded(c, 56)[n] = PlaceOf(c, m, 56, n)
      BY <1>1, <1>8, PaddedAt, Zenon
    <3>3. CASE n <= m
      <4>1. n <= 56 /\ n \in 1 .. m
        BY <1>8, <3>3
      <4> QED
        BY <1>2, <1>6, <3>1, <3>2, <3>3, <4>1, Zenon DEF PlaceOf
    <3>4. CASE ~ (n <= m) /\ n <= 56
      <4>1. ~ (n > 56) /\ 128 \in Byte /\ 0 \in Byte
        BY <3>4 DEF Byte
      <4> QED
        BY <3>1, <3>2, <3>4, <4>1, Zenon DEF PlaceOf
    <3>5. CASE ~ (n <= 56)
      <4>1. ~ (n <= m) /\ n # m + 1 /\ n - 56 \in 1 .. 8
        BY <1>8, <3>5
      <4>2. field[n - 56] \in Byte
        BY <1>5, <4>1, Zenon
      <4> QED
        BY <3>1, <3>5, <4>1, <4>2, Zenon
    <3> QED
      BY <3>3, <3>4, <3>5, Zenon
  <2>3. Filled(message, h, m, 56, field, block)
    <3>1. block \in [1 .. 64 -> Byte]
      BY <2>1, <2>2, Zenon
    <3> QED
      BY <2>2, <3>1, Zenon DEF Filled
  <2>5. m \in 0 .. 55 /\ h + 64 \in Nat
    BY <1>8
  <2>6. PaddedTo(message, field, h + 64, sha256_final(c))
    BY <1>3, <2>4, <2>3, <2>5, OneBlock, Zenon
  <2> QED
    BY <1>7, <1>8, <2>5, <2>6, OnePadding, Zenon DEF PaddedTo
<1>9. CASE ~ (m < 56)
  <2> DEFINE first == Padded(c, 64)
             second == WithLength([n \in 1 .. 64 |-> 0], 8 * (h + m))
  <2>1. second = [n \in 1 .. 64 |-> IF n <= 56 THEN [k \in 1 .. 64 |-> 0][n] ELSE field[n - 56]]
    BY Zenon DEF WithLength, BLOCK, field
  <2>2. ASSUME NEW n \in 1 .. 64
        PROVE  /\ first[n] \in Byte
               /\ first[n] = IF n <= m THEN message[h + n]
                             ELSE IF n = m + 1 THEN 128
                             ELSE IF n <= 64 THEN 0 ELSE field[n - 64]
    <3>1. first[n] = PlaceOf(c, m, 64, n)
      BY <1>1, PaddedAt, Zenon
    <3>2. n <= 64 /\ ~ (n > 64) /\ 128 \in Byte /\ 0 \in Byte
      BY DEF Byte
    <3>3. CASE n <= m
      <4>1. n \in 1 .. m
        BY <3>3
      <4> QED
        BY <1>2, <1>6, <3>1, <3>3, <4>1, Zenon DEF PlaceOf
    <3>4. CASE ~ (n <= m)
      BY <3>1, <3>2, <3>4, Zenon DEF PlaceOf
    <3> QED
      BY <3>3, <3>4, Zenon
  <2>3. Filled(message, h, m, 64, field, first)
    <3>1. first \in [1 .. 64 -> Byte]
      <4>1. first = [n \in 1 .. 64 |-> first[n]]
        BY <1>1, PaddedAt, Zenon
      <4> QED
        BY <2>2, <4>1, Zenon
    <3> QED
      BY <2>2, <3>1, Zenon DEF Filled
  <2>5. sha256_final(c) = (c.hashed \o first) \o second
    BY <1>1, <1>4, <1>9, Zenon DEF sha256_final, sha256_transform, BLOCK
  <2> HIDE DEF second
  <2>4. FieldOnly(field, second)
    <3>1. ASSUME NEW n \in 1 .. 64
          PROVE  second[n] \in Byte /\ second[n] = IF n <= 56 THEN 0 ELSE field[n - 56]
      <4>1. second[n] = IF n <= 56 THEN 0 ELSE field[n - 56]
        BY <2>1, Zenon
      <4>2. ~ (n <= 56) => n - 56 \in 1 .. 8
        OBVIOUS
      <4>3. ~ (n <= 56) => field[n - 56] \in Byte
        BY <1>5, <4>2, Zenon
      <4>4. 0 \in Byte
        BY DEF Byte
      <4> QED
        BY <4>1, <4>3, <4>4, Zenon
    <3>2. second \in [1 .. 64 -> Byte]
      BY <2>1, <3>1, Zenon
    <3> QED
      BY <3>1, <3>2, Zenon DEF FieldOnly
  <2> HIDE DEF first
  <2>6. m \in 56 .. 63 /\ h + 128 \in Nat
    BY <1>9
  <2>7. PaddedTo(message, field, h + 128, sha256_final(c))
    BY <1>3, <2>3, <2>4, <2>5, <2>6, TwoBlocks, Zenon
  <2> QED
    BY <1>7, <1>9, <2>6, <2>7, OnePadding, Zenon DEF PaddedTo
<1> QED
  BY <1>8, <1>9, Zenon

-----------------------------------------------------------------------------
(* The message. *)

LEMMA AtMostType ==
  ASSUME NEW s \in Seq(Char), NEW count \in Nat
  PROVE  AtMost(s, count) \in Seq(Char) /\ Len(AtMost(s, count)) \in 0 .. count
<1>1. PICK l \in Nat : l = Len(s)
  BY LenProperties
<1>2. PICK n \in 0 .. count : AtMost(s, count) = SubSeq(s, 1, n) /\ n \in 0 .. l
  <2>1. CASE l < count
    BY <1>1, <2>1 DEF AtMost
  <2>2. CASE ~ (l < count)
    BY <1>1, <2>2 DEF AtMost
  <2> QED
    BY <2>1, <2>2
<1>3. \A k \in 1 .. n : s[k] \in Char
  BY <1>1, <1>2, ElementOfSeq
<1>4. SubSeq(s, 1, n) \in Seq(Char) /\ Len(SubSeq(s, 1, n)) = n
  BY <1>2, <1>3, SubSeqProperties
<1> QED
  BY <1>2, <1>4

\* Whatever the characters of the answer are, no index leaves the arrays.
LEMMA UnsignedModType ==
  ASSUME NEW c \in Byte
  PROVE  UnsignedMod(c, 17) \in 0 .. 16 /\ UnsignedMod(c, 11) \in 0 .. 10
<1>1. c \in 0 .. 255
  BY DEF Byte
<1>2. CASE c < 48
  <2>1. UnsignedMod(c, 17) = (c - 48 + 1) % 17 /\ UnsignedMod(c, 11) = (c - 48 + 5) % 11
    BY <1>2 DEF UnsignedMod, Pow64Mod
  <2> QED
    BY <1>1, <2>1
<1>3. CASE ~ (c < 48)
  <2>1. UnsignedMod(c, 17) = (c - 48) % 17 /\ UnsignedMod(c, 11) = (c - 48) % 11
    BY <1>3 DEF UnsignedMod
  <2> QED
    BY <1>1, <2>1
<1> QED
  BY <1>2, <1>3

LEMMA TextType ==
  ASSUME NEW lengths, NEW texts, TextsOf(lengths, texts), NEW last \in Nat,
         Len(lengths) = last + 1, NEW index \in 0 .. last
  PROVE  Text(texts, index) \in Seq(Char)
<1>1. texts \in Seq(Seq(Char)) /\ Len(texts) = last + 1
  BY DEF TextsOf
<1>2. DOMAIN texts = 1 .. last + 1
  BY <1>1
<1>3. index + 1 \in 1 .. last + 1
  OBVIOUS
<1>4. texts[index + 1] \in Seq(Char)
  BY <1>1, <1>3, ElementOfSeq
<1> QED
  BY <1>2, <1>3, <1>4 DEF Text

LEMMA ConcatType ==
  ASSUME NEW s \in Seq(Char), NEW t \in Seq(Char), NEW m \in Nat, NEW n \in Nat,
         Len(s) \in 0 .. m, Len(t) \in 0 .. n
  PROVE  \E st : st = s \o t /\ st \in Seq(Char) /\ Len(st) \in 0 .. m + n
<1>1. s \o t \in Seq(Char) /\ Len(s \o t) \in 0 .. m + n
  BY ConcatProperties
<1> QED
  BY <1>1

\* The message is text, and fits in Destination with its NUL.
LEMMA MessageType ==
  ASSUME NEW Source \in [1 .. 48 -> Byte]
  PROVE  Message(Source) \in Seq(Char) /\ Len(Message(Source)) \in 0 .. 327
<1>1. CString(Source) \in Seq(Char)
  <2>1. Source \in Seq(Byte) /\ Len(Source) = 48
    BY FunctionIsSeq
  <2>2. PICK n \in 0 .. 48 : CString(Source) = SubSeq(Source, 1, n) /\ \A k \in 1 .. n : Source[k] # NUL
    BY <2>1, CStringLength, Zenon
  <2>3. ASSUME NEW k \in 1 .. n PROVE Source[k] \in Char
    <3>1. k \in 1 .. 48
      OBVIOUS
    <3>2. Source[k] \in Byte /\ Source[k] # NUL
      BY <2>2, <3>1, Zenon
    <3> QED
      BY <3>2, Zenon DEF Char
  <2>4. 1 \in Int /\ n \in Int
    OBVIOUS
  <2>5. SubSeq(Source, 1, n) \in Seq(Char)
    BY <2>3, <2>4, SubSeqProperties, Zenon
  <2> QED
    BY <2>2, <2>5, Zenon
<1>2. Source[1] \in Byte /\ Source[2] \in Byte /\ Source[3] \in Byte
  OBVIOUS
<1>3. TextsOf(ScopeLengths, aScopeOfLicense) /\ TextsOf(VYHVLengths, aVYHVAX4gukZ8Wv)
  BY HandshakeAssumption
<1>4. Len(ScopeLengths) = 16 + 1 /\ Len(VYHVLengths) = 10 + 1
  BY DEF ScopeLengths, VYHVLengths
<1> DEFINE t0 == AtMost(CString(Source), 47)
           t1 == AtMost(Text(aScopeOfLicense, UnsignedMod(Source[1], 17)), 101)
           t2 == AtMost(Text(aScopeOfLicense, UnsignedMod(Source[2], 17)), 101)
           t3 == AtMost(Text(aVYHVAX4gukZ8Wv, UnsignedMod(Source[3], 11)), 78)
<1>5. t0 \in Seq(Char) /\ Len(t0) \in 0 .. 47
  BY <1>1, AtMostType
<1>6. t1 \in Seq(Char) /\ Len(t1) \in 0 .. 101 /\ t2 \in Seq(Char) /\ Len(t2) \in 0 .. 101
  <2>1. UnsignedMod(Source[1], 17) \in 0 .. 16 /\ UnsignedMod(Source[2], 17) \in 0 .. 16
    BY <1>2, UnsignedModType
  <2>2. /\ Text(aScopeOfLicense, UnsignedMod(Source[1], 17)) \in Seq(Char)
        /\ Text(aScopeOfLicense, UnsignedMod(Source[2], 17)) \in Seq(Char)
    BY <1>3, <1>4, <2>1, TextType
  <2> QED
    BY <2>2, AtMostType
<1>7. t3 \in Seq(Char) /\ Len(t3) \in 0 .. 78
  <2>1. UnsignedMod(Source[3], 11) \in 0 .. 10
    BY <1>2, UnsignedModType
  <2>2. Text(aVYHVAX4gukZ8Wv, UnsignedMod(Source[3], 11)) \in Seq(Char)
    BY <1>3, <1>4, <2>1, TextType
  <2> QED
    BY <2>2, AtMostType
<1>8. Message(Source) = t0 \o t1 \o t2 \o t3
  BY Zenon DEF Message
<1> HIDE DEF t0, t1, t2, t3
<1>9. PICK u1 : u1 = t0 \o t1 /\ u1 \in Seq(Char) /\ Len(u1) \in 0 .. 47 + 101
  BY <1>5, <1>6, ConcatType
<1>10. PICK u2 : u2 = u1 \o t2 /\ u2 \in Seq(Char) /\ Len(u2) \in 0 .. 148 + 101
  <2>1. u1 \in Seq(Char) /\ Len(u1) \in 0 .. 148
    BY <1>9
  <2> QED
    BY <1>6, <2>1, ConcatType
<1>11. u2 \o t3 \in Seq(Char) /\ Len(u2 \o t3) \in 0 .. 327
  <2>1. u2 \in Seq(Char) /\ Len(u2) \in 0 .. 249
    BY <1>10
  <2>2. u2 \o t3 \in Seq(Char) /\ Len(u2 \o t3) = Len(u2) + Len(t3)
    BY <1>7, <2>1, ConcatProperties
  <2>3. \A m \in 0 .. 249, n \in 0 .. 78 : m + n \in 0 .. 327
    OBVIOUS
  <2>4. Len(u2) \in 0 .. 249 /\ Len(t3) \in 0 .. 78
    BY <1>7, <2>1, Zenon
  <2>5. Len(u2) + Len(t3) \in 0 .. 327
    BY <2>3, <2>4, Zenon
  <2> QED
    BY <2>2, <2>5, Zenon
<1> QED
  BY <1>8, <1>9, <1>10, <1>11, Zenon

\* A text that is in the array is not cut when it is short enough.
LEMMA WholeText ==
  ASSUME NEW lengths, NEW texts, TextsOf(lengths, texts), NEW last \in Nat,
         Len(lengths) = last + 1, NEW index \in 0 .. last, NEW count \in Nat,
         lengths[index + 1] <= count
  PROVE  AtMost(Text(texts, index), count) = texts[index + 1]
<1> DEFINE text == texts[index + 1]
<1>1. texts \in Seq(Seq(Char)) /\ Len(texts) = last + 1
      /\ \A k \in 1 .. last + 1 : Len(texts[k]) = lengths[k]
  BY DEF TextsOf
<1>2. index + 1 \in 1 .. last + 1
  OBVIOUS
<1>3. text \in Seq(Char) /\ Len(text) = lengths[index + 1]
  BY <1>1, <1>2, ElementOfSeq
<1>4. Text(texts, index) = text
  BY <1>1, <1>2 DEF Text
<1> HIDE DEF text
<1>5. PICK l \in Nat : l = Len(text)
  BY <1>3, LenProperties
<1>6. SubSeq(text, 1, l) = text
  BY <1>3, <1>5
<1>7. CASE l < count
  BY <1>4, <1>5, <1>6, <1>7 DEF AtMost, text
<1>8. CASE ~ (l < count)
  <2>1. l = count
    BY <1>3, <1>5, <1>8
  <2> QED
    BY <1>4, <1>5, <1>6, <2>1 DEF AtMost, text
<1> QED
  BY <1>7, <1>8

\* The indices are those of the arithmetic modulo 2^64.
LEMMA UnsignedModIndex ==
  ASSUME NEW c \in Byte
  PROVE  UnsignedMod(c, 17) = Index(c, 17) /\ UnsignedMod(c, 11) = Index(c, 11)
<1>1. c \in 0 .. 255
  BY DEF Byte
<1>2. Pow64(17) = 1 /\ Pow64(11) = 5
  <2>1. 65536 % 17 = 1 /\ 65536 % 11 = 9
    OBVIOUS
  <2>2. (9 * 9 * 9 * 9) % 11 = 5 /\ (1 * 1 * 1 * 1) % 17 = 1
    OBVIOUS
  <2> QED
    BY <2>1, <2>2 DEF Pow64
<1>3. CASE c < 48
  BY <1>1, <1>2, <1>3 DEF UnsignedMod, Index, Pow64Mod
<1>4. CASE ~ (c < 48)
  BY <1>1, <1>4 DEF UnsignedMod, Index
<1> QED
  BY <1>3, <1>4

\* The message is the one that the answer asks for.
LEMMA MessageExpected ==
  ASSUME NEW Source \in [1 .. 48 -> Byte]
  PROVE  Message(Source) = Expected(Source)
<1>1. Source[1] \in Byte /\ Source[2] \in Byte /\ Source[3] \in Byte
  OBVIOUS
<1>2. TextsOf(ScopeLengths, aScopeOfLicense) /\ TextsOf(VYHVLengths, aVYHVAX4gukZ8Wv)
  BY HandshakeAssumption
<1>3. Len(ScopeLengths) = 16 + 1 /\ Len(VYHVLengths) = 10 + 1
  BY DEF ScopeLengths, VYHVLengths
<1>4. (\A k \in 0 .. 16 : ScopeLengths[k + 1] <= 101) /\ (\A k \in 0 .. 10 : VYHVLengths[k + 1] <= 78)
  BY DEF ScopeLengths, VYHVLengths
<1>5. ASSUME NEW c \in Byte
      PROVE  AtMost(Text(aScopeOfLicense, UnsignedMod(c, 17)), 101) = aScopeOfLicense[Index(c, 17) + 1]
  <2>1. UnsignedMod(c, 17) \in 0 .. 16 /\ UnsignedMod(c, 17) = Index(c, 17)
    BY UnsignedModType, UnsignedModIndex
  <2>2. 16 \in Nat /\ 101 \in Nat /\ ScopeLengths[UnsignedMod(c, 17) + 1] <= 101
    BY <1>4, <2>1
  <2>3. AtMost(Text(aScopeOfLicense, UnsignedMod(c, 17)), 101)
          = aScopeOfLicense[UnsignedMod(c, 17) + 1]
    BY <1>2, <1>3, <2>1, <2>2, WholeText
  <2> QED
    BY <2>1, <2>3, Zenon
<1>6. ASSUME NEW c \in Byte
      PROVE  AtMost(Text(aVYHVAX4gukZ8Wv, UnsignedMod(c, 11)), 78) = aVYHVAX4gukZ8Wv[Index(c, 11) + 1]
  <2>1. UnsignedMod(c, 11) \in 0 .. 10 /\ UnsignedMod(c, 11) = Index(c, 11)
    BY UnsignedModType, UnsignedModIndex
  <2>2. 10 \in Nat /\ 78 \in Nat /\ VYHVLengths[UnsignedMod(c, 11) + 1] <= 78
    BY <1>4, <2>1
  <2>3. AtMost(Text(aVYHVAX4gukZ8Wv, UnsignedMod(c, 11)), 78)
          = aVYHVAX4gukZ8Wv[UnsignedMod(c, 11) + 1]
    BY <1>2, <1>3, <2>1, <2>2, WholeText
  <2> QED
    BY <2>1, <2>3, Zenon
<1> QED
  BY <1>1, <1>5, <1>6, Zenon DEF Message, Expected

-----------------------------------------------------------------------------
(* The invariant. *)

Typed ==
  /\ session \in Session
  /\ Destination \in Seq(Char) /\ Len(Destination) < 336
  /\ ctx \in ShaType
  /\ i \in 0 .. Len(Destination)
  /\ tmp \in {<<>>} \cup [1 .. 48 -> Byte]
  /\ tmp # <<>> => tmp[48] = NUL
  /\ engine \in {"none", "garbage", "engine"}
  /\ pc \in {"load", "update", "encode", "create", "done", "exception", "crash"}

\* Until sha256_final the hash and its buffer hold the characters given so far,
\* and after it the message is padded; the token is the digest in base64.
Inv ==
  /\ Typed
  /\ pc = "load" => i = 0
  /\ pc \in {"update", "encode", "create"} => Destination = Message(session.Source)
  /\ pc = "update" => Absorbed(ctx, Destination, i)
  /\ pc \in {"encode", "create"} => ctx.hashed = Pad(Destination)
  /\ pc = "create" => Encoded(session.digest, tmp)
  /\ HandshakeAccepted

LEMMA CharSeq == Seq(Char) \subseteq Seq(Byte)
BY DEF Char

LEMMA StartedHash == sha256_init \in ShaType /\ \A message : Absorbed(sha256_init, message, 0)
<1>1. sha256_init \in ShaType
  BY DEF sha256_init, ShaType, BLOCK
<1>2. Len(sha256_init.hashed) = 0 /\ sha256_init.datalen = 0 /\ sha256_init.bitlen = 0
  BY DEF sha256_init
<1>3. 0 = BLOCK * 0 /\ 0 \in Nat
  BY DEF BLOCK
<1>4. \A n \in 1 .. 0 : FALSE
  OBVIOUS
<1> HIDE DEF sha256_init
<1>5. ASSUME NEW message PROVE Absorbed(sha256_init, message, 0)
  BY <1>2, <1>3, <1>4 DEF Absorbed
<1> QED
  BY <1>1, <1>5

LEMMA InitInv == Init => Inv
<1> SUFFICES ASSUME Init PROVE Inv
  OBVIOUS
<1>1. session \in Session
  BY HandshakeAssumption DEF Init
<1>2. Typed
  BY <1>1, StartedHash DEF Init, Typed
<1> QED
  BY <1>2 DEF Init, Inv, HandshakeAccepted

LEMMA InitiateInv == Inv /\ Initiate => Inv'
<1> SUFFICES ASSUME Inv, Initiate PROVE Inv'
  OBVIOUS
<1>1. session.Source \in [1 .. 48 -> Byte]
  BY DEF Inv, Typed, Session
<1>2. Message(session.Source) \in Seq(Char) /\ Len(Message(session.Source)) < 336
      /\ 0 \in 0 .. Len(Message(session.Source))
  <2>1. \A l \in 0 .. 327 : l < 336 /\ 0 \in 0 .. l
    OBVIOUS
  <2> QED
    BY <1>1, <2>1, MessageType, Zenon
<1>3. Typed'
  BY <1>2, StartedHash DEF Inv, Typed, Initiate
<1>4. Absorbed(ctx, Destination, i)'
  BY StartedHash DEF Inv, Initiate
<1> QED
  BY <1>3, <1>4 DEF Inv, Initiate, HandshakeAccepted

LEMMA UpdateInv == Inv /\ Update => Inv'
<1> SUFFICES ASSUME Inv, Update PROVE Inv'
  OBVIOUS
<1>1. Destination \in Seq(Byte) /\ ctx \in ShaType /\ Absorbed(ctx, Destination, i)
  BY CharSeq DEF Inv, Typed, Update
<1>2. PICK l \in Nat : l = Len(Destination)
  BY <1>1, LenProperties
<1>3. i \in Nat /\ i < Len(Destination) /\ i + 1 \in 0 .. Len(Destination)
  <2>1. i \in 0 .. l /\ i < l
    BY <1>2, Zenon DEF Inv, Typed, Update
  <2>2. i \in Nat /\ i + 1 \in 0 .. l
    BY <2>1
  <2> QED
    BY <1>2, <2>1, <2>2, Zenon
<1>4. ctx' \in ShaType /\ Absorbed(ctx', Destination, i + 1)
  <2>1. ctx' = UpdateByte(ctx, Destination[i + 1])
    BY DEF Update
  <2> QED
    BY <1>1, <1>3, <2>1, UpdateAbsorbs, Zenon
<1>5. Typed'
  BY <1>3, <1>4 DEF Inv, Typed, Update
<1> QED
  BY <1>4, <1>5 DEF Inv, Update, HandshakeAccepted

LEMMA FinalInv == Inv /\ Final => Inv'
<1> SUFFICES ASSUME Inv, Final PROVE Inv'
  OBVIOUS
<1>1. Destination \in Seq(Byte) /\ ctx \in ShaType /\ Absorbed(ctx, Destination, Len(Destination))
  BY CharSeq DEF Inv, Typed, Final
<1>2. sha256_final(ctx) \in Seq(Byte) /\ sha256_final(ctx) = Pad(Destination)
  BY <1>1, FinalPads, Zenon
<1>3. ctx' = [ctx EXCEPT !.hashed = sha256_final(ctx)]
  BY DEF Final
<1>4. ctx' \in ShaType /\ ctx'.hashed = sha256_final(ctx)
  BY <1>1, <1>2, <1>3 DEF ShaType
<1>5. Typed'
  BY <1>4 DEF Inv, Typed, Final
<1> QED
  BY <1>2, <1>4, <1>5 DEF Inv, Final, HandshakeAccepted

\* The token is what base64_encode writes, with NULs up to its length.
LEMMA TokenEncoded ==
  ASSUME NEW digest \in [1 .. 32 -> Byte], NEW token,
         token = [n \in 1 .. 48 |-> IF n \in DOMAIN base64_encode(digest)
                                    THEN base64_encode(digest)[n] ELSE NUL]
  PROVE  Encoded(digest, token) /\ token \in [1 .. 48 -> Byte] /\ token[48] = NUL
<1>1. digest \in Seq(Byte) /\ Len(digest) = 32
  BY FunctionIsSeq
<1>2. output_length(32) = 44
  BY DEF output_length
<1>3. DOMAIN base64_encode(digest) = 1 .. 44
  BY <1>1, <1>2 DEF base64_encode
<1>4. ASSUME NEW n \in 1 .. 44 PROVE base64_encode(digest)[n] \in Byte
  <2> DEFINE six == Sextet(digest, 3 * ((n - 1) \div 4), (n - 1) % 4)
  <2>1. 3 * ((n - 1) \div 4) \in Nat /\ (n - 1) % 4 \in 0 .. 3
    OBVIOUS
  <2>2. six \in 0 .. 63
    BY <1>1, <2>1, SextetValue
  <2>3. base64_encode(digest)[n] = NUL \/ base64_encode(digest)[n] = encoding_table(six)
    BY <1>1, <1>2 DEF base64_encode
  <2> HIDE DEF six
  <2>4. encoding_table(six) \in Byte
    BY <2>2, LetterOfValue DEF Char
  <2> QED
    BY <2>3, <2>4 DEF NUL, Byte
<1>5. NUL \in Byte
  BY DEF NUL, Byte
<1>6. token \in [1 .. 48 -> Byte]
  BY <1>3, <1>4, <1>5, Zenon
<1>7. token \in Seq(Byte) /\ Len(token) = 48
  BY <1>6, FunctionIsSeq
<1>8. token[48] = NUL
  BY <1>3
<1>9. Len(token) >= output_length(Len(digest))
  BY <1>1, <1>2, <1>7
<1> QED
  BY <1>6, <1>7, <1>8, <1>9, Zenon DEF Encoded

LEMMA EncodeInv == Inv /\ Encode => Inv'
<1> SUFFICES ASSUME Inv, Encode PROVE Inv'
  OBVIOUS
<1>1. session.digest \in [1 .. 32 -> Byte]
  BY DEF Inv, Typed, Session
<1>2. tmp' = [n \in 1 .. 48 |-> IF n \in DOMAIN base64_encode(session.digest)
                                THEN base64_encode(session.digest)[n] ELSE NUL]
  BY DEF Encode
<1>3. Encoded(session.digest, tmp') /\ tmp' \in [1 .. 48 -> Byte] /\ tmp'[48] = NUL
  BY <1>1, <1>2, TokenEncoded, Zenon
<1>4. UNCHANGED <<session, Destination, ctx, i, engine>> /\ pc = "encode" /\ pc' = "create"
  BY DEF Encode
<1>5. Typed'
  BY <1>3, <1>4 DEF Inv, Typed
<1> QED
  BY <1>3, <1>4, <1>5 DEF Inv, HandshakeAccepted

LEMMA CreateInv == Inv /\ Create => Inv'
<1> SUFFICES ASSUME Inv, Create PROVE Inv'
  OBVIOUS
<1>1. session.digest \in Seq(Byte)
  <2>1. session.digest \in [1 .. 32 -> Byte]
    BY DEF Inv, Typed, Session
  <2> QED
    BY <2>1, FunctionIsSeq
<1>2. Decode(CString(tmp)) = session.digest
  BY <1>1, Base64RoundTrip DEF Inv, Create
<1>3. session.initiated => Accepts
  <2>1. Message(session.Source) = Expected(session.Source)
    BY MessageExpected DEF Inv, Typed, Session
  <2> QED
    BY <1>2, <2>1 DEF Accepts, Inv, Create
<1>4. Typed'
  BY DEF Inv, Typed, Create
<1> QED
  BY <1>3, <1>4 DEF Inv, Create, HandshakeAccepted

LEMMA StepInv == Inv /\ [Next]_vars => Inv'
<1> SUFFICES ASSUME Inv, [Next]_vars PROVE Inv'
  OBVIOUS
<1>1. CASE LoadFails
  BY <1>1 DEF LoadFails, Inv, Typed, HandshakeAccepted
<1>2. CASE InitiateFails \/ EncodeFails \/ CreateFails
  BY <1>2 DEF InitiateFails, EncodeFails, CreateFails, Inv, Typed, HandshakeAccepted
<1>3. CASE Stopped \/ UNCHANGED vars
  <2>1. UNCHANGED vars
    BY <1>3 DEF Stopped
  <2> QED
    BY <2>1 DEF vars, Inv, Typed, HandshakeAccepted
<1> QED
  BY <1>1, <1>2, <1>3, InitiateInv, UpdateInv, FinalInv, EncodeInv, CreateInv DEF Next

THEOREM Invariant == Spec => []Inv
BY InitInv, StepInv, PTL DEF Spec

\* The constructor stays in its arrays, its buffers and its types.
THEOREM TypeCorrect == Spec => []TypeOK
<1>1. Inv => TypeOK
  BY DEF Inv, Typed, ShaType, TypeOK
<1> QED
  BY <1>1, Invariant, PTL

\* What the bytes of the message and of the buffer are together.
LEMMA AbsorbedString ==
  ASSUME NEW c \in ShaType, NEW message \in Seq(Byte), NEW k \in 0 .. Len(message),
         Absorbed(c, message, k)
  PROVE  c.hashed \o SubSeq(c.data, 1, c.datalen) = SubSeq(message, 1, k)
<1>1. PICK h \in Nat, m \in 0 .. 63 : h = Len(c.hashed) /\ m = c.datalen
  BY LenProperties DEF ShaType, BLOCK
<1>2. /\ k = h + m
      /\ \A n \in 1 .. h : c.hashed[n] = message[n]
      /\ \A n \in 1 .. m : c.data[n] = message[h + n]
  BY <1>1, Zenon DEF Absorbed
<1>3. \A n \in 1 .. h + m : message[n] \in Byte
  BY <1>2, ElementOfSeq
<1> DEFINE rest == SubSeq(c.data, 1, m)
           part == SubSeq(message, 1, h + m)
<1>4. rest \in Seq(Byte) /\ Len(rest) = m /\ \A n \in 1 .. m : rest[n] = message[h + n]
  <2>1. \A n \in 1 .. m : h + n \in 1 .. h + m
    OBVIOUS
  <2>2. \A n \in 1 .. m : c.data[n] \in Byte
    BY <1>2, <1>3, <2>1, Zenon
  <2> QED
    BY <1>2, <2>2, SubSeqProperties
<1>5. part \in Seq(Byte) /\ Len(part) = h + m /\ \A n \in 1 .. h + m : part[n] = message[n]
  BY <1>3, SubSeqProperties
<1>6. c.hashed \in Seq(Byte)
  BY DEF ShaType
<1> DEFINE both == c.hashed \o rest
<1>7. Joined(c.hashed, rest, h, m, both)
  <2>1. m \in Nat
    OBVIOUS
  <2> QED
    BY <1>1, <1>4, <1>6, <2>1, Joining, Zenon
<1> HIDE DEF rest, part, both
<1>8. ASSUME NEW n \in 1 .. h + m PROVE both[n] = part[n]
  <2>1. CASE n <= h
    <3>1. n \in 1 .. h
      BY <2>1
    <3> QED
      BY <1>2, <1>5, <1>7, <2>1, <3>1, Zenon DEF Joined
  <2>2. CASE ~ (n <= h)
    <3>1. n - h \in 1 .. m /\ h + (n - h) = n
      BY <2>2
    <3> QED
      BY <1>4, <1>5, <1>7, <2>2, <3>1, Zenon DEF Joined
  <2> QED
    BY <2>1, <2>2
<1>9. both = part
  <2>1. both \in Seq(Byte) /\ Len(both) = h + m
    BY <1>7, Zenon DEF Joined
  <2> QED
    BY <1>5, <1>8, <2>1, SeqEqual
<1> QED
  BY <1>1, <1>2, <1>9, Zenon DEF both, rest, part

\* The hash is of the message padded as the standard says, for every answer of
\* the DLL and every text of the lengths in csts.h.
THEOREM PaddingCorrect == Spec => []PaddingExact
<1>1. Inv => PaddingExact
  <2> SUFFICES ASSUME Inv PROVE PaddingExact
    OBVIOUS
  <2>1. ASSUME pc = "update"
        PROVE  ctx.hashed \o SubSeq(ctx.data, 1, ctx.datalen) = SubSeq(Destination, 1, i)
    <3>1. ctx \in ShaType /\ Destination \in Seq(Byte) /\ i \in 0 .. Len(Destination)
          /\ Absorbed(ctx, Destination, i)
      BY <2>1, CharSeq DEF Inv, Typed
    <3> QED
      BY <3>1, AbsorbedString, Zenon
  <2> QED
    BY <2>1 DEF Inv, PaddingExact
<1> QED
  BY <1>1, Invariant, PTL

\* An engine is made whenever the DLL answers, for every answer and every digest.
THEOREM EngineMade == Spec => []HandshakeAccepted
<1>1. Inv => HandshakeAccepted
  BY DEF Inv
<1> QED
  BY <1>1, Invariant, PTL
=============================================================================
