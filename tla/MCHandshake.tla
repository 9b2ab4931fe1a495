---------------------------- MODULE MCHandshake ----------------------------
(***************************************************************************)
(* Instances of Handshake for TLC: texts of the lengths of csts.h, and     *)
(* answers of the DLL for which the message has every length modulo the    *)
(* block of the hash.                                                      *)
(***************************************************************************)
EXTENDS Handshake

\* Texts that differ from each other at every character.
MakeTexts(lengths, first) ==
  [k \in 1 .. Len(lengths) |-> [n \in 1 .. lengths[k] |-> 32 + ((first + 5 * k + n) % 96)]]
MCScopeOfLicense == MakeTexts(ScopeLengths, 0)
MCVYHV == MakeTexts(VYHVLengths, 48)

\* A base64 string of 47 characters with the first three given.
Answer(c) ==
  [n \in 1 .. 48 |-> IF n <= 3 THEN c[n] ELSE IF n < 48 THEN 97 + (n % 26) ELSE NUL]

\* One answer for each length of the message modulo the block, and those with
\* '+' and '/', which are below '0', for each of the three characters.
LengthFor(c) ==
  47 + ScopeLengths[((c[1] - 48) % 17) + 1] + ScopeLengths[((c[2] - 48) % 17) + 1]
     + VYHVLengths[((c[3] - 48) % 11) + 1]
MCAnswers ==
  LET first == (48 .. 57) \cup (75 .. 81)
      some == first \X first \X ((48 .. 57) \cup {69})
      modulo == [c \in some |-> LengthFor(c) % BLOCK]
  IN  {Answer(CHOOSE c \in some : modulo[c] = r) : r \in {modulo[c] : c \in some}}
        \cup {Answer(c) : c \in {<<43, 47, 43>>, <<47, 43, 47>>, <<65, 47, 43>>}}

ASSUME {Len(CString(a)) : a \in MCAnswers} = {47}
ASSUME {LengthFor(a) % BLOCK : a \in {b \in MCAnswers : \A k \in 1 .. 3 : b[k] >= 48}} = 0 .. BLOCK - 1

\* Digests: all 0, all 255, one with letters of many values, and both in turn.
MCDigests ==
  { [n \in 1 .. 32 |-> 0], [n \in 1 .. 32 |-> 255], [n \in 1 .. 32 |-> (37 * n) % 256],
    [n \in 1 .. 32 |-> IF n % 2 = 0 THEN 255 ELSE 0] }

MCSessions ==
  [loaded : {TRUE}, exports : {{"Initiate", "Create"}}, initiated : {TRUE}, Source : MCAnswers,
   digest : {[n \in 1 .. 32 |-> (37 * n) % 256]}, memory : {TRUE}]
  \cup [loaded : BOOLEAN, exports : SUBSET {"Initiate", "Create"}, initiated : BOOLEAN,
        Source : {Answer(<<65, 47, 43>>)}, digest : MCDigests, memory : BOOLEAN]
=============================================================================
