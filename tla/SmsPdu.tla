------------------------------- MODULE SmsPdu -------------------------------
(***************************************************************************)
(* The conversions of src/libril/sms.c.  A short message that the modem     *)
(* reports is packed by encode_cdma_sms for the framework, and what the     *)
(* framework sends is unpacked by decode_cdma_sms_message; the GSM pair     *)
(* packs septets.  User data is a function from bit numbers to 0 and 1,     *)
(* bit 0 the highest of the first byte, or a sequence of octets.            *)
(***************************************************************************)
EXTENDS Integers, Sequences

CONSTANTS
    Characters,   \* octets that messages are made of
    MaxLength     \* bounds on the length of a message, by format

\* The number of characters is sent in eight bits, and aBearerData has 255
\* octets: a longer message is cut or runs over, which is not modelled.
SmsAssumption ==
    Characters \subseteq 0 .. 255 /\ MaxLength \in [{"ascii", "unicode", "gsm"} -> 0 .. 255]

VARIABLES at, format, text, pdu, out

vars == <<at, format, text, pdu, out>>

\* the GSM pair is for characters of seven bits
Texts(f) ==
    UNION {[1 .. n -> {c \in Characters : f = "gsm" => c < 128}] : n \in 0 .. MaxLength[f]}

Init  == at = "idle" /\ format = "ascii" /\ text = << >> /\ pdu = << >> /\ out = << >>

\* A message and the result of its conversion are sequences of octets.
TypeOK ==
    /\ at \in {"idle", "packed", "unpacked"}
    /\ format \in {"ascii", "unicode", "gsm"}
    /\ text \in Texts(format)
    /\ \A i \in DOMAIN out : out[i] \in 0 .. 255

(***************************************************************************)
(* Bits: setvalue_of_bits, which never clears one, and getvalue_of_bits     *)
(***************************************************************************)
Bit(v, n) == (v \div 2^n) % 2
Clear(n)  == [b \in 0 .. n - 1 |-> 0]
SetBits(s, first, n, v) ==
    [b \in DOMAIN s |-> IF b \in first .. first + n - 1 /\ Bit(v, first + n - 1 - b) = 1
                        THEN 1 ELSE s[b]]
GetBits(s, first, n) ==
    LET value[i \in 0 .. n] == IF i = 0 THEN 0 ELSE 2 * value[i - 1] + s[first + i - 1]
    IN  value[n]

ASCII   == 2
UNICODE == 4

\* the user data subparameter: five bits of encoding, eight of the number of
\* characters, and the characters
Pack(encoding, count, width, message) ==
    LET size == 8 * (2 + (Len(message) * width + 5) \div 8 + 1)
        data[i \in 0 .. Len(message)] ==
            IF i = 0 THEN SetBits(SetBits(Clear(size), 0, 5, encoding), 5, 8, count)
            ELSE SetBits(data[i - 1], 13 + (i - 1) * width, width, message[i])
    IN  data[Len(message)]

\* a mutant: a character of two octets is counted as two
EncodeCdmaCountsOctets(f, message) ==
    IF f = "ascii" THEN Pack(ASCII, Len(message), 7, message)
    ELSE Pack(UNICODE, Len(message), 8, message)

EncodeCdma(f, message) ==
    IF f = "ascii" THEN Pack(ASCII, Len(message), 7, message)
    ELSE Pack(UNICODE, Len(message) \div 2, 8, message)

DecodeCdma(data) ==
    LET count == GetBits(data, 5, 8)
    IN  CASE GetBits(data, 0, 5) = ASCII ->
                [j \in 1 .. count |-> GetBits(data, 13 + 7 * (j - 1), 7)]
          [] OTHER ->
                [j \in 1 .. 2 * count |-> GetBits(data, 13 + 8 * (j - 1), 8)]

(***************************************************************************)
(* Septets: the loops of encode_gsm_sms_pdu and decode_gsm_sms_pdu          *)
(***************************************************************************)
\* An octet takes s bits of a character of which 7 - s have gone before, and
\* its other bits from the next one, or from the terminating 0.  The loops are
\* functions of their variables, i being the index in C.
EncodeGsm(message) ==
    LET next(i) == IF i < Len(message) THEN message[i + 1] ELSE 0
        loop[c \in [i : 0 .. Len(message) + 1, s : 1 .. 7]] ==
            IF c.i >= Len(message) THEN << >>
            ELSE << (next(c.i + 1) * 2^c.s + next(c.i) \div 2^(7 - c.s)) % 256 >>
                   \o loop[IF c.s = 1 THEN [i |-> c.i + 2, s |-> 7]
                                      ELSE [i |-> c.i + 1, s |-> c.s - 1]]
    IN  loop[[i |-> 0, s |-> 7]]

DecodeGsm(data, length) ==
    LET loop[c \in [i : 0 .. Len(data), s : 1 .. 7, v : 0 .. 127]] ==
            IF c.i >= Len(data) THEN << c.v >>
            ELSE LET m == ((data[c.i + 1] * 2^(c.s - 1)) % 128) + c.v
                     w == data[c.i + 1] \div 2^(8 - c.s)
                 IN  IF c.s = 7 THEN << m, w >> \o loop[[i |-> c.i + 1, s |-> 1, v |-> 0]]
                                ELSE << m >> \o loop[[i |-> c.i + 1, s |-> c.s + 1, v |-> w]]
    IN  SubSeq(loop[[i |-> 0, s |-> 1, v |-> 0]], 1, length)

(***************************************************************************)
(* A message is packed, and unpacked again.                                 *)
(***************************************************************************)
Encode(f, message) ==
    /\ at = "idle"
    /\ at' = "packed" /\ format' = f /\ text' = message
    /\ pdu' = IF f = "gsm" THEN EncodeGsm(message) ELSE EncodeCdma(f, message)
    /\ UNCHANGED out

Decode ==
    /\ at = "packed" /\ at' = "unpacked"
    /\ out' = IF format = "gsm" THEN DecodeGsm(pdu, Len(text)) ELSE DecodeCdma(pdu)
    /\ UNCHANGED <<format, text, pdu>>

Next ==
    Decode \/ \E f \in {"ascii", "unicode", "gsm"} : \E message \in Texts(f) : Encode(f, message)
Spec == Init /\ [][Next]_vars

\* What was packed is unpacked: the characters of seven bits one by one, and
\* of a message in octets all but the last of an odd number.
RoundTrip ==
    at = "unpacked" =>
        out = CASE format = "unicode" -> SubSeq(text, 1, 2 * (Len(text) \div 2))
                [] OTHER              -> [i \in DOMAIN text |-> text[i] % 128]
=============================================================================
