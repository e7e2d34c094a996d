------------------------------ MODULE PduCodec ------------------------------
(***************************************************************************)
(* The PDU codec, src/src/common/utils/pdu.util.ts: the GSM 7-bit and UCS2 *)
(* alphabets, packing of septets, numbers, time stamps, the user data      *)
(* header of concatenated SMS, encodeSubmitPdu and decodeDeliverPdu.       *)
(*                                                                         *)
(* Texts are sequences of code points, user data and numbers sequences of  *)
(* octets; the fixed fields of a PDU are a record instead of hex digits.   *)
(***************************************************************************)
EXTENDS Integers, Sequences, SequencesExt

CONSTANT NULL   \* null

ASSUME NullAssumption == NULL \notin [reference : Nat, total : Nat, seq : Nat]

Octets  == 0 .. 255
Septets == 0 .. 127

----------------------------------------------------------------------------
(* Bits, the first one being the lowest of the first octet.                *)

Bit(x, k) ==
    CASE k = 0 -> x % 2
      [] k = 1 -> (x \div 2) % 2
      [] k = 2 -> (x \div 4) % 2
      [] k = 3 -> (x \div 8) % 2
      [] k = 4 -> (x \div 16) % 2
      [] k = 5 -> (x \div 32) % 2
      [] k = 6 -> (x \div 64) % 2
      [] k = 7 -> (x \div 128) % 2

Septet(b) == b[0] + 2 * b[1] + 4 * b[2] + 8 * b[3] + 16 * b[4] + 32 * b[5] + 64 * b[6]

Octet(b) == Septet(b) + 128 * b[7]

OctetsToSeptetCount(octets) == (octets * 8 + 6) \div 7

\* Mutant: no fill bits between the header and the text.
TextStart_Unaligned(header) == 8 * Len(header)

\* The first bit of the text: a septet boundary behind the header.
TextStart(header) ==
    LET bits == 8 * Len(header) IN
    bits + (IF bits = 0 THEN 0 ELSE (7 - (bits % 7)) % 7)

\* Bit i of what BitWriter has been given.
Written(header, codes, i) ==
    LET start == TextStart(header) IN
    IF i < 8 * Len(header) THEN Bit(header[(i \div 8) + 1], i % 8)
    ELSE IF start <= i /\ i < start + 7 * Len(codes)
         THEN Bit(codes[((i - start) \div 7) + 1], (i - start) % 7)
         ELSE 0

PackedLength(header, codes) == (TextStart(header) + 7 * Len(codes) + 7) \div 8

PackSeptetsWithHeader(header, codes) ==
    [j \in 1 .. PackedLength(header, codes) |->
        Octet([k \in 0 .. 7 |-> Written(header, codes, 8 * (j - 1) + k)])]

\* As many septets as asked for, or as there are.
UnpackSeptets(bytes, count) ==
    LET there == (8 * Len(bytes)) \div 7 IN
    [i \in 1 .. (IF count < there THEN count ELSE there) |->
        Septet([k \in 0 .. 6 |->
                  Bit(bytes[((7 * (i - 1) + k) \div 8) + 1], (7 * (i - 1) + k) % 8)])]

----------------------------------------------------------------------------
(* Alphabets.                                                              *)

ESC == 27

\* Code points of the septets 0 .. 127.
GSM7_BASIC ==
    <<64, 163, 36, 165, 232, 233, 249, 236, 242, 199, 10, 216, 248, 13, 197, 229,
      916, 95, 934, 915, 923, 937, 928, 936, 931, 920, 926, ESC, 198, 230, 223, 201,
      32, 33, 34, 35, 164>>
    \o [i \in 1 .. 27 |-> 36 + i] \o <<161>>
    \o [i \in 1 .. 26 |-> 64 + i] \o <<196, 214, 209, 220, 167, 191>>
    \o [i \in 1 .. 26 |-> 96 + i] \o <<228, 246, 241, 252, 224>>

\* Septets that follow ESC, and their code points.
GSM7_EXT == {<<10, 12>>, <<20, 94>>, <<40, 123>>, <<41, 125>>, <<47, 92>>,
             <<60, 91>>, <<61, 126>>, <<62, 93>>, <<64, 124>>, <<101, 8364>>}

BasicChars == {GSM7_BASIC[i] : i \in 1 .. 128}
ExtChars   == {e[2] : e \in GSM7_EXT}

\* The septet of a character; ESC goes before one of the extension.
SeptetCodes(char) ==
    IF char \in BasicChars
    THEN <<(CHOOSE i \in 1 .. 128 : GSM7_BASIC[i] = char) - 1>>
    ELSE <<ESC, (CHOOSE e \in GSM7_EXT : e[2] = char)[1]>>

InGsm7(text) == \A i \in 1 .. Len(text) : text[i] \in BasicChars \cup ExtChars

\* textToSeptetCodes, of a text in the alphabet.
TextToSeptetCodes(text) == FlattenSeq([i \in 1 .. Len(text) |-> SeptetCodes(text[i])])

ExtChar(code) ==
    IF \E e \in GSM7_EXT : e[1] = code
    THEN (CHOOSE e \in GSM7_EXT : e[1] = code)[2]
    ELSE 32

\* An ESC at the end of the codes stands for itself.
SeptetsToText(codes) ==
    LET escapes[i \in 0 .. Len(codes)] ==
          i # 0 /\ codes[i] = ESC /\ i < Len(codes) /\ ~escapes[i - 1]
        chars(i) == IF escapes[i] THEN <<>>
                    ELSE IF escapes[i - 1] THEN <<ExtChar(codes[i])>>
                    ELSE <<GSM7_BASIC[codes[i] + 1]>>
    IN FlattenSeq([i \in 1 .. Len(codes) |-> chars(i)])

DecodeUcs2(bytes) ==
    [i \in 1 .. Len(bytes) \div 2 |-> 256 * bytes[2 * i - 1] + bytes[2 * i]]

\* What exceeds 16 bits of a code point is lost.
EncodeUcs2(text) ==
    [j \in 1 .. 2 * Len(text) |->
        LET code == text[(j + 1) \div 2] IN
        IF j % 2 = 1 THEN (code \div 256) % 256 ELSE code % 256]

----------------------------------------------------------------------------
(* Numbers (a plus and digits) and time stamps.                            *)

Digits == 0 .. 9

\* Two digits an octet, the first one in its low half; 15 fills an odd half.
EncodeSemiOctetDigits(digits) ==
    [j \in 1 .. (Len(digits) + 1) \div 2 |->
        16 * (IF 2 * j <= Len(digits) THEN digits[2 * j] ELSE 15) + digits[2 * j - 1]]

\* 10 to 14 stand for * # a b c; a 15 vanishes.
DecodeSemiOctetDigits(bytes, digitCount) ==
    LET half(i) == IF i % 2 = 1 THEN bytes[(i + 1) \div 2] % 16 ELSE bytes[i \div 2] \div 16
        digits  == FlattenSeq([i \in 1 .. 2 * Len(bytes) |->
                                 IF half(i) = 15 THEN <<>> ELSE <<half(i)>>])
    IN SubSeq(digits, 1, IF digitCount < Len(digits) THEN digitCount ELSE Len(digits))

EncodeAddress(phone) ==
    LET national == ~phone.plus /\ phone.digits # <<>> /\ Head(phone.digits) = 0
        digits == IF national THEN <<8, 4>> \o Tail(phone.digits) ELSE phone.digits
    IN [ton |-> IF phone.plus \/ national THEN 145 ELSE 129,
        length |-> Len(digits),
        octets |-> EncodeSemiOctetDigits(digits)]

\* A number, or the name of a service in packed septets.
DecodeAddress(address) ==
    LET ton == (address.ton \div 16) % 8 IN
    IF ton = 5
    THEN [plus |-> FALSE,
          digits |-> SeptetsToText(UnpackSeptets(address.octets, (address.length * 4) \div 7))]
    ELSE [plus |-> ton = 1,
          digits |-> DecodeSemiOctetDigits(address.octets, address.length)]

BcdSwap(octet) == (octet % 16) * 10 + (octet \div 16)

\* Year to second in the carrier's time; the zone that it sends is not read.
DecodeTimestamp(scts) == [i \in 1 .. 6 |-> BcdSwap(scts[i])]

----------------------------------------------------------------------------
(* Deliver PDUs.                                                           *)

\* The first concatenation element of a header, with an 8 or a 16 bit reference.
ParseConcatIe(udh) ==
    LET from[i \in 1 .. Len(udh) + 258] ==
          IF i + 1 > Len(udh) THEN NULL
          ELSE LET len  == udh[i + 1]
                   data == SubSeq(udh, i + 2, IF i + 1 + len < Len(udh) THEN i + 1 + len ELSE Len(udh))
               IN IF udh[i] = 0 /\ len = 3 /\ Len(data) = 3
                  THEN [reference |-> data[1], total |-> data[2], seq |-> data[3]]
                  ELSE IF udh[i] = 8 /\ len = 4 /\ Len(data) = 4
                  THEN [reference |-> 256 * data[1] + data[2], total |-> data[3], seq |-> data[4]]
                  ELSE from[i + 2 + len]
    IN from[1]

DecodeDcsAlphabet(dcs) ==
    CASE dcs < 64 /\ (dcs \div 4) % 4 = 2 -> "ucs2"
      [] dcs < 64 /\ (dcs \div 4) % 4 = 1 -> "8bit"
      [] OTHER -> "7bit"

DecodeText(alphabet, ud, udl, headerOctets) ==
    LET rest == SubSeq(ud, headerOctets + 1, IF udl < Len(ud) THEN udl ELSE Len(ud)) IN
    CASE alphabet = "ucs2" -> DecodeUcs2(rest)
      [] alphabet = "8bit" -> rest
      [] alphabet = "7bit" ->
            LET codes == UnpackSeptets(ud, udl)
            IN SeptetsToText(SubSeq(codes, OctetsToSeptetCount(headerOctets) + 1, Len(codes)))

\* Other PDUs are left out.
IsDeliverPdu(pdu) == pdu.type % 4 = 0

DecodeDeliverPdu(pdu) ==
    LET hasUdh       == (pdu.type \div 64) % 2 = 1
        headerOctets == IF hasUdh THEN 1 + Head(pdu.ud) ELSE 0
    IN [sender |-> DecodeAddress(pdu.address),
        timestamp |-> DecodeTimestamp(pdu.scts),
        text |-> DecodeText(DecodeDcsAlphabet(pdu.dcs), pdu.ud, pdu.udl, headerOctets),
        concat |-> IF hasUdh THEN ParseConcatIe(SubSeq(pdu.ud, 2, headerOctets)) ELSE NULL]

----------------------------------------------------------------------------
(* Submit PDUs.                                                            *)

GSM7_SINGLE_MAX == 160

\* Mutant: a part of a long text has room for as much as a single one.
GSM7_MULTI_MAX_Headerless == 160

GSM7_MULTI_MAX  == 153
UCS2_SINGLE_MAX == 70
UCS2_MULTI_MAX  == 67

ChunkArray(items, size) ==
    [i \in 1 .. (Len(items) + size - 1) \div size |->
        SubSeq(items, size * (i - 1) + 1, IF size * i < Len(items) THEN size * i ELSE Len(items))]

ConcatHeader(concat) ==
    IF concat = NULL THEN <<>>
    ELSE <<5, 0, 3, concat.reference, concat.total, concat.seq>>

UserData(alphabet, header, codes) ==
    IF alphabet = "7bit" THEN PackSeptetsWithHeader(header, codes)
    ELSE header \o EncodeUcs2(codes)

BuildSubmitPart(address, alphabet, codes, concat) ==
    LET header == ConcatHeader(concat)
        ud     == UserData(alphabet, header, codes)
    IN [type |-> IF concat = NULL THEN 1 ELSE 65,
        address |-> address,
        dcs |-> IF alphabet = "7bit" THEN 0 ELSE 8,
        udl |-> IF alphabet = "7bit" THEN OctetsToSeptetCount(Len(header)) + Len(codes) ELSE Len(ud),
        ud |-> ud]

\* The codes of each part of a text.
Chunks(alphabet, codes) ==
    CASE alphabet = "7bit" /\ Len(codes) <= GSM7_SINGLE_MAX -> <<codes>>
      [] alphabet = "7bit" /\ Len(codes) > GSM7_SINGLE_MAX -> ChunkArray(codes, GSM7_MULTI_MAX)
      [] alphabet = "ucs2" /\ Len(codes) <= UCS2_SINGLE_MAX -> <<codes>>
      [] alphabet = "ucs2" /\ Len(codes) > UCS2_SINGLE_MAX -> ChunkArray(codes, UCS2_MULTI_MAX)

\* The parts of a text, under the reference that Math.random gives it.
EncodeSubmitPdu(destination, text, reference) ==
    LET alphabet == IF InGsm7(text) THEN "7bit" ELSE "ucs2"
        codes    == IF InGsm7(text) THEN TextToSeptetCodes(text) ELSE text
        chunks   == Chunks(alphabet, codes)
    IN [i \in 1 .. Len(chunks) |->
          BuildSubmitPart(EncodeAddress(destination), alphabet, chunks[i],
              IF Len(chunks) = 1 THEN NULL
              ELSE [reference |-> reference, total |-> Len(chunks), seq |-> i])]
=============================================================================
