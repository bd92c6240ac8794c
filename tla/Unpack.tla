------------------------------- MODULE Unpack -------------------------------
(***************************************************************************)
(* unpack.c: cutting the bytes of a stream into packages.  Each operator   *)
(* takes what the read buffer holds (data, of which the last nread bytes   *)
(* are new) and gives the packages handed to read_cb, what is left, the    *)
(* last package length computed, whether the length was unreadable, and    *)
(* whether the loop goes round for ever at a package of no bytes.          *)
(*                                                                         *)
(* A setting is a record with the fields of unpack_setting_t.  A byte is a *)
(* number below ByteBase; half of them have the continuation bit of a      *)
(* varint.  Lengths are unsigned ints and wrap at LenMod; a little-endian  *)
(* field has no more bytes than an unsigned int, as the shift by more is   *)
(* undefined.                                                              *)
(***************************************************************************)
EXTENDS Integers, SequencesExt

CONSTANTS
    ByteBase,     \* how many values a byte has (256)
    VarintMax,    \* the longest varint that varint_decode accepts (10)
    LenMod        \* how many values an unsigned int has (2^32)

ASSUME UnpackAssumption ==
    /\ ByteBase \in Nat \ {0, 1} /\ ByteBase % 2 = 0
    /\ VarintMax \in Nat \ {0} /\ LenMod \in Nat \ {0}

Least(a, b) == IF a <= b THEN a ELSE b
Atleast(a, b) == IF a >= b THEN a ELSE b
From(s, i) == SubSeq(s, i, Len(s))
First(S) == CHOOSE i \in S : \A j \in S : i <= j

Unpacked(cut, len, bad, endless) ==
    [msgs |-> cut.msgs, rest |-> cut.rest, package_len |-> len, bad |-> bad,
     endless |-> endless]

\* The loop of every unpacker: from p on, the next package ends at end[p];
\* it gets no further when end[p] = p.  "at" is where it has looked.
Cut(data, end) ==
    LET cut[p \in 0..Len(data)] ==
            IF end[p] = p THEN [msgs |-> << >>, rest |-> From(data, p + 1), at |-> {p}]
            ELSE [msgs |-> <<SubSeq(data, p + 1, end[p])>> \o cut[end[p]].msgs,
                  rest |-> cut[end[p]].rest, at |-> {p} \cup cut[end[p]].at]
    IN  cut[0]

-----------------------------------------------------------------------------
\* while (remain >= fixed_length) read_cb(p, fixed_length)
FixedEnd(data, s) ==
    [p \in 0..Len(data) |-> IF Len(data) - p >= s.fixed_length THEN p + s.fixed_length ELSE p]

hio_unpack_by_fixed_length(data, s) ==
    Unpacked(Cut(data, FixedEnd(data, s)), s.fixed_length, FALSE, FALSE)

ScanStartNew(data, nread, s) == Len(data) - nread

\* Where the search starts: old bytes have been searched, except that a
\* delimiter may have begun in them.
ScanStart(data, nread, s) ==
    Atleast(0, Len(data) - nread - Len(s.delimiter) + 1)

\* The search goes on behind each match, and never before its start.
Matches(data, nread, s, p) ==
    {q \in Atleast(p, ScanStart(data, nread, s)) .. Len(data) - Len(s.delimiter) :
        SubSeq(data, q + 1, q + Len(s.delimiter)) = s.delimiter}

DelimEnd(data, nread, s) ==
    [p \in 0..Len(data) |->
        LET found == Matches(data, nread, s, p)
        IN  IF found = {} THEN p ELSE First(found) + Len(s.delimiter)]

hio_unpack_by_delimiter(data, nread, s) ==
    Unpacked(Cut(data, DelimEnd(data, nread, s)), 0, FALSE, FALSE)

\* varint_decode's bytes: 0 when the end is not there yet, -1 when it is not
\* within VarintMax bytes.
VarintBytes(b) ==
    LET ends == {i \in 1..Least(Len(b), VarintMax) : b[i] < ByteBase \div 2}
    IN  IF ends # {} THEN First(ends) ELSE IF Len(b) < VarintMax THEN 0 ELSE -1

\* The number with these digits, the highest first.
Number(digits, base) ==
    LET num[i \in 0..Len(digits)] == IF i = 0 THEN 0 ELSE num[i - 1] * base + digits[i]
    IN  num[Len(digits)]

\* big endian, little endian, or the low bits of each byte of a varint
FieldValue(field, coding) ==
    CASE coding = "BIG_ENDIAN" -> Number(field, ByteBase)
      [] coding = "LITTLE_ENDIAN" -> Number(Reverse(field), ByteBase)
      [] coding = "VARINT" ->
            Number([i \in DOMAIN field |-> Reverse(field)[i] % (ByteBase \div 2)], ByteBase \div 2)

\* body_len, an unsigned int: the bits above it are shifted out, and the
\* long long of varint_decode is cut off.
Decoded(field, coding) == FieldValue(field, coding) % LenMod

\* how many bytes the length field at the head of d takes
FieldBytes(d, s) ==
    IF s.coding = "VARINT" THEN VarintBytes(From(d, s.length_field_offset + 1))
    ELSE s.length_field_bytes

LengthField(d, s) ==
    SubSeq(d, s.length_field_offset + 1, s.length_field_offset + FieldBytes(d, s))

HeadLen(d, s) == s.body_offset + FieldBytes(d, s) - s.length_field_bytes

\* head_len + body_len + length_adjustment, of the package at the head of d
PackageLen(d, s) ==
    (HeadLen(d, s) + Decoded(LengthField(d, s), s.coding) + s.length_adjustment) % LenMod

\* The length of the package at the head of d is known.
LengthThere(d, s) == Len(d) >= s.body_offset /\ FieldBytes(d, s) > 0

LengthEnd(data, s) ==
    [p \in 0..Len(data) |->
        LET d == From(data, p + 1)
        IN  IF LengthThere(d, s) /\ PackageLen(d, s) <= Len(d) THEN p + PackageLen(d, s) ELSE p]

\* package_len keeps what was computed last.  A package_len of 0 is always
\* there: read_cb is called with no bytes, and the loop looks there again.
hio_unpack_by_length_field(data, s) ==
    LET cut == Cut(data, LengthEnd(data, s))
        len == IF LengthThere(cut.rest, s) THEN PackageLen(cut.rest, s)
               ELSE IF cut.msgs = << >> THEN s.body_offset ELSE Len(Last(cut.msgs))
    IN  Unpacked(cut, len, Len(cut.rest) >= s.body_offset /\ FieldBytes(cut.rest, s) = -1,
                 LengthThere(cut.rest, s) /\ len = 0)

hio_unpack(data, nread, s) ==
    CASE s.mode = "FIXED_LENGTH" -> hio_unpack_by_fixed_length(data, s)
      [] s.mode = "DELIMITER" -> hio_unpack_by_delimiter(data, nread, s)
      [] s.mode = "LENGTH_FIELD" -> hio_unpack_by_length_field(data, s)

\* The buffer's new length after a call that left something behind, from
\* its present one; -1: the package is too long, the connection is closed.
UnpackBufLen(u, len, s) ==
    CASE s.mode = "DELIMITER" /\ Len(u.rest) = len ->
            IF len >= s.package_max_length THEN -1 ELSE Least(len * 2, s.package_max_length)
      [] s.mode = "LENGTH_FIELD" /\ u.rest # << >> /\ u.package_len > len ->
            IF u.package_len > s.package_max_length THEN -1
            ELSE Atleast(u.package_len, Least(len * 2, s.package_max_length))
      [] OTHER -> len

-----------------------------------------------------------------------------
(* What a package is, without buffers or chunks (hloop.h, unpack_setting). *)

\* "package_len = head_len + body_len + length_adjustment", as it is written
StatedLen(d, s) ==
    HeadLen(d, s) + FieldValue(LengthField(d, s), s.coding) + s.length_adjustment

IsPackage(m, s) ==
    CASE s.mode = "FIXED_LENGTH" -> Len(m) = s.fixed_length
      [] s.mode = "DELIMITER" ->
            /\ Len(m) >= Len(s.delimiter)
            /\ From(m, Len(m) - Len(s.delimiter) + 1) = s.delimiter
      [] s.mode = "LENGTH_FIELD" -> LengthThere(m, s) /\ Len(m) = StatedLen(m, s)

\* The packages of a whole stream: again and again the shortest piece that
\* is one.
Packages(stream, s) ==
    LET Ends(p) == {e \in p + 1 .. Len(stream) : IsPackage(SubSeq(stream, p + 1, e), s)}
    IN  Cut(stream, [p \in 0..Len(stream) |-> IF Ends(p) = {} THEN p ELSE First(Ends(p))]).msgs

\* The package at the head of d is as long as it says: it holds its head,
\* and its length is an unsigned int.
LengthFits(d, s) == StatedLen(d, s) \in HeadLen(d, s) .. LenMod - 1

\* hio_unpack has come upon a length that does not fit.
Misread(data, s) ==
    /\ s.mode = "LENGTH_FIELD"
    /\ \E p \in Cut(data, LengthEnd(data, s)).at :
          LengthThere(From(data, p + 1), s) /\ ~LengthFits(From(data, p + 1), s)
=============================================================================
