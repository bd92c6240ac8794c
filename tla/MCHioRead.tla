------------------------------ MODULE MCHioRead -----------------------------
(* HioRead on a small instance: see the cfg files for the other bounds.    *)
EXTENDS HioRead

Fixed(n) == [mode |-> "FIXED_LENGTH", fixed_length |-> n, package_max_length |-> 4]

Delimited(d) == [mode |-> "DELIMITER", delimiter |-> d, package_max_length |-> 4]

ByLength(body, off, bytes, adjustment, coding) ==
    [mode |-> "LENGTH_FIELD", package_max_length |-> 5, body_offset |-> body,
     length_field_offset |-> off, length_field_bytes |-> bytes,
     length_adjustment |-> adjustment, coding |-> coding]

MCSettings ==
    {Fixed(2), Delimited(<<3>>), Delimited(<<3, 0>>), Delimited(<<3, 3>>),
     ByLength(2, 1, 1, 0, "BIG_ENDIAN"), ByLength(2, 0, 2, 0, "BIG_ENDIAN"),
     ByLength(2, 0, 2, 0, "LITTLE_ENDIAN"), ByLength(1, 0, 1, 0, "VARINT"),
     ByLength(2, 1, 1, -2, "BIG_ENDIAN")}

\* The setting hloop.h recommends, flags before a length field that is as
\* wide as an unsigned int, in a smaller size.
MCRecommended == {ByLength(3, 1, 2, 0, "BIG_ENDIAN")}
=============================================================================
