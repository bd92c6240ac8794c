--------------------------- MODULE HioReadProofs ---------------------------
(***************************************************************************)
(* Proofs about HioRead, for any bytes, lengths, delimiters and buffer     *)
(* sizes and any setting of hio_set_unpack that makes sense (Sensible):    *)
(* read_cb is given each byte once and in order, cut as it was asked for,  *)
(* and in unpack mode exactly the packages of the stream, as long as their *)
(* length fields fit; and what recv() is asked for, until a full buffer or *)
(* one that shrinks comes about.                                           *)
(***************************************************************************)
EXTENDS HioRead, FiniteSetTheorems, SequenceLaws

Byte == 0 .. ByteBase - 1

\* A setting whose head holds its length field.  hloop.h asks for
\* length_field_bytes = 1 with a varint, and length_adjustment may be
\* negative ("- head_len" when the length counts the head).
Sensible(s) ==
    /\ s.package_max_length \in Nat \ {0}
    /\ \/ s.mode = "FIXED_LENGTH" /\ s.fixed_length \in Nat \ {0}
       \/ s.mode = "DELIMITER" /\ s.delimiter \in Seq(Byte) \ {<< >>}
       \/ /\ s.mode = "LENGTH_FIELD"
          /\ s.coding \in {"BIG_ENDIAN", "LITTLE_ENDIAN", "VARINT"}
          /\ s.length_field_offset \in Nat /\ s.length_field_bytes \in Nat \ {0}
          /\ s.body_offset \in Nat /\ s.length_adjustment \in Int
          /\ s.body_offset >= s.length_field_offset + s.length_field_bytes
          /\ s.coding = "VARINT" => s.length_field_bytes = 1

\* The only hypothesis of the theorems.
SensibleSettings == \A s \in Settings : Sensible(s)

-----------------------------------------------------------------------------
(* The inductive invariant.                                                *)

Cell(len) == [0 .. len - 1 -> Byte]

Buffers(cells) ==
    [base : cells, len : Nat \ {0}, head : Nat, tail : Nat, alloced : BOOLEAN, max : Nat,
     small : 0..SmallMax, over : BOOLEAN]

IsBuffer(b) == b \in Buffers(Cell(b.len))

\* The buffer of an open hio_t: what is read lies inside it, only a buffer of
\* its own holds leftovers, and only a large one counts small reads.
Sound(b) ==
    /\ IsBuffer(b)
    /\ b.head <= b.tail /\ b.tail <= b.len
    /\ b.head = b.tail => b.tail = 0
    /\ ~b.alloced => b.tail = 0
    /\ ~b.alloced \/ b.len <= HighWater => b.small = 0

Messages == [kind : {"all", "length", "delim", "pack"}, arg : Nat, bytes : Seq(Byte)]

Gave == [k \in DOMAIN given |-> given[k].bytes]

\* A package, with nothing behind its end, and what is not yet a package.
Wholes(s) == {m \in Seq(Byte) : m # << >> /\ IsPackage(m, s)
                                /\ \A j \in 1 .. Len(m) - 1 : ~IsPackage(SubSeq(m, 1, j), s)}
Parts(s)  == {r \in Seq(Byte) : \A j \in 1 .. Len(r) : ~IsPackage(SubSeq(r, 1, j), s)}

Types ==
    /\ IsBuffer(rb) /\ (life # "dead" => rb.head <= rb.tail)
    /\ flags \in {{}, {"ONCE"}, {"LENGTH", "ONCE"}, {"DELIM", "ONCE"}}
    /\ until \in Nat /\ setting \in Settings \cup {NoSetting}
    /\ watch \in BOOLEAN /\ life \in {"open", "closed", "dead"}
    /\ cbs \in Seq(Nat) /\ after \in {"autosize", "return"}
    /\ stream \in Seq(Byte) /\ given \in Seq(Messages)
    /\ met \subseteq {"full", "shrink", "bad_length"}
    /\ "bad_length" \in met => setting.mode = "LENGTH_FIELD"

\* The bytes are all there, in order.
Bytes ==
    /\ FlattenSeq(Gave) \o Data(rb) = stream
    /\ stream = << >> => given = << >>

\* There is room for the next recv, all of it when a length is asked for.
Room ==
    ~rb.over =>
        /\ "full" \notin met => rb.tail < rb.len
        /\ "LENGTH" \in flags /\ "shrink" \notin met =>
              rb.len <= HighWater /\ rb.head + until <= rb.len

\* What is pending waits for bytes that are not there yet.
Waiting ==
    ~rb.over =>
        /\ "LENGTH" \in flags => watch /\ rb.alloced /\ rb.tail - rb.head < until
        /\ "DELIM" \in flags =>
              watch /\ rb.alloced /\ \A i \in 1 .. rb.tail - rb.head : Data(rb)[i] # until

\* In unpack mode whole packages went out and no whole one is left.
Unpacking ==
    setting # NoSetting =>
        /\ flags = {} /\ cbs = << >> /\ rb.head = 0 /\ rb.alloced
        /\ "bad_length" \notin met =>
              Gave \in Seq(Wholes(setting)) /\ Data(rb) \in Parts(setting)

Open == Sound(rb) /\ Bytes /\ Room /\ Waiting /\ Unpacking

IInv == Types /\ AnswersRequest /\ (life = "open" => Open)

-----------------------------------------------------------------------------
(* The operations on the buffer.                                           *)

\* What a buffer holds is a sequence of bytes.
LEMMA DataType ==
    ASSUME NEW b, IsBuffer(b), b.head <= b.tail, b.tail <= b.len
    PROVE  /\ Data(b) \in Seq(Byte) /\ Len(Data(b)) = b.tail - b.head
           /\ \A i \in 1 .. b.tail - b.head : Data(b)[i] = b.base[b.head + i - 1]
<1>1. /\ b.head \in Nat /\ b.tail \in Nat /\ b.len \in Nat
      /\ b.base \in [0 .. b.len - 1 -> Byte]
  BY DEF IsBuffer, Buffers, Cell
<1>2. b.tail - b.head \in Nat
  BY <1>1
<1>3. \A i \in 1 .. b.tail - b.head : b.base[b.head + i - 1] \in Byte
  BY SMTT(30), <1>1
<1>4. Data(b) \in [1 .. b.tail - b.head -> Byte]
  BY <1>3 DEF Data
<1>5. Data(b) \in Seq(Byte)
  BY <1>2, <1>4
<1>6. Len(Data(b)) = b.tail - b.head
  BY <1>2, <1>4, <1>5
<1> QED
  BY <1>4, <1>5, <1>6 DEF Data

\* Two buffers with the same bytes between head and tail hold the same.
LEMMA SameData ==
    ASSUME NEW b, IsBuffer(b), NEW c, IsBuffer(c),
           c.tail - c.head = b.tail - b.head,
           \A i \in 1 .. b.tail - b.head : c.base[c.head + i - 1] = b.base[b.head + i - 1]
    PROVE  Data(c) = Data(b)
  BY DEF Data

LEMMA ResizedSound ==
    ASSUME NEW b, Sound(b), NEW len \in Nat \ {0}, b.tail <= len
    PROVE  LET c == Resized(b, len) IN
           /\ Sound(c) /\ Data(c) = Data(b)
           /\ c.head = b.head /\ c.tail = b.tail /\ c.len = len /\ c.alloced
           /\ c.max = b.max /\ c.over = b.over /\ c.small = 0
<1> DEFINE c == Resized(b, len)
           cells == [i \in 0 .. len - 1 |-> IF b.alloced /\ i < b.len THEN b.base[i] ELSE 0]
<1>0. 0 \in Byte /\ SmallMax \in Nat
  BY UnpackAssumption, HioReadAssumption DEF Byte
<1>1. IsBuffer(b) /\ b.base \in [0 .. b.len - 1 -> Byte] /\ b.head \in Nat /\ b.tail \in Nat
      /\ b.len \in Nat
  BY DEF Sound, IsBuffer, Buffers, Cell
<1>2. cells \in [0 .. len - 1 -> Byte]
  BY <1>0, <1>1
<1>a. c = [b EXCEPT !.base = cells, !.len = len, !.alloced = TRUE, !.small = 0]
  BY DEF Resized
<1> HIDE DEF c, cells
<1>3. /\ c.base = cells /\ c.len = len /\ c.alloced = TRUE /\ c.small = 0
      /\ c.head = b.head /\ c.tail = b.tail /\ c.max = b.max /\ c.over = b.over
  BY <1>1, <1>a DEF IsBuffer, Buffers
<1>4. c \in Buffers(Cell(len))
  <2>1. cells \in Cell(len) /\ b \in Buffers(Cell(b.len)) /\ 0 \in 0..SmallMax
    BY <1>0, <1>1, <1>2 DEF Cell, IsBuffer
  <2> QED
    BY <1>a, <2>1 DEF Buffers
<1>5. IsBuffer(c)
  BY <1>3, <1>4 DEF IsBuffer
<1>6. Sound(c)
  BY <1>1, <1>3, <1>5 DEF Sound
<1>7. ASSUME NEW i \in 1 .. b.tail - b.head
      PROVE  c.base[c.head + i - 1] = b.base[b.head + i - 1]
  <2>1. b.alloced
    BY <1>1 DEF Sound
  <2>2. b.head + i - 1 \in 0 .. len - 1 /\ b.head + i - 1 < b.len
    BY <1>1 DEF Sound
  <2> QED
    BY <1>3, <2>1, <2>2 DEF cells
<1>8. Data(c) = Data(b)
  BY <1>1, <1>3, <1>5, <1>7, SameData
<1> QED
  BY <1>3, <1>6, <1>8 DEF c

LEMMA AllocSound ==
    ASSUME NEW b, Sound(b), NEW len \in Nat \ {0}, b.tail <= len
    PROVE  LET c == hio_alloc_readbuf(b, len) IN
           /\ Sound(c) /\ Data(c) = Data(b)
           /\ c.head = b.head /\ c.tail = b.tail /\ c.max = b.max
           /\ b.over => c.over
           /\ b.alloced => c.alloced
           /\ ~c.over => c.len = len /\ c.alloced
<1> DEFINE c == hio_alloc_readbuf(b, len)
<1>1. CASE len > b.max
  <2>0. c = [b EXCEPT !.over = TRUE] /\ b \in Buffers(Cell(b.len))
    BY <1>1 DEF hio_alloc_readbuf, Sound, IsBuffer
  <2> HIDE DEF c
  <2>1. /\ c.base = b.base /\ c.len = b.len /\ c.alloced = b.alloced /\ c.small = b.small
        /\ c.head = b.head /\ c.tail = b.tail /\ c.max = b.max /\ c.over = TRUE
    BY <2>0 DEF Buffers
  <2>2. IsBuffer(c)
    <3>1. c \in Buffers(Cell(b.len))
      BY <2>0 DEF Buffers
    <3> QED
      BY <2>1, <3>1 DEF IsBuffer
  <2>3. Sound(c)
    BY <2>1, <2>2 DEF Sound
  <2>4. Data(c) = Data(b)
    BY <2>1 DEF Data
  <2> QED
    BY <2>1, <2>3, <2>4 DEF c
<1>2. CASE ~(len > b.max)
  <2>1. c = Resized(b, len)
    BY <1>2 DEF hio_alloc_readbuf
  <2> QED
    BY <2>1, ResizedSound
<1> QED
  BY <1>1, <1>2

LEMMA MoveSound ==
    ASSUME NEW b, Sound(b)
    PROVE  LET c == hio_memmove_readbuf(b) IN
           /\ Sound(c) /\ Data(c) = Data(b)
           /\ c.head = 0 /\ c.tail = b.tail - b.head /\ c.len = b.len
           /\ c.alloced = b.alloced /\ c.max = b.max /\ c.over = b.over /\ c.small = b.small
<1> DEFINE c == hio_memmove_readbuf(b)
           cells == [i \in DOMAIN b.base |->
                       IF i < b.tail - b.head THEN b.base[b.head + i] ELSE b.base[i]]
<1>1. IsBuffer(b) /\ b.base \in [0 .. b.len - 1 -> Byte] /\ b.head \in Nat /\ b.tail \in Nat
      /\ b.len \in Nat /\ b.head <= b.tail /\ b.tail <= b.len
  BY DEF Sound, IsBuffer, Buffers, Cell
<1>b. DOMAIN b.base = 0 .. b.len - 1
  BY <1>1
<1>2. cells \in [0 .. b.len - 1 -> Byte]
  <2>1. ASSUME NEW i \in 0 .. b.len - 1
        PROVE  (IF i < b.tail - b.head THEN b.base[b.head + i] ELSE b.base[i]) \in Byte
    BY SMTT(30), <1>1
  <2> QED
    BY <1>b, <2>1
<1>a. c = [b EXCEPT !.head = 0, !.tail = b.tail - b.head, !.base = cells]
  BY DEF hio_memmove_readbuf
<1>c. \A i \in 0 .. b.len - 1 : i < b.tail - b.head => cells[i] = b.base[b.head + i]
  BY <1>b
<1> HIDE DEF c, cells
<1>3. /\ c.base = cells /\ c.len = b.len /\ c.alloced = b.alloced /\ c.small = b.small
      /\ c.head = 0 /\ c.tail = b.tail - b.head /\ c.max = b.max /\ c.over = b.over
  BY <1>1, <1>a DEF IsBuffer, Buffers
<1>4. c \in Buffers(Cell(b.len))
  <2>1. cells \in Cell(b.len) /\ b \in Buffers(Cell(b.len)) /\ b.tail - b.head \in Nat
    BY <1>1, <1>2 DEF Cell, IsBuffer
  <2> QED
    BY <1>a, <2>1 DEF Buffers
<1>5. IsBuffer(c)
  BY <1>3, <1>4 DEF IsBuffer
<1>6. Sound(c)
  BY <1>1, <1>3, <1>5 DEF Sound
<1>7. ASSUME NEW i \in 1 .. b.tail - b.head
      PROVE  c.base[c.head + i - 1] = b.base[b.head + i - 1]
  <2>1. i - 1 \in 0 .. b.len - 1 /\ i - 1 < b.tail - b.head /\ b.head + (i - 1) = b.head + i - 1
    BY <1>1
  <2> QED
    BY <1>3, <1>c, <2>1
<1>8. Data(c) = Data(b)
  <2>1. c.tail - c.head = b.tail - b.head
    BY <1>1, <1>3
  <2> QED
    BY <1>1, <1>5, <1>7, <2>1, SameData
<1> QED
  BY <1>3, <1>6, <1>8 DEF c


LEMMA EmptiedSound ==
    ASSUME NEW b, IsBuffer(b), ~b.alloced \/ b.len <= HighWater => b.small = 0
    PROVE  LET c == Emptied(b) IN
           /\ Sound(c) /\ Data(c) = << >> /\ c.head = 0 /\ c.tail = 0
           /\ c.len = b.len /\ c.alloced = b.alloced /\ c.max = b.max /\ c.over = b.over
<1> DEFINE c == Emptied(b)
<1>1. c = [b EXCEPT !.head = 0, !.tail = 0] /\ 0 \in Nat
  BY DEF Emptied
<1> HIDE DEF c
<1>2. /\ IsBuffer(c) /\ c.head = 0 /\ c.tail = 0
      /\ c.base = b.base /\ c.len = b.len /\ c.alloced = b.alloced /\ c.max = b.max
      /\ c.small = b.small /\ c.over = b.over
  <2>1. b \in Buffers(Cell(b.len))
    BY DEF IsBuffer
  <2>2. c \in Buffers(Cell(b.len))
    BY <1>1, <2>1 DEF Buffers
  <2>3. /\ c.head = 0 /\ c.tail = 0
        /\ c.base = b.base /\ c.len = b.len /\ c.alloced = b.alloced /\ c.max = b.max
        /\ c.small = b.small /\ c.over = b.over
    BY <1>1, <2>1 DEF Buffers
  <2> QED
    BY <2>2, <2>3 DEF IsBuffer
<1>3. b.len \in Nat
  BY DEF IsBuffer, Buffers
<1>4. Sound(c)
  BY <1>2, <1>3 DEF Sound
<1>5. Data(c) \in Seq(Byte) /\ Len(Data(c)) = 0
  BY <1>2, <1>3, DataType
<1>6. Data(c) = << >>
  BY <1>5
<1> QED
  BY <1>2, <1>4, <1>6 DEF c

\* What Take leaves, of a buffer that need not be the hio_t's own.
LEMMA TakeSound ==
    ASSUME NEW b, IsBuffer(b), b.head <= b.tail, b.tail <= b.len,
           ~b.alloced \/ b.len <= HighWater => b.small = 0,
           NEW n \in Nat, n <= b.tail - b.head, b.alloced \/ n = b.tail - b.head
    PROVE  LET c == Take(b, n) IN
           /\ Sound(c) /\ Data(c) = SubSeq(Data(b), n + 1, Len(Data(b)))
           /\ c.len = b.len /\ c.alloced = b.alloced /\ c.max = b.max /\ c.over = b.over
           /\ c.tail <= b.tail /\ (n = b.tail - b.head => c.tail = 0)
<1> DEFINE c == Take(b, n)
           d == [b EXCEPT !.head = @ + n]
<1>1. b \in Buffers(Cell(b.len)) /\ b.base \in Cell(b.len)
      /\ b.head \in Nat /\ b.tail \in Nat /\ b.len \in Nat
  BY DEF IsBuffer, Buffers
<1>3. c = Rewind(d)
  BY DEF Take
<1>4. /\ IsBuffer(d) /\ d.head = b.head + n /\ d.tail = b.tail
      /\ d.base = b.base /\ d.len = b.len /\ d.alloced = b.alloced /\ d.max = b.max
      /\ d.small = b.small /\ d.over = b.over
  <2>1. b.head + n \in Nat
    BY <1>1
  <2>2. d \in Buffers(Cell(b.len))
    BY <1>1, <2>1 DEF Buffers
  <2>3. /\ d.head = b.head + n /\ d.tail = b.tail
        /\ d.base = b.base /\ d.len = b.len /\ d.alloced = b.alloced /\ d.max = b.max
        /\ d.small = b.small /\ d.over = b.over
    BY <1>1 DEF Buffers
  <2> QED
    BY <2>2, <2>3 DEF IsBuffer
<1> HIDE DEF c, d
<1>5. Data(b) \in Seq(Byte) /\ Len(Data(b)) = b.tail - b.head
      /\ \A i \in 1 .. b.tail - b.head : Data(b)[i] = b.base[b.head + i - 1]
  BY DataType
<1>6. CASE n = b.tail - b.head
  <2>1. c = Emptied(d)
    BY <1>1, <1>3, <1>4, <1>6 DEF Rewind, Emptied
  <2>2. SubSeq(Data(b), n + 1, Len(Data(b))) = << >>
    BY <1>1, <1>5, <1>6
  <2>3. /\ Sound(c) /\ Data(c) = << >> /\ c.head = 0 /\ c.tail = 0
        /\ c.len = d.len /\ c.alloced = d.alloced /\ c.max = d.max /\ c.over = d.over
    BY <1>4, <2>1, EmptiedSound
  <2>4. 0 <= b.tail
    BY <1>1
  <2> QED
    BY <1>4, <2>2, <2>3, <2>4 DEF c
<1>7. CASE n # b.tail - b.head
  <2>1. c = d /\ n < b.tail - b.head
    BY <1>1, <1>3, <1>4, <1>7 DEF Rewind
  <2>2. Sound(c)
    BY <1>1, <1>4, <1>7, <2>1 DEF Sound
  <2>0. d.head <= d.tail /\ d.tail <= d.len
    BY <2>1, <2>2 DEF Sound
  <2>3. Data(d) \in Seq(Byte) /\ Len(Data(d)) = d.tail - d.head
        /\ \A i \in 1 .. d.tail - d.head : Data(d)[i] = d.base[d.head + i - 1]
    BY <1>4, <2>0, DataType
  <2> DEFINE k == b.tail - b.head
             v == Data(b)
             r == SubSeq(v, n + 1, k)
  <2>4. k \in Nat /\ n \in 0..k /\ d.tail - d.head = k - n /\ v \in Seq(Byte) /\ Len(v) = k
        /\ \A i \in 1 .. k - n : n + i \in 1..k /\ d.head + i - 1 = b.head + (n + i) - 1
    BY <1>1, <1>4, <1>5, <2>1
  <2>5. \A i \in 1..k : v[i] = b.base[b.head + i - 1]
    BY <1>5
  <2> HIDE DEF k, v
  <2>6. k \in n..Len(v)
    BY <2>4
  <2>7. r \in Seq(Byte) /\ Len(r) = k - n /\ \A i \in 1 .. k - n : r[i] = v[n + i]
    BY <2>4, <2>6, Slice
  <2>8. \A i \in 1 .. k - n : Data(d)[i] = r[i]
    <3>1. SUFFICES ASSUME NEW i \in 1 .. k - n PROVE Data(d)[i] = r[i]
      OBVIOUS
    <3>2. r[i] = v[n + i] /\ n + i \in 1..k /\ d.head + i - 1 = b.head + (n + i) - 1
      BY <2>4, <2>7
    <3>3. v[n + i] = b.base[b.head + (n + i) - 1]
      BY <2>5, <3>2
    <3>4. Data(d)[i] = d.base[d.head + i - 1]
      BY <2>3, <2>4
    <3> QED
      BY <1>4, <3>2, <3>3, <3>4
  <2> HIDE DEF r
  <2>9. Data(d) = r
    BY <2>3, <2>4, <2>7, <2>8, SeqEqual
  <2> QED
    BY <1>4, <1>1, <1>7, <2>1, <2>2, <2>4, <2>9 DEF c, r, v
<1> QED
  BY <1>6, <1>7

LEMMA SmallReadsSound ==
    ASSUME NEW b, IsBuffer(b), NEW n \in Nat
    PROVE  LET c == SmallReads(b, n) IN
           /\ IsBuffer(c) /\ c.head = b.head /\ c.tail = b.tail
           /\ c.base = b.base /\ c.len = b.len /\ c.alloced = b.alloced /\ c.max = b.max
           /\ c.over = b.over /\ (b.len <= HighWater => c = b)
           /\ (Sound(b) => Sound(c)) /\ Data(c) = Data(b)
<1> DEFINE c == SmallReads(b, n)
<1>1. b \in Buffers(Cell(b.len)) /\ b.len \in Nat /\ HighWater \in Nat /\ SmallMax \in Nat
      /\ b.small \in 0..SmallMax
  BY HioReadAssumption DEF IsBuffer, Buffers
<1>2. CASE b.alloced /\ b.len > HighWater
  <2> DEFINE k == IF n < b.len \div 2 THEN Least(b.small + 1, SmallMax) ELSE 0
  <2>1. k \in 0..SmallMax
    BY <1>1 DEF Least
  <2>2. c = [b EXCEPT !.small = k]
    BY <1>1, <1>2 DEF SmallReads, Buffers
  <2> HIDE DEF k, c
  <2>3. /\ c.head = b.head /\ c.tail = b.tail
        /\ c.base = b.base /\ c.len = b.len /\ c.alloced = b.alloced /\ c.max = b.max
        /\ c.small = k /\ c.over = b.over
    BY <1>1, <2>2 DEF Buffers
  <2>4. c \in Buffers(Cell(b.len))
    BY <1>1, <2>1, <2>2 DEF Buffers
  <2>5. IsBuffer(c)
    BY <2>3, <2>4 DEF IsBuffer
  <2>6. Sound(b) => Sound(c)
    BY <1>1, <1>2, <2>3, <2>5 DEF Sound
  <2>7. Data(c) = Data(b)
    BY <2>3 DEF Data
  <2>8. ~(b.len <= HighWater)
    BY <1>1, <1>2
  <2> QED
    BY <2>3, <2>5, <2>6, <2>7, <2>8 DEF c
<1>3. CASE ~(b.alloced /\ b.len > HighWater)
  BY <1>3 DEF SmallReads
<1> QED
  BY <1>2, <1>3


LEMMA AutosizeSound ==
    ASSUME NEW b, Sound(b)
    PROVE  LET c == Autosize(b) IN
           /\ Sound(c) /\ Data(c) = Data(b)
           /\ c.max = b.max /\ (b.over => c.over) /\ (b.alloced => c.alloced)
           /\ b.head = 0 => c.head = 0
           /\ ~c.over => c.tail < c.len
           /\ b.tail < b.len /\ b.small = 0 => c = b
<1>1. IsBuffer(b) /\ b \in Buffers(Cell(b.len)) /\ b.head \in Nat /\ b.tail \in Nat
      /\ b.len \in Nat \ {0} /\ b.small \in Nat /\ SmallMax \in Nat \ {0}
      /\ b.head <= b.tail /\ b.tail <= b.len /\ (b.head = b.tail => b.tail = 0)
  BY HioReadAssumption DEF Sound, IsBuffer, Buffers
<1>2. Rewind(b) = b
  <2>1. b.head = b.tail => [b EXCEPT !.head = 0, !.tail = 0] = b
    BY <1>1 DEF Buffers
  <2> QED
    BY <2>1 DEF Rewind
<1> DEFINE c == Autosize(b)
<1>3. CASE b.tail = b.len /\ b.head = 0
  <2>1. c = hio_alloc_readbuf(b, b.len * 2)
    BY <1>2, <1>3 DEF Autosize
  <2>2. b.len * 2 \in Nat \ {0} /\ b.tail <= b.len * 2 /\ b.tail < b.len * 2
    BY <1>1
  <2>3. /\ Sound(c) /\ Data(c) = Data(b)
        /\ c.head = b.head /\ c.tail = b.tail /\ c.max = b.max
        /\ b.over => c.over
        /\ b.alloced => c.alloced
        /\ ~c.over => c.len = b.len * 2 /\ c.alloced
    BY <2>1, <2>2, AllocSound
  <2> QED
    BY <1>1, <1>3, <2>2, <2>3
<1>4. CASE b.tail = b.len /\ b.head # 0
  <2>1. c = hio_memmove_readbuf(b)
    BY <1>2, <1>4 DEF Autosize
  <2>2. /\ Sound(c) /\ Data(c) = Data(b)
        /\ c.head = 0 /\ c.tail = b.tail - b.head /\ c.len = b.len
        /\ c.alloced = b.alloced /\ c.max = b.max /\ c.over = b.over
    BY <2>1, MoveSound
  <2> QED
    BY <1>1, <1>4, <2>2
<1>5. CASE b.tail # b.len /\ b.tail < b.len \div 2 /\ b.small >= SmallMax
  <2>1. c = hio_alloc_readbuf(b, b.len \div 2)
    BY <1>2, <1>5 DEF Autosize
  <2>2. b.len \div 2 \in Nat \ {0} /\ b.tail <= b.len \div 2
    BY <1>1, <1>5
  <2>3. /\ Sound(c) /\ Data(c) = Data(b)
        /\ c.head = b.head /\ c.tail = b.tail /\ c.max = b.max
        /\ b.over => c.over
        /\ b.alloced => c.alloced
        /\ ~c.over => c.len = b.len \div 2 /\ c.alloced
    BY <2>1, <2>2, AllocSound
  <2>4. ~(b.small = 0)
    BY <1>1, <1>5
  <2> QED
    BY <1>5, <2>3, <2>4
<1>6. CASE b.tail # b.len /\ ~(b.tail < b.len \div 2 /\ b.small >= SmallMax)
  <2>1. c = b
    BY <1>2, <1>6 DEF Autosize
  <2>2. b.tail < b.len
    BY <1>1, <1>6
  <2> HIDE DEF c
  <2>3. /\ Sound(c) /\ Data(c) = Data(b)
        /\ c.max = b.max /\ (b.over => c.over) /\ (b.alloced => c.alloced)
        /\ b.head = 0 => c.head = 0
        /\ c.tail < c.len
        /\ c = b
    BY <2>1, <2>2
  <2> QED
    BY <2>3 DEF c
<1> QED
  BY <1>3, <1>4, <1>5, <1>6

\* A closed hio_t's buffer may be anything that head and tail allow.
LEMMA AutosizeType ==
    ASSUME NEW b, IsBuffer(b), b.head <= b.tail
    PROVE  IsBuffer(Autosize(b)) /\ Autosize(b).head <= Autosize(b).tail
<1> DEFINE r == Rewind(b)
           c == Autosize(b)
<1>0. b \in Buffers(Cell(b.len)) /\ b.head \in Nat /\ b.tail \in Nat /\ 0 \in Nat
      /\ 0 \in Byte /\ SmallMax \in Nat
  BY UnpackAssumption, HioReadAssumption DEF IsBuffer, Buffers, Byte
<1>1. IsBuffer(r) /\ r.head <= r.tail
  <2>1. CASE b.head = b.tail
    <3>1. r = [b EXCEPT !.head = 0, !.tail = 0]
      BY <2>1 DEF Rewind
    <3> HIDE DEF r
    <3>2. r \in Buffers(Cell(b.len)) /\ r.len = b.len /\ r.head = 0 /\ r.tail = 0
      BY <1>0, <3>1 DEF Buffers
    <3> QED
      BY <3>2 DEF IsBuffer
  <2>2. CASE b.head # b.tail
    BY <2>2 DEF Rewind
  <2> QED
    BY <2>1, <2>2
<1> HIDE DEF r
<1>2. r \in Buffers(Cell(r.len)) /\ r.head \in Nat /\ r.tail \in Nat /\ r.len \in Nat \ {0}
      /\ r.base \in [0 .. r.len - 1 -> Byte]
  BY <1>1 DEF IsBuffer, Buffers, Cell
<1>3. ASSUME NEW len \in Nat \ {0}, c = hio_alloc_readbuf(r, len)
      PROVE  IsBuffer(c) /\ c.head <= c.tail
  <2>1. CASE len > r.max
    <3>1. c = [r EXCEPT !.over = TRUE]
      BY <1>3, <2>1 DEF hio_alloc_readbuf
    <3> HIDE DEF c
    <3>2. c \in Buffers(Cell(r.len)) /\ c.len = r.len /\ c.head = r.head /\ c.tail = r.tail
      BY <1>2, <3>1 DEF Buffers
    <3> QED
      BY <1>1, <3>2 DEF IsBuffer
  <2>2. CASE ~(len > r.max)
    <3> DEFINE cells == [i \in 0 .. len - 1 |-> IF r.alloced /\ i < r.len THEN r.base[i] ELSE 0]
    <3>1. c = [r EXCEPT !.base = cells, !.len = len, !.alloced = TRUE, !.small = 0]
      BY <1>3, <2>2 DEF hio_alloc_readbuf, Resized
    <3>2. cells \in Cell(len) /\ 0 \in 0..SmallMax
      BY <1>0, <1>2 DEF Cell
    <3> HIDE DEF c, cells
    <3>3. c \in Buffers(Cell(len))
      BY <1>2, <3>1, <3>2 DEF Buffers
    <3>4. c.len = len /\ c.head = r.head /\ c.tail = r.tail
      BY <1>2, <3>1 DEF Buffers
    <3> QED
      BY <1>1, <3>3, <3>4 DEF IsBuffer
  <2> QED
    BY <2>1, <2>2
<1>4. CASE r.tail = r.len /\ r.head = 0
  BY <1>2, <1>3, <1>4 DEF Autosize, r
<1>5. CASE r.tail = r.len /\ r.head # 0
  <2> DEFINE cells == [i \in DOMAIN r.base |->
                         IF i < r.tail - r.head THEN r.base[r.head + i] ELSE r.base[i]]
  <2>1. c = [r EXCEPT !.head = 0, !.tail = r.tail - r.head, !.base = cells]
    BY <1>5 DEF Autosize, hio_memmove_readbuf, r
  <2>2. ASSUME NEW i \in 0 .. r.len - 1
        PROVE  (IF i < r.tail - r.head THEN r.base[r.head + i] ELSE r.base[i]) \in Byte
    BY <1>1, <1>2, <1>5
  <2>3. DOMAIN r.base = 0 .. r.len - 1
    BY <1>2
  <2>4. cells \in Cell(r.len)
    BY <2>2, <2>3 DEF Cell
  <2>5. r.tail - r.head \in Nat
    BY <1>1, <1>2
  <2> HIDE DEF c, cells
  <2>6. c \in Buffers(Cell(r.len))
    BY <1>2, <2>1, <2>4, <2>5 DEF Buffers
  <2>7. c.len = r.len /\ c.head = 0 /\ c.tail = r.tail - r.head
    BY <1>2, <2>1 DEF Buffers
  <2> QED
    BY <2>5, <2>6, <2>7 DEF IsBuffer, c
<1>6. CASE r.tail # r.len /\ r.tail < r.len \div 2 /\ r.small >= SmallMax
  <2>1. r.len \div 2 \in Nat \ {0} /\ c = hio_alloc_readbuf(r, r.len \div 2)
    BY <1>2, <1>6 DEF Autosize, r
  <2> QED
    BY <1>3, <2>1
<1>7. CASE r.tail # r.len /\ ~(r.tail < r.len \div 2 /\ r.small >= SmallMax)
  BY <1>1, <1>7 DEF Autosize, r
<1> QED
  BY <1>4, <1>5, <1>6, <1>7

\* Back to the loop's buffer.
LEMMA FreeType ==
    ASSUME NEW b, IsBuffer(b)
    PROVE  /\ IsBuffer(hio_free_readbuf(b))
           /\ hio_free_readbuf(b).head = b.head /\ hio_free_readbuf(b).tail = b.tail
<1> DEFINE c == hio_free_readbuf(b)
           cells == Cells(LoopBuf)
<1>1. CASE b.alloced
  <2>1. c = [b EXCEPT !.base = cells, !.len = LoopBuf, !.alloced = FALSE]
    BY <1>1 DEF hio_free_readbuf
  <2>2. cells \in Cell(LoopBuf) /\ LoopBuf \in Nat \ {0}
    BY UnpackAssumption, HioReadAssumption DEF Cell, Cells, Byte
  <2>3. b \in Buffers(Cell(b.len))
    BY DEF IsBuffer
  <2> HIDE DEF c, cells
  <2>4. c \in Buffers(Cell(LoopBuf))
    BY <2>1, <2>2, <2>3 DEF Buffers
  <2>5. c.len = LoopBuf /\ c.head = b.head /\ c.tail = b.tail
    BY <2>1, <2>3 DEF Buffers
  <2> QED
    BY <2>4, <2>5 DEF IsBuffer, c
<1>2. CASE ~b.alloced
  BY <1>2 DEF hio_free_readbuf
<1> QED
  BY <1>1, <1>2


\* recv() puts its bytes behind those that are there.
LEMMA FilledData ==
    ASSUME NEW b, IsBuffer(b), b.head <= b.tail, NEW want,
           NEW chunk \in Seq(Byte), chunk # << >>, b.tail + Len(chunk) <= b.len
    PROVE  LET c == Filled(b, want, chunk) IN
           /\ IsBuffer(c) /\ Data(c) = Data(b) \o chunk
           /\ c.head = b.head /\ c.tail = b.tail + Len(chunk) /\ c.len = b.len
           /\ c.alloced = b.alloced /\ c.max = b.max /\ c.small = b.small /\ c.over = b.over
<1> DEFINE c == Filled(b, want, chunk)
           n == Len(chunk)
           cells == [i \in DOMAIN b.base |->
                       IF i \in b.tail .. b.tail + n - 1 THEN chunk[i - b.tail + 1]
                       ELSE IF i = b.tail + n /\ n < want THEN 0 ELSE b.base[i]]
<1>1. /\ b \in Buffers(Cell(b.len)) /\ b.head \in Nat /\ b.tail \in Nat /\ b.len \in Nat
      /\ b.base \in [0 .. b.len - 1 -> Byte] /\ 0 \in Byte
      /\ n \in Nat \ {0} /\ DOMAIN b.base = 0 .. b.len - 1
  BY UnpackAssumption DEF IsBuffer, Buffers, Cell, Byte
<1>2. c = [b EXCEPT !.tail = b.tail + n, !.base = cells]
  BY <1>1 DEF Filled, Buffers
<1>3. cells \in Cell(b.len)
  <2>1. ASSUME NEW i \in 0 .. b.len - 1
        PROVE  (IF i \in b.tail .. b.tail + n - 1 THEN chunk[i - b.tail + 1]
                ELSE IF i = b.tail + n /\ n < want THEN 0 ELSE b.base[i]) \in Byte
    <3>1. i \in b.tail .. b.tail + n - 1 => i - b.tail + 1 \in 1..n
      BY <1>1
    <3>2. \A j \in 1..n : chunk[j] \in Byte
      OBVIOUS
    <3> QED
      BY <1>1, <3>1, <3>2
  <2> QED
    BY <1>1, <2>1 DEF Cell
<1>4. \A i \in 0 .. b.tail - 1 : cells[i] = b.base[i]
  <2>1. \A i \in 0 .. b.tail - 1 : /\ i \in 0 .. b.len - 1 /\ i \notin b.tail .. b.tail + n - 1
                                   /\ i # b.tail + n
    BY <1>1
  <2> QED
    BY <1>1, <2>1
<1>5. \A i \in 1..n : cells[b.tail + i - 1] = chunk[i]
  <2>1. \A i \in 1..n : /\ b.tail + i - 1 \in 0 .. b.len - 1
                        /\ b.tail + i - 1 \in b.tail .. b.tail + n - 1
                        /\ (b.tail + i - 1) - b.tail + 1 = i
    BY <1>1
  <2> QED
    BY <1>1, <2>1
<1>6. b.tail + n \in Nat
  BY <1>1
<1> HIDE DEF c, cells
<1>7. c \in Buffers(Cell(b.len))
  BY <1>1, <1>2, <1>3, <1>6 DEF Buffers
<1>8. /\ c.head = b.head /\ c.tail = b.tail + n /\ c.len = b.len /\ c.base = cells
      /\ c.alloced = b.alloced /\ c.max = b.max /\ c.small = b.small /\ c.over = b.over
  BY <1>1, <1>2 DEF Buffers
<1>9. IsBuffer(c)
  BY <1>7, <1>8 DEF IsBuffer
<1>10. Data(c) = Data(b) \o chunk
  <2> DEFINE k == b.tail - b.head
             v == Data(b)
             w == Data(c)
             u == v \o chunk
  <2>1. c.head <= c.tail /\ c.tail <= c.len /\ b.tail <= b.len /\ c.tail - c.head = k + n
        /\ k \in Nat
    BY <1>1, <1>8
  <2>2. v \in Seq(Byte) /\ Len(v) = k /\ \A i \in 1..k : v[i] = b.base[b.head + i - 1]
    BY <2>1, DataType
  <2>3. w \in Seq(Byte) /\ Len(w) = k + n /\ \A i \in 1 .. k + n : w[i] = cells[b.head + i - 1]
    BY <1>8, <1>9, <2>1, DataType
  <2>5. \A i \in 1..k : b.head + i - 1 \in 0 .. b.tail - 1
    BY <1>1
  <2>6. \A i \in 1 .. k + n : ~(i <= k) => i - k \in 1..n /\ b.head + i - 1 = b.tail + (i - k) - 1
    BY <1>1
  <2> HIDE DEF k, v, w
  <2>4. /\ u \in Seq(Byte) /\ Len(u) = k + n
        /\ \A i \in 1 .. k + n : u[i] = IF i <= k THEN v[i] ELSE chunk[i - k]
    <3>1. /\ v \o chunk \in Seq(Byte) /\ Len(v \o chunk) = Len(v) + Len(chunk)
          /\ \A i \in 1 .. Len(v) + Len(chunk) :
                (v \o chunk)[i] = IF i <= Len(v) THEN v[i] ELSE chunk[i - Len(v)]
      BY <2>2, ConcatProperties
    <3> QED
      BY <2>2, <3>1
  <2> HIDE DEF u, n
  <2>7. ASSUME NEW i \in 1 .. k + n PROVE w[i] = u[i]
    <3>1. CASE i <= k
      <4>1. i \in 1..k
        BY <2>1, <3>1
      <4> QED
        BY <1>4, <2>2, <2>3, <2>4, <2>5, <3>1, <4>1
    <3>2. CASE ~(i <= k)
      BY <1>5, <2>3, <2>4, <2>6, <3>2
    <3> QED
      BY <3>1, <3>2
  <2>8. w = u
    BY <2>3, <2>4, <2>7, SeqEqual
  <2> QED
    BY <2>8 DEF w, u, v
<1> QED
  BY <1>8, <1>9, <1>10 DEF c

\* hio_unpack leaves what is left at the front.
LEMMA UnreadSound ==
    ASSUME NEW b, IsBuffer(b), b.alloced, b.len <= HighWater => b.small = 0,
           NEW rest \in Seq(Byte), Len(rest) <= b.len
    PROVE  LET c == Unread(b, rest) IN
           /\ Sound(c) /\ Data(c) = rest
           /\ c.head = 0 /\ c.tail = Len(rest) /\ c.len = b.len /\ c.alloced
           /\ c.max = b.max /\ c.small = b.small /\ c.over = b.over
<1> DEFINE c == Unread(b, rest)
           n == Len(rest)
           cells == [i \in DOMAIN b.base |-> IF i < n THEN rest[i + 1] ELSE b.base[i]]
<1>1. /\ b \in Buffers(Cell(b.len)) /\ b.len \in Nat
      /\ b.base \in [0 .. b.len - 1 -> Byte]
      /\ n \in Nat /\ 0 \in Nat /\ DOMAIN b.base = 0 .. b.len - 1
  BY DEF IsBuffer, Buffers, Cell
<1>2. c = [b EXCEPT !.head = 0, !.tail = n, !.base = cells]
  BY DEF Unread
<1>3. cells \in Cell(b.len)
  <2>1. ASSUME NEW i \in 0 .. b.len - 1 PROVE (IF i < n THEN rest[i + 1] ELSE b.base[i]) \in Byte
    <3>1. i < n => i + 1 \in 1..n
      BY <1>1
    <3> QED
      BY <1>1, <3>1
  <2> QED
    BY <1>1, <2>1 DEF Cell
<1>4. \A i \in 1..n : cells[0 + i - 1] = rest[i]
  <2>1. \A i \in 1..n : 0 + i - 1 \in 0 .. b.len - 1 /\ 0 + i - 1 < n /\ (0 + i - 1) + 1 = i
    BY <1>1
  <2> QED
    BY <1>1, <2>1
<1> HIDE DEF c, cells
<1>7. c \in Buffers(Cell(b.len))
  BY <1>1, <1>2, <1>3 DEF Buffers
<1>8. /\ c.head = 0 /\ c.tail = n /\ c.len = b.len /\ c.base = cells
      /\ c.alloced = b.alloced /\ c.max = b.max /\ c.small = b.small /\ c.over = b.over
  BY <1>1, <1>2 DEF Buffers
<1>9. IsBuffer(c)
  BY <1>7, <1>8 DEF IsBuffer
<1>10. c.head <= c.tail /\ c.tail <= c.len /\ c.tail - c.head = n
  BY <1>1, <1>8
<1>11. Data(c) \in Seq(Byte) /\ Len(Data(c)) = n /\ \A i \in 1..n : Data(c)[i] = cells[0 + i - 1]
  BY <1>8, <1>9, <1>10, DataType
<1>12. Data(c) = rest
  BY <1>4, <1>11, SeqEqual
<1>13. Sound(c)
  BY <1>8, <1>9, <1>10 DEF Sound
<1> QED
  BY <1>8, <1>12, <1>13 DEF c

LEMMA SmallPackagesType ==
    ASSUME NEW b, IsBuffer(b), ~b.alloced \/ b.len <= HighWater => b.small = 0,
           NEW msgs \in Seq(Seq(Byte))
    PROVE  LET c == SmallPackages(b, msgs) IN
           /\ IsBuffer(c) /\ (~c.alloced \/ c.len <= HighWater => c.small = 0)
           /\ c.head = b.head /\ c.tail = b.tail /\ c.base = b.base /\ c.len = b.len
           /\ c.alloced = b.alloced /\ c.max = b.max /\ c.over = b.over
<1> DEFINE c == SmallPackages(b, msgs)
<1>1. b \in Buffers(Cell(b.len)) /\ b.len \in Nat /\ HighWater \in Nat /\ SmallMax \in Nat
      /\ b.small \in 0..SmallMax
  BY HioReadAssumption DEF IsBuffer, Buffers
<1>2. CASE b.alloced /\ b.len > HighWater
  <2> DEFINE R == {k \in DOMAIN msgs : \A j \in k .. Len(msgs) : Len(msgs[j]) < b.len \div 2}
             run == Cardinality(R)
             m == Least(IF run = Len(msgs) THEN b.small + run ELSE run, SmallMax)
  <2>1. run \in Nat
    <3>1. DOMAIN msgs = 1..Len(msgs) /\ Len(msgs) \in Nat
      OBVIOUS
    <3>2. IsFiniteSet(1..Len(msgs))
      BY <3>1, FS_Interval
    <3>3. R \subseteq 1..Len(msgs)
      BY <3>1
    <3> QED
      BY <3>2, <3>3, FS_Subset, FS_CardinalityType
  <2>2. c = [b EXCEPT !.small = m]
    BY <1>1, <1>2 DEF SmallPackages, Buffers
  <2> HIDE DEF c, R, run
  <2>3. m \in 0..SmallMax
    BY <1>1, <2>1 DEF Least
  <2> HIDE DEF m
  <2>4. c \in Buffers(Cell(b.len))
    BY <1>1, <2>2, <2>3 DEF Buffers
  <2>5. /\ c.head = b.head /\ c.tail = b.tail /\ c.base = b.base /\ c.len = b.len
        /\ c.alloced = b.alloced /\ c.max = b.max /\ c.over = b.over
    BY <1>1, <2>2 DEF Buffers
  <2>6. ~(~c.alloced \/ c.len <= HighWater)
    BY <1>1, <1>2, <2>5
  <2> QED
    BY <2>4, <2>5, <2>6 DEF IsBuffer, c
<1>3. CASE ~(b.alloced /\ b.len > HighWater)
  BY <1>3 DEF SmallPackages
<1> QED
  BY <1>2, <1>3


-----------------------------------------------------------------------------
(* Cut: what its recursive function computes, shown from the end of the    *)
(* data to its beginning.                                                  *)

\* one step of Cut, with the results f behind p
CutStep(data, end, f, p) ==
    IF end[p] = p THEN [msgs |-> << >>, rest |-> From(data, p + 1), at |-> {p}]
    ELSE [msgs |-> <<SubSeq(data, p + 1, end[p])>> \o f[end[p]].msgs,
          rest |-> f[end[p]].rest, at |-> {p} \cup f[end[p]].at]

CutsFrom(data, end, f, lo) ==
    f = [p \in lo..Len(data) |-> CutStep(data, end, f, p)]

\* The ends of the packages lie in the data, and not before their beginning.
Forward(data, end) ==
    /\ end \in [0..Len(data) -> 0..Len(data)]
    /\ \A p \in 0..Len(data) : p <= end[p]

LEMMA CutExists ==
    ASSUME NEW data, Len(data) \in Nat, NEW end, Forward(data, end)
    PROVE  \E f : CutsFrom(data, end, f, 0)
<1> DEFINE n == Len(data)
           T == {m \in Nat : m <= n /\ ~ \E f : CutsFrom(data, end, f, n - m)}
<1>0. n \in Nat /\ end \in [0..n -> 0..n] /\ \A p \in 0..n : p <= end[p]
  BY DEF Forward
<1>1. SUFFICES ASSUME T # {} PROVE FALSE
  <2>1. n \notin T => \E f : CutsFrom(data, end, f, n - n)
    BY <1>0
  <2>2. n - n = 0
    BY <1>0
  <2> QED
    BY <2>1, <2>2
<1>2. PICK m \in T : \A l \in T : m <= l
  BY <1>1, LeastNat
<1>3. m \in Nat /\ m <= n /\ ~ \E f : CutsFrom(data, end, f, n - m)
  OBVIOUS
<1>4. CASE m = 0
  <2> DEFINE f == [p \in n..n |-> CutStep(data, end, end, p)]
  <2>1. ASSUME NEW p \in n..n PROVE CutStep(data, end, end, p) = CutStep(data, end, f, p)
    <3>1. p = n /\ end[p] = p
      BY <1>0
    <3> QED
      BY <3>1 DEF CutStep
  <2>2. f = [p \in n..n |-> CutStep(data, end, f, p)]
    BY <2>1
  <2> HIDE DEF f
  <2>3. CutsFrom(data, end, f, n)
    BY <2>2 DEF CutsFrom
  <2>4. n - m = n
    BY <1>0, <1>4
  <2> QED
    BY <1>3, <2>3, <2>4
<1>5. CASE m # 0
  <2> DEFINE lo == n - m
  <2>1. m - 1 \in Nat /\ m - 1 <= n /\ n - (m - 1) = lo + 1 /\ lo \in 0..n /\ lo \in Nat
    BY <1>0, <1>3, <1>5
  <2>2. m - 1 \notin T
    <3>1. ~(m <= m - 1)
      BY <1>3
    <3> HIDE DEF T
    <3> QED
      BY <1>2, <3>1
  <2>3. PICK g : CutsFrom(data, end, g, lo + 1)
    BY <2>1, <2>2
  <2> HIDE DEF lo
  <2> DEFINE f == [p \in lo..n |-> IF p = lo THEN CutStep(data, end, g, lo) ELSE g[p]]
  <2>4. \A p \in lo..n : p # lo => p \in (lo + 1)..n
    BY <1>0, <2>1
  <2>5. \A q \in (lo + 1)..n : f[q] = g[q]
    <3>1. \A q \in (lo + 1)..n : q \in lo..n /\ q # lo
      BY <1>0, <2>1
    <3> QED
      BY <3>1
  <2>6. ASSUME NEW p \in lo..n
        PROVE  CutStep(data, end, g, p) = CutStep(data, end, f, p)
    <3>1. p \in 0..n /\ (end[p] # p => end[p] \in (lo + 1)..n)
      BY <1>0, <2>1
    <3>2. end[p] # p => f[end[p]] = g[end[p]]
      BY <2>5, <3>1
    <3> HIDE DEF f
    <3> QED
      BY <3>2 DEF CutStep
  <2>7. ASSUME NEW p \in lo..n PROVE f[p] = CutStep(data, end, f, p)
    <3>1. CASE p = lo
      BY <2>6, <3>1
    <3>2. CASE p # lo
      <4>1. p \in (lo + 1)..n /\ f[p] = g[p]
        BY <2>4, <3>2
      <4>2. g[p] = CutStep(data, end, g, p)
        BY <2>3, <4>1 DEF CutsFrom
      <4> QED
        BY <2>6, <4>1, <4>2
    <3> QED
      BY <3>1, <3>2
  <2>8. f = [p \in lo..n |-> CutStep(data, end, f, p)]
    <3>1. f = [p \in lo..n |-> f[p]]
      OBVIOUS
    <3> HIDE DEF f
    <3> QED
      BY <2>7, <3>1
  <2> HIDE DEF f
  <2>9. CutsFrom(data, end, f, lo)
    BY <2>8 DEF CutsFrom
  <2> QED
    BY <1>3, <2>9 DEF lo
<1> QED
  BY <1>4, <1>5

LEMMA CutIs ==
    ASSUME NEW data, Len(data) \in Nat, NEW end, Forward(data, end)
    PROVE  \E f : /\ \A p \in 0..Len(data) : f[p] = CutStep(data, end, f, p)
                  /\ Cut(data, end) = f[0]
<1> DEFINE Eq(f) == f = [p \in 0..Len(data) |->
                IF end[p] = p THEN [msgs |-> << >>, rest |-> From(data, p + 1), at |-> {p}]
                ELSE [msgs |-> <<SubSeq(data, p + 1, end[p])>> \o f[end[p]].msgs,
                      rest |-> f[end[p]].rest, at |-> {p} \cup f[end[p]].at]]
           c == CHOOSE f : Eq(f)
<1>1. \E f : Eq(f)
  <2>1. PICK f : CutsFrom(data, end, f, 0)
    BY CutExists
  <2>2. Eq(f)
    BY <2>1, Zenon DEF CutsFrom, CutStep
  <2> HIDE DEF Eq
  <2> QED
    BY <2>2
<1>2. Eq(c)
  BY <1>1
<1>3. Cut(data, end) = c[0]
  BY SMTT(30) DEF Cut
<1> HIDE DEF c
<1>4. \A p \in 0..Len(data) : c[p] = CutStep(data, end, c, p)
  BY <1>2 DEF CutStep
<1> QED
  BY <1>3, <1>4


LEMMA WiderSeq ==
    ASSUME NEW G, NEW H, G \subseteq H, NEW s \in Seq(G)
    PROVE  s \in Seq(H)
  OBVIOUS

LEMMA FlattenCons ==
    ASSUME NEW S, NEW m \in Seq(S), NEW ss \in Seq(Seq(S))
    PROVE  FlattenSeq(<<m>> \o ss) = m \o FlattenSeq(ss)
<1> DEFINE tt == <<m>> \o ss
<1>1. <<m>> \in Seq(Seq(S)) /\ Len(<<m>>) = 1
  OBVIOUS
<1>2. tt \in Seq(Seq(S)) /\ Len(tt) = 1 + Len(ss)
      /\ \A i \in 1 .. 1 + Len(ss) : tt[i] = IF i <= 1 THEN <<m>>[i] ELSE ss[i - 1]
  BY <1>1, ConcatProperties
<1>3. tt # << >> /\ Head(tt) = m
  BY <1>2
<1>4. Tail(tt) \in Seq(Seq(S)) /\ Len(Tail(tt)) = Len(ss)
      /\ \A i \in 1..Len(ss) : Tail(tt)[i] = ss[i]
  <2> HIDE DEF tt
  <2>1. /\ Tail(tt) \in Seq(Seq(S)) /\ Len(Tail(tt)) = Len(tt) - 1
        /\ \A i \in 1 .. Len(Tail(tt)) : Tail(tt)[i] = tt[i + 1]
    BY <1>2, <1>3, HeadTailProperties
  <2>2. Len(ss) \in Nat /\ Len(Tail(tt)) = Len(ss)
    BY <1>2, <2>1
  <2>3. \A i \in 1..Len(ss) : i + 1 \in 1 .. 1 + Len(ss) /\ ~(i + 1 <= 1) /\ (i + 1) - 1 = i
    BY <2>2
  <2> QED
    BY <1>2, <2>1, <2>2, <2>3
<1> HIDE DEF tt
<1>5. Tail(tt) = ss
  BY <1>4, SeqEqual
<1>6. FlattenSeq(tt) = Head(tt) \o FlattenSeq(Tail(tt))
  BY <1>2, <1>3, FlattenHead
<1> QED
  BY <1>3, <1>5, <1>6 DEF tt

\* Cut gives back the data, in pieces of G and a rest in R when it is cut
\* into such wherever it looks.
LEMMA CutLaw ==
    ASSUME NEW S, NEW data \in Seq(S), NEW end, Forward(data, end),
           NEW G \in SUBSET Seq(S), NEW R \in SUBSET Seq(S),
           NEW Ok, Cut(data, end).at \subseteq Ok,
           \A p \in 0..Len(data) : p \in Ok /\ end[p] # p => SubSeq(data, p + 1, end[p]) \in G,
           \A p \in 0..Len(data) : p \in Ok /\ end[p] = p => From(data, p + 1) \in R
    PROVE  LET c == Cut(data, end) IN
           /\ c.msgs \in Seq(G) /\ c.rest \in R
           /\ FlattenSeq(c.msgs) \o c.rest = data
<1> DEFINE n == Len(data)
<1>0. n \in Nat /\ end \in [0..n -> 0..n] /\ \A p \in 0..n : p <= end[p]
  BY DEF Forward
<1>1. PICK f : /\ \A p \in 0..n : f[p] = CutStep(data, end, f, p)
               /\ Cut(data, end) = f[0]
  BY <1>0, CutIs
<1> DEFINE Good(p) == f[p].at \subseteq Ok =>
                      /\ f[p].msgs \in Seq(G) /\ f[p].rest \in R
                      /\ FlattenSeq(f[p].msgs) \o f[p].rest = From(data, p + 1)
           T == {m \in Nat : m <= n /\ ~Good(n - m)}
<1>2. T = {}
  <2>1. SUFFICES ASSUME T # {} PROVE FALSE
    OBVIOUS
  <2>2. PICK m \in T : \A l \in T : m <= l
    BY <2>1, LeastNat
  <2>3. PICK p : p = n - m /\ p \in 0..n /\ m \in Nat /\ ~Good(p)
    <3>1. m \in Nat /\ m <= n /\ ~Good(n - m)
      OBVIOUS
    <3> HIDE DEF Good
    <3> QED
      BY <1>0, <3>1
  <2>6. f[p].at \subseteq Ok
    BY <2>3
  <2>4. CASE end[p] = p
    <3>1. f[p] = [msgs |-> << >>, rest |-> From(data, p + 1), at |-> {p}]
      BY <1>1, <2>3, <2>4 DEF CutStep
    <3>2. f[p].msgs = << >> /\ f[p].rest = From(data, p + 1) /\ f[p].at = {p}
      BY <3>1
    <3>3. From(data, p + 1) \in R /\ From(data, p + 1) \in Seq(S)
      BY <2>3, <2>4, <2>6, <3>2
    <3>4. FlattenSeq(<< >>) \o From(data, p + 1) = From(data, p + 1)
      BY <3>3, FlattenEmpty, ConcatEmptySeq
    <3>5. << >> \in Seq(G)
      OBVIOUS
    <3> QED
      BY <2>3, <3>2, <3>3, <3>4, <3>5
  <2>5. CASE end[p] # p
    <3> DEFINE e == end[p]
               x == SubSeq(data, p + 1, e)
    <3>1. e \in 0..n /\ e \in p..n /\ p < e /\ n - e \in Nat /\ n - e <= n /\ n - e < m
          /\ n - (n - e) = e
      <4>1. e \in 0..n /\ p <= e /\ p # e
        BY <1>0, <2>3, <2>5
      <4> HIDE DEF e, n
      <4> QED
        BY <1>0, <2>3, <4>1
    <3>4. /\ f[p].msgs = <<x>> \o f[e].msgs /\ f[p].rest = f[e].rest
          /\ f[p].at = {p} \cup f[e].at
      <4>1. f[p] = [msgs |-> <<x>> \o f[e].msgs, rest |-> f[e].rest, at |-> {p} \cup f[e].at]
        BY <1>1, <2>3, <2>5 DEF CutStep
      <4> HIDE DEF x, e
      <4> QED
        BY SMTT(30), <4>1
    <3>a. p \in Ok /\ f[e].at \subseteq Ok
      <4> HIDE DEF e
      <4> QED
        BY <2>6, <3>4
    <3>2. /\ f[e].msgs \in Seq(G) /\ f[e].rest \in R
          /\ FlattenSeq(f[e].msgs) \o f[e].rest = From(data, e + 1)
      <4>1. n - e \notin T
        <5>1. ~(m <= n - e)
          BY <2>3, <3>1
        <5> HIDE DEF T, e
        <5> QED
          BY <2>2, <5>1
      <4> QED
        BY <3>1, <3>a, <4>1
    <3>3. x \in G
      BY <2>3, <2>5, <3>a
    <3>5. x \in Seq(S) /\ f[e].msgs \in Seq(Seq(S)) /\ f[e].rest \in Seq(S)
      BY <3>2, <3>3, WiderSeq
    <3>6. <<x>> \o f[e].msgs \in Seq(G)
      <4>1. <<x>> \in Seq(G)
        BY <3>3
      <4> QED
        BY <3>2, <4>1, ConcatProperties
    <3>7. FlattenSeq(<<x>> \o f[e].msgs) = x \o FlattenSeq(f[e].msgs)
      BY <3>5, FlattenCons
    <3>8. FlattenSeq(f[e].msgs) \in Seq(S)
      BY <3>5, FlattenType
    <3>9. (x \o FlattenSeq(f[e].msgs)) \o f[e].rest = x \o (FlattenSeq(f[e].msgs) \o f[e].rest)
      <4> HIDE DEF x, e
      <4>1. \A a, b, c \in Seq(S) : (a \o b) \o c = a \o (b \o c)
        BY Associative
      <4> QED
        BY <3>5, <3>8, <4>1
    <3>10. x \o From(data, e + 1) = From(data, p + 1)
      <4>1. n \in e..n /\ p \in 0..n
        BY <1>0, <2>3, <3>1
      <4> QED
        BY <3>1, <4>1, JoinSlices DEF From
    <3> HIDE DEF x, e
    <3>11. Good(p)
      BY <3>2, <3>4, <3>6, <3>7, <3>9, <3>10
    <3> QED
      BY <2>3, <3>11
  <2> QED
    BY <2>4, <2>5
<1>3. /\ f[0].msgs \in Seq(G) /\ f[0].rest \in R
      /\ FlattenSeq(f[0].msgs) \o f[0].rest = From(data, 0 + 1)
  <2>1. n \in Nat /\ n - n = 0 /\ n <= n
    BY <1>0
  <2>2. n \notin T /\ f[0].at \subseteq Ok
    BY <1>1, <1>2
  <2> QED
    BY <2>1, <2>2
<1>4. From(data, 0 + 1) = data
  BY WholeSlice DEF From
<1> QED
  BY <1>1, <1>3, <1>4

\* end says where a piece in G ends, and that there is none in r.
EndsOf(data, end, G, r) ==
    /\ \A p \in 0..Len(data) : \A m \in G, t \in Seq(Byte) :
          From(data, p + 1) = m \o t => end[p] = p + Len(m)
    /\ \A p \in 0..Len(data) : From(data, p + 1) = r => end[p] = p

LEMMA BytesAssociative ==
    \A a, b, c \in Seq(Byte) : (a \o b) \o c = a \o (b \o c)
  BY Associative

\* Cut finds the pieces of which the data is made, when its ends are theirs.
LEMMA CutUnique ==
    ASSUME NEW data \in Seq(Byte), NEW end, Forward(data, end),
           NEW G \in SUBSET (Seq(Byte) \ {<< >>}), NEW r \in Seq(Byte), EndsOf(data, end, G, r),
           NEW ms \in Seq(G), FlattenSeq(ms) \o r = data
    PROVE  Cut(data, end).msgs = ms
<1> DEFINE n == Len(data)
<1>0. n \in Nat /\ end \in [0..n -> 0..n]
  BY DEF Forward
<1>1. PICK f : /\ \A p \in 0..n : f[p] = CutStep(data, end, f, p)
               /\ Cut(data, end) = f[0]
  BY <1>0, CutIs
<1> DEFINE T == {k \in Nat : \E us \in Seq(G), p \in 0..n :
                    /\ Len(us) = k /\ From(data, p + 1) = FlattenSeq(us) \o r
                    /\ f[p].msgs # us}
<1>2. T = {}
  <2>1. SUFFICES ASSUME T # {} PROVE FALSE
    OBVIOUS
  <2>2. PICK k \in T : \A l \in T : k <= l
    BY <2>1, LeastNat
  <2>3. PICK us \in Seq(G), p \in 0..n :
           /\ Len(us) = k /\ From(data, p + 1) = FlattenSeq(us) \o r
           /\ f[p].msgs # us
    OBVIOUS
  <2>4. CASE us = << >>
    <3>1. From(data, p + 1) = r
      BY <2>3, <2>4, FlattenEmpty, ConcatEmptySeq
    <3>2. end[p] = p
      BY <3>1 DEF EndsOf
    <3>3. f[p] = [msgs |-> << >>, rest |-> From(data, p + 1), at |-> {p}]
      BY <1>1, <2>3, <3>2 DEF CutStep
    <3>4. f[p].msgs = << >>
      BY <3>3
    <3> QED
      BY <2>3, <2>4, <3>4
  <2>5. CASE us # << >>
    <3> DEFINE m == Head(us)
               vs == Tail(us)
               F == FlattenSeq(vs)
               t == F \o r
               e == p + Len(m)
    <3>1. m \in G /\ vs \in Seq(G) /\ Len(vs) = k - 1 /\ k \in Nat /\ us = <<m>> \o vs
      <4>1. /\ Head(us) \in G /\ Tail(us) \in Seq(G) /\ Len(Tail(us)) = Len(us) - 1
            /\ Len(us) \in Nat
        BY <2>5, HeadTailProperties
      <4>2. us = <<Head(us)>> \o Tail(us)
        BY <2>5
      <4> QED
        BY <2>3, <4>1, <4>2
    <3> HIDE DEF m, vs
    <3>2. m \in Seq(Byte) /\ m # << >> /\ vs \in Seq(Seq(Byte))
      BY <3>1, WiderSeq
    <3>3. F \in Seq(Byte) /\ FlattenSeq(us) = m \o F
      BY <3>1, <3>2, FlattenType, FlattenCons
    <3> HIDE DEF F
    <3>4. t \in Seq(Byte) /\ From(data, p + 1) = m \o t
      <4>1. t \in Seq(Byte)
        BY <3>3, ConcatProperties
      <4>2. (m \o F) \o r = m \o (F \o r)
        BY ZenonT(40), <3>2, <3>3, BytesAssociative
      <4> QED
        BY <2>3, <3>3, <4>1, <4>2
    <3> HIDE DEF t
    <3>5. end[p] = e
      BY <3>1, <3>4 DEF EndsOf
    <3>6. Len(m) \in Nat \ {0} /\ e \in 0..n /\ e \in p..n /\ p # e /\ n - p \in Nat
      <4>1. Len(m) \in Nat \ {0}
        BY <3>2, EmptySeq
      <4>2. e \in 0..n
        BY <1>0, <3>5
      <4> QED
        BY <1>0, <4>1, <4>2
    <3>7. SubSeq(data, p + 1, e) = m /\ From(data, e + 1) = t
      <4> DEFINE d == From(data, p + 1)
                 g == Len(m)
      <4>1. n \in p..n /\ n - p \in Nat
        BY <1>0
      <4>2. d \in Seq(Byte) /\ Len(d) = n - p
        BY <4>1, Slice DEF From
      <4>3. Len(d) = g + Len(t) /\ Len(t) \in Nat /\ g \in Nat
        BY <3>2, <3>4, ConcatProperties
      <4>4. SubSeq(m \o t, 1, g) = m /\ SubSeq(m \o t, g + 1, g + Len(t)) = t
        BY <3>2, <3>4, PartsOfConcat
      <4>5. g \in 0 .. Len(data) - p /\ p \in 0..Len(data)
        BY <3>6, <4>2, <4>3
      <4>6. /\ SubSeq(d, 1, g) = SubSeq(data, p + 1, p + g)
            /\ SubSeq(d, g + 1, Len(data) - p) = SubSeq(data, p + g + 1, Len(data))
        <5> HIDE DEF g
        <5> QED
          BY <4>5, SliceOfRest DEF From
      <4>7. g + Len(t) = Len(data) - p
        BY <4>2, <4>3
      <4> QED
        BY <3>4, <4>4, <4>6, <4>7 DEF From
    <3>8. f[e].msgs = vs
      <4>1. k - 1 \notin T
        <5>1. ~(k <= k - 1)
          BY <3>1
        <5> HIDE DEF T
        <5> QED
          BY <2>2, <5>1
      <4>2. k - 1 \in Nat
        BY <2>3, <2>5, <3>1, EmptySeq
      <4> QED
        BY <3>1, <3>6, <3>7, <4>1, <4>2 DEF F, t
    <3>9. f[p].msgs = <<SubSeq(data, p + 1, e)>> \o f[e].msgs
      <4>1. f[p] = [msgs |-> <<SubSeq(data, p + 1, e)>> \o f[e].msgs, rest |-> f[e].rest,
                    at |-> {p} \cup f[e].at]
        <5> HIDE DEF e, n
        <5>1. f[p] = CutStep(data, end, f, p)
          BY <1>1, <2>3
        <5> QED
          BY <3>5, <3>6, <5>1, Zenon DEF CutStep
      <4> DEFINE w == <<SubSeq(data, p + 1, e)>> \o f[e].msgs
                 v == f[e].rest
                 u == {p} \cup f[e].at
      <4> HIDE DEF w, v, u
      <4>2. f[p] = [msgs |-> w, rest |-> v, at |-> u]
        BY <4>1 DEF w, v, u
      <4>3. f[p].msgs = w
        BY <4>2
      <4> QED
        BY <4>3 DEF w
    <3> QED
      BY <2>3, <3>1, <3>7, <3>8, <3>9
  <2> QED
    BY <2>4, <2>5
<1>3. From(data, 0 + 1) = data /\ 0 \in 0..n /\ Len(ms) \in Nat
  BY <1>0, WholeSlice DEF From
<1>4. Len(ms) \notin T
  BY <1>2
<1> QED
  BY <1>1, <1>3, <1>4


LEMMA FirstIs ==
    ASSUME NEW T \in SUBSET Nat, T # {}
    PROVE  First(T) \in T /\ \A j \in T : First(T) <= j
<1>1. \E i \in T : \A j \in T : i <= j
  BY LeastNat
<1> QED
  BY <1>1 DEF First

\* What lies behind the offset p of a sequence of bytes.
LEMMA RestOf ==
    ASSUME NEW data \in Seq(Byte), NEW p \in 0..Len(data)
    PROVE  LET d == From(data, p + 1) IN
           /\ d \in Seq(Byte) /\ Len(d) = Len(data) - p /\ Len(d) \in Nat
           /\ \A j \in 0..Len(d) : SubSeq(d, 1, j) = SubSeq(data, p + 1, p + j)
<1> DEFINE d == From(data, p + 1)
           n == Len(data)
<1>1. n \in Nat /\ n \in p..n /\ n - p \in Nat
  OBVIOUS
<1>2. d \in Seq(Byte) /\ Len(d) = n - p
  BY <1>1, Slice DEF From
<1>3. ASSUME NEW j \in 0..Len(d) PROVE SubSeq(d, 1, j) = SubSeq(data, p + 1, p + j)
  <2>1. j \in 0 .. Len(data) - p
    BY <1>2
  <2> QED
    BY <2>1, SliceOfRest DEF From
<1> QED
  BY <1>1, <1>2, <1>3

LEMMA PrefixType ==
    ASSUME NEW d \in Seq(Byte), NEW j \in 0..Len(d)
    PROVE  /\ SubSeq(d, 1, j) \in Seq(Byte) /\ Len(SubSeq(d, 1, j)) = j
           /\ \A i \in 1..j : SubSeq(d, 1, j)[i] = d[i]
<1>1. 0 \in 0..Len(d) /\ j \in 0..Len(d) /\ 0 + 1 = 1 /\ j - 0 = j
      /\ \A i \in 1..j : 0 + i = i
  OBVIOUS
<1> DEFINE z == 0
<1>2. z \in 0..Len(d) /\ j \in z..Len(d) /\ z + 1 = 1 /\ j - z = j /\ \A i \in 1..j : z + i = i
  BY <1>1
<1> HIDE DEF z
<1>3. /\ SubSeq(d, z + 1, j) \in Seq(Byte) /\ Len(SubSeq(d, z + 1, j)) = j - z
      /\ \A i \in 1 .. j - z : SubSeq(d, z + 1, j)[i] = d[z + i]
  BY <1>2, Slice
<1> QED
  BY <1>2, <1>3

LEMMA PrefixOfConcat ==
    ASSUME NEW m \in Seq(Byte), NEW t \in Seq(Byte), NEW j \in 0..Len(m)
    PROVE  SubSeq(m \o t, 1, j) = SubSeq(m, 1, j)
<1> DEFINE z == 0
<1>1. z \in 0..Len(m) /\ j \in z..Len(m) /\ z + 1 = 1
  OBVIOUS
<1> HIDE DEF z
<1>2. SubSeq(m \o t, z + 1, j) = SubSeq(m, z + 1, j)
  BY <1>1, SliceOfPrefix
<1> QED
  BY <1>1, <1>2

\* A stream made of whole packages and a part has those packages.
LEMMA PackagesAre ==
    ASSUME NEW s, NEW data \in Seq(Byte), NEW r \in Parts(s), NEW ms \in Seq(Wholes(s)),
           FlattenSeq(ms) \o r = data
    PROVE  Packages(data, s) = ms
<1> DEFINE n == Len(data)
           Ends(p) == {e \in p + 1 .. n : IsPackage(SubSeq(data, p + 1, e), s)}
           end == [p \in 0..n |-> IF Ends(p) = {} THEN p ELSE First(Ends(p))]
<1>0. n \in Nat
  OBVIOUS
<1>1. ASSUME NEW p \in 0..n, Ends(p) # {}
      PROVE  First(Ends(p)) \in Ends(p) /\ \A e \in Ends(p) : First(Ends(p)) <= e
  <2>1. Ends(p) \in SUBSET Nat
    OBVIOUS
  <2> HIDE DEF Ends
  <2> QED
    BY <1>1, <2>1, FirstIs
<1>2. \A p \in 0..n : Ends(p) \subseteq p + 1 .. n
  OBVIOUS
<1>3. Forward(data, end)
  <2>1. ASSUME NEW p \in 0..n PROVE end[p] \in 0..n /\ p <= end[p]
    <3>1. CASE Ends(p) = {}
      BY <3>1
    <3>2. CASE Ends(p) # {}
      <4>1. end[p] \in Ends(p)
        BY <1>1, <3>2
      <4> HIDE DEF end, Ends
      <4>2. end[p] \in p + 1 .. n
        BY <1>2, <4>1
      <4> QED
        BY <1>0, <4>2
    <3> QED
      BY <3>1, <3>2
  <2>2. end = [p \in 0..n |-> end[p]]
    OBVIOUS
  <2> HIDE DEF end
  <2>3. end \in [0..n -> 0..n]
    BY <2>1, <2>2
  <2> QED
    BY <2>1, <2>3 DEF Forward
<1>4. EndsOf(data, end, Wholes(s), r)
  <2>1. ASSUME NEW p \in 0..n, NEW m \in Wholes(s), NEW t \in Seq(Byte),
               From(data, p + 1) = m \o t
        PROVE  end[p] = p + Len(m)
    <3>1. /\ m \in Seq(Byte) /\ m # << >> /\ IsPackage(m, s)
          /\ \A j \in 1 .. Len(m) - 1 : ~IsPackage(SubSeq(m, 1, j), s)
      BY DEF Wholes
    <3>2. Len(m) \in Nat \ {0}
      BY <3>1, EmptySeq
    <3> DEFINE d == From(data, p + 1)
    <3>a. /\ Len(d) = n - p
          /\ \A j \in 0..Len(d) : SubSeq(d, 1, j) = SubSeq(data, p + 1, p + j)
      BY RestOf
    <3>b. Len(m \o t) = Len(m) + Len(t) /\ Len(t) \in Nat
      BY <3>1, ConcatProperties
    <3>c. d = m \o t
      BY <2>1
    <3> HIDE DEF d
    <3>3. Len(d) = Len(m) + Len(t)
      BY <3>b, <3>c
    <3>4. p \in Nat /\ Len(m) <= n - p
      BY <1>0, <3>2, <3>3, <3>a, <3>b
    <3>5. ASSUME NEW j \in 0..Len(m) PROVE SubSeq(data, p + 1, p + j) = SubSeq(m, 1, j)
      <4>1. j \in 0 .. n - p
        BY <1>0, <3>2, <3>4
      <4>2. SubSeq(m \o t, 1, j) = SubSeq(data, p + 1, p + j)
        BY <3>a, <3>c, <4>1
      <4>3. SubSeq(m \o t, 1, j) = SubSeq(m, 1, j)
        BY <3>1, PrefixOfConcat
      <4> QED
        BY <4>2, <4>3
    <3>6. p + Len(m) \in Ends(p)
      <4>1. SubSeq(data, p + 1, p + Len(m)) = m
        <5>1. Len(m) \in 0..Len(m)
          BY <3>2
        <5>2. SubSeq(m, 1, Len(m)) = m
          BY <3>1, WholeSlice
        <5> QED
          BY <3>5, <5>1, <5>2
      <4>2. p + Len(m) \in p + 1 .. n
        BY <1>0, <3>2, <3>4
      <4> QED
        BY <3>1, <4>1, <4>2
    <3>7. ASSUME NEW e \in Ends(p) PROVE ~(e < p + Len(m))
      <4>1. SUFFICES ASSUME e < p + Len(m) PROVE FALSE
        OBVIOUS
      <4>2. e \in p + 1 .. n /\ IsPackage(SubSeq(data, p + 1, e), s)
        OBVIOUS
      <4>3. PICK j : j = e - p /\ j \in 1 .. Len(m) - 1 /\ j \in 0..Len(m) /\ p + j = e
        BY <1>0, <3>2, <3>4, <4>1, <4>2
      <4> QED
        BY <3>1, <3>5, <4>2, <4>3
    <3>8. First(Ends(p)) \in Ends(p) /\ First(Ends(p)) <= p + Len(m)
      BY <1>1, <3>6
    <3>9. end[p] = First(Ends(p))
      BY <3>6
    <3>10. First(Ends(p)) \in p + 1 .. n
      BY <1>2, <3>8
    <3> HIDE DEF Ends, end
    <3>11. ~(First(Ends(p)) < p + Len(m))
      BY <3>7, <3>8
    <3>12. PICK f : f = First(Ends(p))
      OBVIOUS
    <3>13. f \in Nat /\ f <= p + Len(m) /\ ~(f < p + Len(m))
      BY <1>0, <3>4, <3>8, <3>10, <3>11, <3>12
    <3>14. f = p + Len(m)
      <4>1. p + Len(m) \in Nat
        BY <3>2, <3>4
      <4>2. ASSUME NEW a \in Nat, NEW b \in Nat, a <= b, ~(a < b) PROVE a = b
        BY ONLY <4>2
      <4> QED
        BY ONLY <3>13, <4>1, <4>2
    <3> QED
      BY <3>9, <3>12, <3>14
  <2>2. ASSUME NEW p \in 0..n, From(data, p + 1) = r PROVE end[p] = p
    <3>1. \A j \in 1..Len(r) : ~IsPackage(SubSeq(r, 1, j), s)
      BY DEF Parts
    <3>2. /\ Len(r) = n - p
          /\ \A j \in 0..Len(r) : SubSeq(r, 1, j) = SubSeq(data, p + 1, p + j)
      <4> DEFINE d == From(data, p + 1)
      <4>1. /\ Len(d) = n - p
            /\ \A j \in 0..Len(d) : SubSeq(d, 1, j) = SubSeq(data, p + 1, p + j)
        BY RestOf
      <4>2. d = r
        BY <2>2
      <4> HIDE DEF d
      <4> QED
        BY <4>1, <4>2
    <3>3. ASSUME NEW e \in p + 1 .. n, IsPackage(SubSeq(data, p + 1, e), s) PROVE FALSE
      <4>1. PICK j : j = e - p /\ j \in 1..Len(r) /\ j \in 0..Len(r) /\ p + j = e
        BY <1>0, <3>2
      <4> QED
        BY <3>1, <3>2, <3>3, <4>1
    <3>4. Ends(p) = {}
      BY <3>3
    <3> QED
      BY <3>4
  <2> HIDE DEF end
  <2> QED
    BY <2>1, <2>2 DEF EndsOf
<1>5. Wholes(s) \in SUBSET (Seq(Byte) \ {<< >>}) /\ r \in Seq(Byte)
  BY DEF Wholes, Parts
<1>6. Packages(data, s) = Cut(data, end).msgs
  BY DEF Packages
<1> HIDE DEF end
<1>7. Cut(data, end).msgs = ms
  BY <1>3, <1>4, <1>5, CutUnique
<1> QED
  BY <1>6, <1>7


-----------------------------------------------------------------------------
(* The unpackers.                                                          *)

Pieces == Seq(Byte) \ {<< >>}

\* pieces and a rest, and nothing lost
JustCut(data, u) ==
    /\ u.msgs \in Seq(Pieces) /\ u.rest \in Seq(Byte)
    /\ u.bad \in BOOLEAN /\ u.endless \in BOOLEAN
    /\ FlattenSeq(u.msgs) \o u.rest = data
    /\ u.package_len \in Nat

\* whole packages and a rest that is a part of one
WellCut(s, u) ==
    /\ u.msgs \in Seq(Wholes(s)) /\ ~u.endless
    /\ ~u.bad => u.rest \in Parts(s)

\* Cut with ends that are those of whole packages.
LEMMA CutWhole ==
    ASSUME NEW s, NEW data \in Seq(Byte), NEW end, Forward(data, end),
           NEW R \in SUBSET Seq(Byte),
           \A p \in 0..Len(data) : end[p] # p => SubSeq(data, p + 1, end[p]) \in Wholes(s),
           \A p \in 0..Len(data) : end[p] = p => From(data, p + 1) \in R
    PROVE  /\ Cut(data, end).msgs \in Seq(Wholes(s)) /\ Cut(data, end).rest \in R
           /\ FlattenSeq(Cut(data, end).msgs) \o Cut(data, end).rest = data
<1>1. Wholes(s) \in SUBSET Seq(Byte)
  BY DEF Wholes
<1> QED
  BY <1>1, CutLaw

LEMMA UnpackedIs ==
    ASSUME NEW c, NEW len, NEW bad, NEW endless
    PROVE  LET u == Unpacked(c, len, bad, endless) IN
           /\ u.msgs = c.msgs /\ u.rest = c.rest /\ u.package_len = len
           /\ u.bad = bad /\ u.endless = endless
<1> DEFINE u == Unpacked(c, len, bad, endless)
           w == c.msgs
           v == c.rest
<1>1. u = [msgs |-> w, rest |-> v, package_len |-> len, bad |-> bad, endless |-> endless]
  BY DEF Unpacked
<1> HIDE DEF u, w, v
<1>2. u.msgs = w /\ u.rest = v /\ u.package_len = len /\ u.bad = bad /\ u.endless = endless
  BY <1>1
<1> QED
  BY <1>2 DEF u, w, v

LEMMA UnpackedWell ==
    ASSUME NEW s, NEW data, NEW c, NEW len \in Nat,
           c.msgs \in Seq(Wholes(s)), c.rest \in Parts(s),
           FlattenSeq(c.msgs) \o c.rest = data
    PROVE  LET u == Unpacked(c, len, FALSE, FALSE) IN JustCut(data, u) /\ WellCut(s, u)
<1> DEFINE u == Unpacked(c, len, FALSE, FALSE)
           w == c.msgs
           v == c.rest
<1>0. u = [msgs |-> w, rest |-> v, package_len |-> len, bad |-> FALSE, endless |-> FALSE]
  BY DEF Unpacked
<1>1. /\ u.msgs = w /\ u.rest = v /\ u.package_len = len
      /\ u.bad = FALSE /\ u.endless = FALSE
  <2> HIDE DEF u, w, v
  <2> QED
    BY <1>0
<1>2. Wholes(s) \subseteq Pieces /\ Parts(s) \subseteq Seq(Byte)
  BY DEF Wholes, Parts, Pieces
<1>3. c.msgs \in Seq(Pieces) /\ c.rest \in Seq(Byte)
  BY <1>2, WiderSeq
<1> HIDE DEF u
<1>4. JustCut(data, u) /\ WellCut(s, u)
  BY <1>1, <1>3 DEF JustCut, WellCut
<1> QED
  BY <1>4 DEF u

\* A part of a part of the bytes.
LEMMA PartOfPart ==
    ASSUME NEW d \in Seq(Byte), NEW p \in Nat, NEW e \in Nat, NEW q \in Nat, NEW f \in Nat,
           p <= e, e <= Len(d), q <= f, p + f <= e
    PROVE  SubSeq(SubSeq(d, p + 1, e), q + 1, f) = SubSeq(d, p + q + 1, p + f)
<1>1. p \in 0..Len(d) /\ e \in p..Len(d) /\ q \in 0 .. e - p /\ f \in q .. e - p
  OBVIOUS
<1> QED
  BY <1>1, SliceOfSlice

LEMMA FixedCut ==
    ASSUME NEW s, s.mode = "FIXED_LENGTH", s.fixed_length \in Nat \ {0},
           NEW data \in Seq(Byte)
    PROVE  LET u == hio_unpack_by_fixed_length(data, s) IN JustCut(data, u) /\ WellCut(s, u)
<1> DEFINE n == Len(data)
           k == s.fixed_length
           end == FixedEnd(data, s)
<1>0. n \in Nat /\ k \in Nat \ {0}
  OBVIOUS
<1>1. end = [p \in 0..n |-> IF n - p >= k THEN p + k ELSE p]
  BY DEF FixedEnd
<1>p. \A m : IsPackage(m, s) <=> Len(m) = k
  BY DEF IsPackage
<1>u. hio_unpack_by_fixed_length(data, s) = Unpacked(Cut(data, end), k, FALSE, FALSE)
  BY DEF hio_unpack_by_fixed_length
<1> HIDE DEF end, k
<1>2. Forward(data, end)
  <2>1. \A p \in 0..n : end[p] \in 0..n /\ p <= end[p]
    BY <1>0, <1>1
  <2>2. end \in [0..n -> 0..n]
    BY <1>1, <2>1
  <2> QED
    BY <2>1, <2>2 DEF Forward
<1>3. ASSUME NEW p \in 0..n, end[p] # p PROVE SubSeq(data, p + 1, end[p]) \in Wholes(s)
  <2>1. end[p] = p + k /\ p + k \in p..n /\ (p + k) - p = k
    BY <1>0, <1>1, <1>3
  <2> DEFINE m == SubSeq(data, p + 1, p + k)
  <2>2. m \in Seq(Byte) /\ Len(m) = k
    BY <2>1, Slice
  <2> HIDE DEF m
  <2>3. ASSUME NEW j \in 1 .. Len(m) - 1 PROVE ~IsPackage(SubSeq(m, 1, j), s)
    <3>1. j \in 0..Len(m) /\ j # k
      BY <1>0, <2>2
    <3>2. Len(SubSeq(m, 1, j)) = j
      BY <2>2, <3>1, PrefixType
    <3> QED
      BY <1>p, <3>1, <3>2
  <2>4. m # << >> /\ IsPackage(m, s)
    BY <1>0, <1>p, <2>2
  <2> QED
    BY <2>1, <2>2, <2>3, <2>4 DEF Wholes, m
<1>4. ASSUME NEW p \in 0..n, end[p] = p PROVE From(data, p + 1) \in Parts(s)
  <2> DEFINE d == From(data, p + 1)
  <2>1. d \in Seq(Byte) /\ Len(d) = n - p
    BY RestOf
  <2>2. n - p < k
    BY <1>0, <1>1, <1>4
  <2> HIDE DEF d
  <2>3. ASSUME NEW j \in 1..Len(d) PROVE ~IsPackage(SubSeq(d, 1, j), s)
    <3>1. j \in 0..Len(d) /\ j # k
      BY <1>0, <2>1, <2>2
    <3>2. Len(SubSeq(d, 1, j)) = j
      BY <2>1, <3>1, PrefixType
    <3> QED
      BY <1>p, <3>1, <3>2
  <2> QED
    BY <2>1, <2>3 DEF Parts, d
<1>5. Parts(s) \in SUBSET Seq(Byte)
  BY DEF Parts
<1> DEFINE c == Cut(data, end)
<1>6. c.msgs \in Seq(Wholes(s)) /\ c.rest \in Parts(s) /\ FlattenSeq(c.msgs) \o c.rest = data
  BY <1>2, <1>3, <1>4, <1>5, CutWhole
<1> HIDE DEF c
<1> DEFINE u == Unpacked(c, k, FALSE, FALSE)
<1>7. JustCut(data, u) /\ WellCut(s, u)
  BY <1>0, <1>6, UnpackedWell
<1> QED
  BY <1>7, <1>u DEF c

LEMMA DelimCut ==
    ASSUME NEW s, s.mode = "DELIMITER", s.delimiter \in Seq(Byte) \ {<< >>},
           NEW old \in Parts(s), NEW chunk \in Seq(Byte), NEW data, data = old \o chunk
    PROVE  LET u == hio_unpack_by_delimiter(data, Len(chunk), s) IN
           JustCut(data, u) /\ WellCut(s, u)
<1> DEFINE n == Len(data)
           db == Len(s.delimiter)
           start == ScanStart(data, Len(chunk), s)
           Found(p) == Matches(data, Len(chunk), s, p)
           end == DelimEnd(data, Len(chunk), s)
<1>0. /\ old \in Seq(Byte) /\ data \in Seq(Byte) /\ n \in Nat /\ n = Len(old) + Len(chunk)
      /\ Len(old) \in Nat /\ Len(chunk) \in Nat
  BY ConcatProperties DEF Parts
<1>1. db \in Nat \ {0}
  BY EmptySeq
<1>2. start \in Nat /\ (start = 0 \/ start = Len(old) - db + 1)
  <2>1. start = IF 0 >= n - Len(chunk) - db + 1 THEN 0 ELSE n - Len(chunk) - db + 1
    BY DEF ScanStart, Atleast
  <2> HIDE DEF start, n, db
  <2> QED
    BY <1>0, <1>1, <2>1
<1>3. end = [p \in 0..n |-> IF Found(p) = {} THEN p ELSE First(Found(p)) + db]
  BY DEF DelimEnd
<1>4. \A p \in 0..n : \A q : q \in Found(p) <=>
         /\ q \in Nat /\ p <= q /\ start <= q /\ q + db <= n
         /\ SubSeq(data, q + 1, q + db) = s.delimiter
  <2>1. \A p \in 0..n : Found(p) =
           {q \in (IF p >= start THEN p ELSE start) .. n - db :
               SubSeq(data, q + 1, q + db) = s.delimiter}
    BY DEF Matches, Atleast
  <2> HIDE DEF Found, start, n, db
  <2>2. \A p \in 0..n : \A q : q \in (IF p >= start THEN p ELSE start) .. n - db <=>
           q \in Nat /\ p <= q /\ start <= q /\ q + db <= n
    BY <1>0, <1>1, <1>2
  <2> SUFFICES ASSUME NEW p \in 0..n, NEW q
               PROVE  q \in Found(p) <=>
                         /\ q \in Nat /\ p <= q /\ start <= q /\ q + db <= n
                         /\ SubSeq(data, q + 1, q + db) = s.delimiter
    OBVIOUS
  <2> DEFINE lo == IF p >= start THEN p ELSE start
             Hit(x) == SubSeq(data, x + 1, x + db) = s.delimiter
  <2>3. Found(p) = {x \in lo .. n - db : Hit(x)}
    BY <2>1
  <2>4. q \in lo .. n - db <=> q \in Nat /\ p <= q /\ start <= q /\ q + db <= n
    BY <2>2
  <2> HIDE DEF lo, Hit
  <2>5. q \in Found(p) <=> q \in lo .. n - db /\ Hit(q)
    BY <2>3, Zenon
  <2> QED
    BY <2>4, <2>5, Zenon DEF Hit
<1>p. \A m : IsPackage(m, s) <=>
         /\ Len(m) >= db /\ SubSeq(m, Len(m) - db + 1, Len(m)) = s.delimiter
  BY DEF IsPackage, From
<1>u. hio_unpack_by_delimiter(data, Len(chunk), s) = Unpacked(Cut(data, end), 0, FALSE, FALSE)
  BY DEF hio_unpack_by_delimiter
<1> HIDE DEF end, Found, start, db
\* no delimiter ends in the old bytes
<1>5. ASSUME NEW q \in Nat, q + db <= Len(old), SubSeq(data, q + 1, q + db) = s.delimiter
      PROVE  FALSE
  <2> DEFINE j == q + db
             m == SubSeq(old, 1, j)
  <2>1. j \in 1..Len(old) /\ j \in 0..Len(old) /\ q \in 0..Len(old) /\ j \in q..Len(old)
        /\ q \in 0..j /\ j \in q..j /\ j - db = q
    BY <1>0, <1>1, <1>5
  <2>2. SubSeq(old, q + 1, j) = s.delimiter
    BY <1>0, <1>5, <2>1, SliceOfPrefix
  <2>3. m \in Seq(Byte) /\ Len(m) = j
    BY <1>0, <2>1, PrefixType
  <2>4. SubSeq(m, q + 1, j) = SubSeq(old, q + 1, j)
    <3> DEFINE z == 0
    <3>1. z \in Nat /\ j \in Nat /\ z <= j /\ j <= Len(old) /\ q <= j /\ z + j <= j
          /\ z + 1 = 1 /\ z + q + 1 = q + 1 /\ z + j = j
      BY <1>0, <2>1
    <3> HIDE DEF z, j
    <3>2. SubSeq(SubSeq(old, z + 1, j), q + 1, j) = SubSeq(old, z + q + 1, z + j)
      BY <1>0, <3>1, PartOfPart
    <3> QED
      BY <3>1, <3>2
  <2>6. j >= db
    BY <1>1
  <2> HIDE DEF m, j
  <2>7. Len(m) >= db /\ Len(m) - db + 1 = q + 1 /\ SubSeq(m, q + 1, Len(m)) = s.delimiter
    BY <2>1, <2>2, <2>3, <2>4, <2>6
  <2>5. IsPackage(m, s)
    BY <1>p, <2>7
  <2> QED
    BY <2>1, <2>5 DEF Parts, m
\* a prefix of what follows p that is a package has the delimiter at its end
<1>6. ASSUME NEW p \in 0..n, NEW j \in 0 .. n - p, IsPackage(SubSeq(data, p + 1, p + j), s)
      PROVE  j >= db /\ p + j - db \in Found(p)
  <2> DEFINE m == SubSeq(data, p + 1, p + j)
             q == p + j - db
  <2>1. p \in Nat /\ j \in Nat /\ p + j \in p..n /\ (p + j) - p = j
    BY <1>0
  <2>2. m \in Seq(Byte) /\ Len(m) = j
    BY <1>0, <2>1, Slice
  <2>3. j >= db /\ SubSeq(m, j - db + 1, j) = s.delimiter
    BY <1>6, <1>p, <2>2
  <2>4. j - db \in 0 .. (p + j) - p /\ j \in (j - db) .. (p + j) - p /\ p + (j - db) = q
        /\ q \in Nat /\ q + db = p + j /\ p <= q /\ q + db <= n
    BY <1>0, <1>1, <2>1, <2>3
  <2>5. SubSeq(data, q + 1, q + db) = s.delimiter
    <3> DEFINE x == j - db
               f == p + j
    <3>1. f \in Nat /\ x \in Nat /\ p <= f /\ f <= Len(data) /\ x <= j /\ p + j <= f
          /\ p + x = q /\ p + j = q + db
      BY <1>0, <1>1, <2>1, <2>3, <2>4
    <3>2. SubSeq(SubSeq(data, p + 1, f), x + 1, j) = s.delimiter
      BY <2>3
    <3> HIDE DEF x, f, q, m
    <3>3. SubSeq(SubSeq(data, p + 1, f), x + 1, j) = SubSeq(data, p + x + 1, p + j)
      BY SMTT(30), <1>0, <2>1, <3>1, PartOfPart
    <3> QED
      BY <3>1, <3>2, <3>3
  <2>6. start <= q
    <3>1. CASE start = 0
      BY <2>4, <3>1
    <3>2. CASE start = Len(old) - db + 1 /\ ~(start <= q)
      <4>1. q + db <= Len(old)
        BY <1>0, <1>1, <2>4, <3>2
      <4> QED
        BY <1>5, <2>4, <2>5, <4>1
    <3> QED
      BY <1>2, <3>1, <3>2
  <2> HIDE DEF q
  <2>7. q \in Found(p)
    BY <1>4, <2>4, <2>5, <2>6
  <2> QED
    BY <2>3, <2>7 DEF q
<1>7. ASSUME NEW p \in 0..n, Found(p) # {}
      PROVE  First(Found(p)) \in Found(p) /\ \A q \in Found(p) : First(Found(p)) <= q
  <2>1. Found(p) \in SUBSET Nat
    BY <1>4
  <2> QED
    BY <1>7, <2>1, FirstIs
<1>8. ASSUME NEW p \in 0..n PROVE end[p] \in 0..n /\ p <= end[p] /\ (end[p] = p <=> Found(p) = {})
  <2>1. CASE Found(p) = {}
    BY <1>3, <2>1
  <2>2. CASE Found(p) # {}
    <3> DEFINE q == First(Found(p))
    <3>1. q \in Nat /\ p <= q /\ q + db <= n
      BY <1>4, <1>7, <2>2
    <3>2. end[p] = q + db
      BY <1>3, <2>2
    <3> HIDE DEF q
    <3> QED
      BY <1>0, <1>1, <2>2, <3>1, <3>2
  <2> QED
    BY <2>1, <2>2
<1>9. Forward(data, end)
  <2>1. end \in [0..n -> 0..n]
    BY <1>3, <1>8
  <2> QED
    BY <1>8, <2>1 DEF Forward
<1>10. ASSUME NEW p \in 0..n, end[p] # p PROVE SubSeq(data, p + 1, end[p]) \in Wholes(s)
  <2> DEFINE q == First(Found(p))
             e == q + db
             m == SubSeq(data, p + 1, e)
  <2>1. Found(p) # {} /\ end[p] = e
    BY <1>3, <1>8, <1>10
  <2>2. q \in Found(p) /\ \A x \in Found(p) : q <= x
    BY <1>7, <2>1
  <2>3. q \in Nat /\ p <= q /\ e <= n /\ SubSeq(data, q + 1, e) = s.delimiter
    BY <1>4, <2>2
  <2> HIDE DEF q
  <2>4. p \in Nat /\ e \in p..n /\ e - p \in Nat /\ e - p >= db /\ e - p # 0
        /\ q - p \in 0 .. e - p /\ e - p \in (q - p) .. e - p /\ p + (q - p) = q
        /\ p + (e - p) = e /\ (e - p) - db = q - p
    BY <1>0, <1>1, <2>3
  <2>5. m \in Seq(Byte) /\ Len(m) = e - p
    BY SMTT(30), <1>0, <2>4, Slice
  <2>6. SubSeq(m, (q - p) + 1, e - p) = s.delimiter
    <3> DEFINE x == q - p
               y == e - p
    <3>1. x \in Nat /\ y \in Nat /\ e \in Nat /\ p <= e /\ e <= Len(data) /\ x <= y /\ p + y <= e
          /\ p + x = q /\ p + y = e
      BY <1>0, <1>1, <2>3, <2>4
    <3> HIDE DEF x, y, e
    <3>2. SubSeq(SubSeq(data, p + 1, e), x + 1, y) = SubSeq(data, p + x + 1, p + y)
      BY SMTT(30), <1>0, <2>4, <3>1, PartOfPart
    <3> QED
      BY <2>3, <3>1, <3>2 DEF x, y
  <2> HIDE DEF m, e
  <2>7. IsPackage(m, s) /\ m # << >>
    BY <1>p, <2>4, <2>5, <2>6
  <2>8. ASSUME NEW j \in 1 .. Len(m) - 1, IsPackage(SubSeq(m, 1, j), s) PROVE FALSE
    <3>1. j \in Nat /\ j < e - p /\ j \in 0 .. n - p /\ p + j < e
      BY <1>0, <2>4, <2>5
    <3>2. SubSeq(m, 1, j) = SubSeq(data, p + 1, p + j)
      <4> DEFINE z == 0
      <4>1. z \in Nat /\ e \in Nat /\ p <= e /\ e <= Len(data) /\ z <= j /\ p + j <= e
            /\ z + 1 = 1 /\ p + z + 1 = p + 1
        BY <1>0, <2>4, <3>1
      <4> HIDE DEF z
      <4>2. SubSeq(SubSeq(data, p + 1, e), z + 1, j) = SubSeq(data, p + z + 1, p + j)
        BY SMTT(30), <1>0, <2>4, <3>1, <4>1, PartOfPart
      <4> QED
        BY <4>1, <4>2 DEF m
    <3>3. p + j - db \in Found(p)
      BY <1>6, <2>8, <3>1, <3>2
    <3>4. q <= p + j - db
      BY <2>2, <3>3
    <3> QED
      BY <1>1, <2>3, <2>4, <3>1, <3>4
  <2> QED
    BY <2>1, <2>5, <2>7, <2>8 DEF Wholes, m
<1>11. ASSUME NEW p \in 0..n, end[p] = p PROVE From(data, p + 1) \in Parts(s)
  <2> DEFINE d == From(data, p + 1)
  <2>1. /\ d \in Seq(Byte) /\ Len(d) = n - p
        /\ \A j \in 0..Len(d) : SubSeq(d, 1, j) = SubSeq(data, p + 1, p + j)
    BY <1>0, RestOf
  <2>2. Found(p) = {}
    BY <1>8, <1>11
  <2> HIDE DEF d
  <2>3. ASSUME NEW j \in 1..Len(d) PROVE ~IsPackage(SubSeq(d, 1, j), s)
    <3>1. j \in 0..Len(d) /\ j \in 0 .. n - p
      BY <1>0, <2>1
    <3> QED
      BY <1>6, <2>1, <2>2, <3>1
  <2> QED
    BY <2>1, <2>3 DEF Parts, d
<1>12. Parts(s) \in SUBSET Seq(Byte)
  BY DEF Parts
<1> DEFINE c == Cut(data, end)
<1>13. c.msgs \in Seq(Wholes(s)) /\ c.rest \in Parts(s) /\ FlattenSeq(c.msgs) \o c.rest = data
  BY <1>0, <1>9, <1>10, <1>11, <1>12, CutWhole
<1> HIDE DEF c
<1> DEFINE u == Unpacked(c, 0, FALSE, FALSE)
<1>14. JustCut(data, u) /\ WellCut(s, u)
  BY <1>13, UnpackedWell
<1> QED
  BY <1>14, <1>u DEF c

-----------------------------------------------------------------------------
(* Lengths in the data: Number, varints and PackageLen.                    *)

\* f[i] is the number of the first i digits.
IsNumber(f, digits, base, n) ==
    f[0] = 0 /\ \A i \in 1..n : f[i] = f[i - 1] * base + digits[i]

LEMMA ScaledType ==
    \A x, y, z \in Nat : x * y + z \in Nat
  OBVIOUS

LEMMA NumberExists ==
    ASSUME NEW digits \in Seq(Nat), NEW base \in Nat, NEW n \in 0..Len(digits)
    PROVE  \E f \in [0..n -> Nat] : IsNumber(f, digits, base, n)
<1> DEFINE T == {m \in Nat : m <= Len(digits)
                             /\ ~ \E f \in [0..m -> Nat] : IsNumber(f, digits, base, m)}
<1>0. n \in Nat /\ n <= Len(digits)
  OBVIOUS
<1>1. SUFFICES ASSUME T # {} PROVE FALSE
  BY <1>0
<1>2. PICK m \in T : \A l \in T : m <= l
  BY <1>1, LeastNat
<1>a. m \in Nat /\ m <= Len(digits) /\ Len(digits) \in Nat
  OBVIOUS
<1>3. CASE m = 0
  <2> DEFINE z == [k \in 0..0 |-> 0]
  <2>1. z \in [0..m -> Nat] /\ IsNumber(z, digits, base, m)
    BY <1>3 DEF IsNumber
  <2> QED
    BY <2>1
<1>4. CASE m # 0
  <2>1. m - 1 \in Nat /\ m - 1 \notin T /\ m - 1 <= Len(digits)
    <3> HIDE DEF T
    <3> QED
      BY <1>2, <1>4, <1>a
  <2>2. PICK p \in [0..(m - 1) -> Nat] : IsNumber(p, digits, base, m - 1)
    BY <2>1
  <2> DEFINE v == p[m - 1] * base + digits[m]
             q == [k \in 0..m |-> IF k = m THEN v ELSE p[k]]
  <2>3. v \in Nat
    <3>1. m - 1 \in 0..(m - 1) /\ m \in 1..Len(digits)
      BY <1>4, <1>a, <2>1
    <3>2. p[m - 1] \in Nat /\ digits[m] \in Nat
      BY <3>1
    <3> QED
      BY <3>2, ScaledType
  <2>4. \A k \in 0..m : k # m => k \in 0..(m - 1) /\ p[k] \in Nat
    BY <2>1
  <2> HIDE DEF v
  <2>5. q \in [0..m -> Nat]
    BY <2>3, <2>4
  <2>6. q[0] = 0
    BY <1>4, <1>a, <2>2 DEF IsNumber
  <2>7. ASSUME NEW k \in 1..m PROVE q[k] = q[k - 1] * base + digits[k]
    <3>1. k - 1 \in 0..m /\ k - 1 # m /\ k \in 0..m /\ q[k - 1] = p[k - 1]
      BY <1>a
    <3>2. CASE k = m
      BY <3>1, <3>2 DEF v
    <3>3. CASE k # m
      <4>1. k \in 1..(m - 1)
        BY <1>a, <3>3
      <4> QED
        BY <2>2, <3>1, <3>3, <4>1 DEF IsNumber
    <3> QED
      BY <3>2, <3>3
  <2> HIDE DEF q
  <2>8. IsNumber(q, digits, base, m)
    BY <2>6, <2>7 DEF IsNumber
  <2> QED
    BY <2>5, <2>8
<1> QED
  BY <1>3, <1>4

LEMMA NumberType ==
    ASSUME NEW digits \in Seq(Nat), NEW base \in Nat
    PROVE  Number(digits, base) \in Nat
<1> DEFINE n == Len(digits)
           Eq(g) == g = [i \in 0..n |-> IF i = 0 THEN 0 ELSE g[i - 1] * base + digits[i]]
           c == CHOOSE g : Eq(g)
<1>0. n \in Nat /\ n \in 0..n
  OBVIOUS
<1>1. PICK f \in [0..n -> Nat] : IsNumber(f, digits, base, n)
  BY <1>0, NumberExists
<1>2. Eq(f)
  <2>1. ASSUME NEW i \in 0..n
        PROVE  f[i] = IF i = 0 THEN 0 ELSE f[i - 1] * base + digits[i]
    <3>1. i # 0 => i \in 1..n
      BY <1>0
    <3> QED
      BY <1>1, <3>1 DEF IsNumber
  <2>2. f = [i \in 0..n |-> f[i]]
    OBVIOUS
  <2> QED
    BY <2>1, <2>2
<1>3. Eq(c)
  BY <1>2
<1>4. Number(digits, base) = c[n]
  BY DEF Number
<1> HIDE DEF c
<1> DEFINE T == {i \in Nat : i <= n /\ c[i] \notin Nat}
<1>5. T = {}
  <2>1. SUFFICES ASSUME T # {} PROVE FALSE
    OBVIOUS
  <2>2. PICK m \in T : \A l \in T : m <= l
    BY <2>1, LeastNat
  <2>3. m \in Nat /\ m <= n /\ c[m] \notin Nat /\ m \in 0..n
    BY <1>0
  <2>4. CASE m = 0
    BY <1>3, <2>3, <2>4
  <2>5. CASE m # 0
    <3>1. m - 1 \in Nat /\ m - 1 \notin T /\ m - 1 <= n /\ m \in 1..n
      <4> HIDE DEF T
      <4> QED
        BY <1>0, <2>2, <2>3, <2>5
    <3>2. c[m - 1] \in Nat /\ digits[m] \in Nat
      BY <3>1
    <3>3. c[m] = c[m - 1] * base + digits[m]
      BY <1>3, <2>3, <2>5
    <3> QED
      BY SMTT(30), <2>3, <3>2, <3>3
  <2> QED
    BY <2>4, <2>5
<1> QED
  BY <1>0, <1>4, <1>5

LEMMA FieldValueType ==
    ASSUME NEW field \in Seq(Byte), NEW coding \in {"BIG_ENDIAN", "LITTLE_ENDIAN", "VARINT"}
    PROVE  FieldValue(field, coding) \in Nat
<1> DEFINE half == ByteBase \div 2
           rev == Reverse(field)
           low == [i \in DOMAIN field |-> rev[i] % half]
           n == Len(field)
<1>1. ByteBase \in Nat /\ half \in Nat \ {0} /\ Byte \subseteq Nat
  BY UnpackAssumption DEF Byte
<1>a. field \in Seq(Nat)
  BY <1>1, WiderSeq
<1>2. field \in Seq(Nat) /\ n \in Nat /\ DOMAIN field = 1..n
  BY <1>a
<1>3. rev \in [1..n -> Nat]
  <2>1. \A i \in 1..n : (n - i) + 1 \in 1..n /\ field[(n - i) + 1] \in Nat
    BY <1>2
  <2> QED
    BY <2>1 DEF Reverse
<1> HIDE DEF rev, half
<1>4. low \in [1..n -> Nat]
  <2>1. \A i \in 1..n : rev[i] % half \in Nat
    BY <1>1, <1>3
  <2> QED
    BY <1>2, <2>1
<1> HIDE DEF low, n
<1>5. rev \in Seq(Nat) /\ low \in Seq(Nat)
  BY <1>2, <1>3, <1>4
<1>6. /\ Number(field, ByteBase) \in Nat /\ Number(rev, ByteBase) \in Nat
      /\ Number(low, half) \in Nat
  BY <1>1, <1>2, <1>5, NumberType
<1> QED
  BY <1>6 DEF FieldValue, rev, low, half

LEMMA ModFacts ==
    ASSUME NEW M \in Nat \ {0}, NEW a \in Int
    PROVE  /\ a % M \in 0 .. M - 1 /\ a \div M \in Int /\ a = M * (a \div M) + (a % M)
           /\ a \in 0 .. M - 1 => a % M = a
  OBVIOUS

\* Reducing a part of a sum first makes no difference.
LEMMA ModLaw ==
    ASSUME NEW M \in Nat \ {0}, NEW E \in Nat, NEW h \in Int, NEW x \in Int,
           h + E + x \in 0 .. M - 1
    PROVE  (h + (E % M) + x) % M = h + E + x
<1> DEFINE q == E \div M
           y == h + (E % M) + x
           k == y \div M
           r == y % M
<1>1. q \in Int /\ E = M * q + (E % M) /\ E % M \in 0 .. M - 1
  BY ModFacts
<1> DEFINE g == E % M
<1>2. y \in Int /\ h + E + x = M * q + y
  <2> HIDE DEF q, g
  <2>1. M * q \in Int /\ g \in Int /\ E = M * q + g
    BY <1>1 DEF q, g
  <2>2. h + g + x \in Int /\ h + E + x = M * q + (h + g + x)
    BY <2>1
  <2> QED
    BY <2>2 DEF g, q
<1> HIDE DEF q, y
<1>3. k \in Int /\ y = M * k + r /\ r \in 0 .. M - 1
  BY <1>2, ModFacts
<1> HIDE DEF k, r
<1> DEFINE j == q + k
<1>4. j \in Int /\ M * j = M * q + M * k
  BY <1>1, <1>3
<1>5. M * q \in Int /\ M * k \in Int /\ M * j \in Int
  BY <1>1, <1>3, <1>4
<1>6. -M < M * j /\ M * j < M /\ h + E + x = M * j + r
  <2> DEFINE a == M * q
             b == M * k
             e == M * j
             z == h + E + x
  <2>1. a \in Int /\ b \in Int /\ e = a + b /\ z = a + y /\ y = b + r /\ r \in 0 .. M - 1
        /\ z \in 0 .. M - 1
    BY <1>2, <1>3, <1>4, <1>5
  <2> HIDE DEF a, b, e, z
  <2>2. -M < e /\ e < M /\ z = e + r
    BY <2>1
  <2> QED
    BY <2>2 DEF e, z
<1>7. j = 0
  <2> HIDE DEF j
  <2> QED
    BY <1>4, <1>6
<1>8. M * j = 0
  BY <1>7
<1>9. h + E + x = r
  BY <1>3, <1>6, <1>8
<1> QED
  BY <1>9 DEF r, y

\* how many bytes a varint takes, and that it is known from its bytes alone
LEMMA VarintLaw ==
    ASSUME NEW b \in Seq(Byte), NEW k \in 0..Len(b)
    PROVE  /\ VarintBytes(b) \in {-1, 0} \cup 1..Len(b)
           /\ VarintBytes(SubSeq(b, 1, k)) > 0 => VarintBytes(b) = VarintBytes(SubSeq(b, 1, k))
           /\ VarintBytes(b) > 0 /\ VarintBytes(b) <= k =>
                 VarintBytes(SubSeq(b, 1, k)) = VarintBytes(b)
<1> DEFINE c == SubSeq(b, 1, k)
           E == {i \in 1..Least(Len(b), VarintMax) : b[i] < ByteBase \div 2}
           F == {i \in 1..Least(Len(c), VarintMax) : c[i] < ByteBase \div 2}
<1>0. VarintMax \in Nat /\ Len(b) \in Nat /\ k \in Nat /\ k <= Len(b)
  BY UnpackAssumption
<1>1. c \in Seq(Byte) /\ Len(c) = k /\ \A i \in 1..k : c[i] = b[i]
  BY PrefixType
<1>2. /\ VarintBytes(b) = IF E # {} THEN First(E) ELSE IF Len(b) < VarintMax THEN 0 ELSE -1
      /\ VarintBytes(c) = IF F # {} THEN First(F) ELSE IF Len(c) < VarintMax THEN 0 ELSE -1
  BY DEF VarintBytes
<1> HIDE DEF c
<1>3. \A i : i \in E <=> i \in Nat /\ 1 <= i /\ i <= Len(b) /\ i <= VarintMax /\ b[i] < ByteBase \div 2
  BY <1>0 DEF Least
<1>4. \A i : i \in F <=> i \in Nat /\ 1 <= i /\ i <= k /\ i <= VarintMax /\ c[i] < ByteBase \div 2
  BY <1>0, <1>1 DEF Least
<1> HIDE DEF E, F
<1>5. \A i : i \in F <=> i \in E /\ i <= k
  <2>1. \A i \in Nat : 1 <= i /\ i <= k => i \in 1..k /\ i <= Len(b)
    BY <1>0
  <2> QED
    BY <1>1, <1>3, <1>4, <2>1
<1>6. E # {} => First(E) \in E /\ \A j \in E : First(E) <= j
  <2>1. E \in SUBSET Nat
    BY <1>3
  <2> QED
    BY <2>1, FirstIs
<1>7. F # {} => First(F) \in F /\ \A j \in F : First(F) <= j
  <2>1. F \in SUBSET Nat
    BY <1>4
  <2> QED
    BY <2>1, FirstIs
<1>8. E # {} => First(E) \in 1..Len(b)
  BY <1>0, <1>3, <1>6
<1>9. F # {} => E # {} /\ First(E) = First(F)
  <2>1. SUFFICES ASSUME F # {} PROVE E # {} /\ First(E) = First(F)
    OBVIOUS
  <2>2. First(F) \in E /\ First(F) \in Nat /\ First(F) <= k
    BY <1>4, <1>5, <1>7, <2>1
  <2>3. First(E) \in E /\ First(E) <= First(F) /\ First(E) \in Nat
    BY <1>3, <1>6, <2>2
  <2>4. First(E) \in F
    BY <1>0, <1>5, <2>2, <2>3
  <2>5. First(F) <= First(E)
    BY <1>7, <2>4
  <2> QED
    BY <2>2, <2>3, <2>5
<1>10. E # {} /\ First(E) <= k => F # {}
  BY <1>5, <1>6
<1> DEFINE x == VarintBytes(b)
           y == VarintBytes(c)
           e == First(E)
           f == First(F)
<1>11. /\ (E # {} => x = e) /\ (E = {} => x = 0 \/ x = -1)
       /\ (F # {} => y = f) /\ (F = {} => y = 0 \/ y = -1)
  BY <1>2
<1> HIDE DEF x, y, e, f
<1>12. /\ x \in {-1, 0} \cup 1..Len(b) /\ (y > 0 => x = y) /\ (x > 0 /\ x <= k => y = x)
  <2>1. /\ (E # {} => e \in 1..Len(b)) /\ (F # {} => E # {} /\ e = f)
        /\ (E # {} /\ e <= k => F # {})
    BY <1>8, <1>9, <1>10 DEF e, f
  <2> QED
    BY <1>11, <2>1
<1> QED
  BY <1>12 DEF x, y, c

\* A setting of the mode UNPACK_BY_LENGTH_FIELD.
LengthSetting(s) ==
    /\ s.mode = "LENGTH_FIELD"
    /\ s.coding \in {"BIG_ENDIAN", "LITTLE_ENDIAN", "VARINT"}
    /\ s.length_field_offset \in Nat /\ s.length_field_bytes \in Nat \ {0}
    /\ s.body_offset \in Nat /\ s.length_adjustment \in Int
    /\ s.body_offset >= s.length_field_offset + s.length_field_bytes
    /\ s.coding = "VARINT" => s.length_field_bytes = 1

\* The length field lies within the head, and the package holds both when its
\* length fits; then package_len is what was stated.
LEMMA LengthType ==
    ASSUME NEW s, LengthSetting(s), NEW d \in Seq(Byte), Len(d) >= s.body_offset
    PROVE  /\ FieldBytes(d, s) \in Int
           /\ FieldBytes(d, s) > 0 =>
                /\ s.length_field_offset + FieldBytes(d, s) <= Len(d)
                /\ PackageLen(d, s) \in Nat
                /\ LengthFits(d, s) =>
                     /\ PackageLen(d, s) = StatedLen(d, s)
                     /\ PackageLen(d, s) \in Nat \ {0} /\ PackageLen(d, s) >= s.body_offset
                     /\ PackageLen(d, s) >= s.length_field_offset + FieldBytes(d, s)
<1> DEFINE off == s.length_field_offset
           lfb == s.length_field_bytes
           bytes == FieldBytes(d, s)
           field == SubSeq(d, off + 1, off + bytes)
           val == FieldValue(field, s.coding)
           head == HeadLen(d, s)
           adj == s.length_adjustment
           n == Len(d)
<1>0. off \in Nat /\ lfb \in Nat \ {0} /\ s.body_offset \in Nat /\ adj \in Int
      /\ s.body_offset >= off + lfb /\ n \in Nat /\ n >= s.body_offset /\ LenMod \in Nat \ {0}
  BY UnpackAssumption DEF LengthSetting
<1>1. /\ head = s.body_offset + bytes - lfb
      /\ StatedLen(d, s) = head + val + adj
      /\ PackageLen(d, s) = (head + (val % LenMod) + adj) % LenMod
      /\ LengthFits(d, s) <=> StatedLen(d, s) \in head .. LenMod - 1
  BY DEF PackageLen, StatedLen, HeadLen, LengthField, Decoded, LengthFits
<1>2. bytes \in Int /\ (bytes > 0 => off + bytes <= n /\ bytes >= lfb)
  <2>1. CASE s.coding = "VARINT"
    <3> DEFINE r == From(d, off + 1)
    <3>1. off \in 0..Len(d)
      BY <1>0
    <3>2. r \in Seq(Byte) /\ Len(r) = Len(d) - off /\ Len(r) \in Nat
      BY <3>1, RestOf
    <3>3. bytes = VarintBytes(r) /\ lfb = 1
      BY <2>1 DEF FieldBytes, LengthSetting
    <3> HIDE DEF r, bytes, off, lfb
    <3>4. 0 \in 0..Len(r)
      BY <3>2
    <3>5. VarintBytes(r) \in {-1, 0} \cup 1..Len(r)
      BY <3>2, <3>4, VarintLaw
    <3> QED
      BY <1>0, <3>2, <3>3, <3>5
  <2>2. CASE s.coding # "VARINT"
    <3>1. bytes = lfb
      BY <2>2 DEF FieldBytes
    <3> HIDE DEF bytes, off, lfb
    <3> QED
      BY <1>0, <3>1
  <2> QED
    BY <2>1, <2>2
<1> HIDE DEF bytes
<1>3. ASSUME bytes > 0 PROVE val \in Nat
  <2>1. off \in 0..n /\ off + bytes \in off..n
    BY <1>0, <1>2, <1>3
  <2> DEFINE e == off + bytes
  <2> HIDE DEF e, off
  <2>2. SubSeq(d, off + 1, e) \in Seq(Byte)
    BY <2>1, Slice DEF e
  <2>3. field \in Seq(Byte) /\ s.coding \in {"BIG_ENDIAN", "LITTLE_ENDIAN", "VARINT"}
    BY <2>2 DEF e, LengthSetting
  <2> HIDE DEF field
  <2> QED
    BY <2>3, FieldValueType
<1> HIDE DEF val, off, lfb, n, head, adj
<1>4. ASSUME bytes > 0
      PROVE  head \in Nat \ {0} /\ head >= s.body_offset /\ head >= off + bytes
  BY <1>0, <1>1, <1>2, <1>4
<1>5. ASSUME bytes > 0 PROVE PackageLen(d, s) \in Nat
  <2>0. val \in Int /\ LenMod \in Nat \ {0}
    BY <1>3, <1>5, UnpackAssumption
  <2>1. val % LenMod \in 0 .. LenMod - 1
    BY <2>0, ModFacts
  <2> DEFINE y == head + (val % LenMod) + adj
  <2>2. y \in Int
    BY <1>0, <1>4, <1>5, <2>1
  <2> HIDE DEF y
  <2>3. y % LenMod \in 0 .. LenMod - 1
    BY <1>0, <2>2, ModFacts
  <2>4. y % LenMod \in Nat
    BY <1>0, <2>3
  <2> QED
    BY <1>1, <2>4 DEF y
<1>6. ASSUME bytes > 0, LengthFits(d, s)
      PROVE  /\ PackageLen(d, s) = StatedLen(d, s)
             /\ PackageLen(d, s) \in Nat \ {0} /\ PackageLen(d, s) >= s.body_offset
             /\ PackageLen(d, s) >= off + bytes
  <2>1. head + val + adj \in head .. LenMod - 1
    BY <1>1, <1>6
  <2>2. head + val + adj \in 0 .. LenMod - 1 /\ val \in Nat /\ head \in Int /\ head + val + adj >= head
    BY <1>0, <1>3, <1>4, <1>6, <2>1
  <2>3. (head + (val % LenMod) + adj) % LenMod = head + val + adj
    BY <1>0, <2>2, ModLaw
  <2>4. PackageLen(d, s) = StatedLen(d, s) /\ PackageLen(d, s) = head + val + adj
    BY <1>1, <2>3
  <2> DEFINE L == PackageLen(d, s)
  <2>5. L \in Int /\ L >= head
    BY <1>0, <2>2, <2>4
  <2> HIDE DEF L
  <2>6. L \in Nat \ {0} /\ L >= s.body_offset /\ L >= off + bytes
    BY <1>0, <1>2, <1>4, <1>6, <2>5
  <2> QED
    BY <2>4, <2>6 DEF L
<1>7. bytes > 0 => off + bytes <= n
  BY <1>2
<1> QED
  BY <1>2, <1>5, <1>6, <1>7 DEF bytes, off, n

\* The length of a package is known from the bytes of its length field.
LEMMA LengthPrefix ==
    ASSUME NEW s, LengthSetting(s), NEW d \in Seq(Byte), NEW j \in 0..Len(d), j >= s.body_offset
    PROVE  LET m == SubSeq(d, 1, j) IN
           /\ FieldBytes(m, s) > 0 =>
                FieldBytes(d, s) = FieldBytes(m, s) /\ StatedLen(d, s) = StatedLen(m, s)
           /\ FieldBytes(d, s) > 0 /\ s.length_field_offset + FieldBytes(d, s) <= j =>
                FieldBytes(d, s) = FieldBytes(m, s) /\ StatedLen(d, s) = StatedLen(m, s)
<1> DEFINE m == SubSeq(d, 1, j)
           off == s.length_field_offset
           x == FieldBytes(d, s)
           y == FieldBytes(m, s)
<1>0. off \in Nat /\ s.body_offset \in Nat /\ s.length_field_bytes \in Nat \ {0}
      /\ s.body_offset >= off + s.length_field_bytes
      /\ Len(d) \in Nat /\ j \in Nat /\ j <= Len(d) /\ off <= j
  BY DEF LengthSetting
<1>1. m \in Seq(Byte) /\ Len(m) = j
  BY PrefixType
<1>2. y \in Int /\ (y > 0 => off + y <= j)
  <2>1. Len(m) >= s.body_offset
    BY <1>1
  <2> HIDE DEF m
  <2> QED
    BY <1>1, <2>1, LengthType
<1>3. (y > 0 => x = y) /\ (x > 0 /\ off + x <= j => x = y)
  <2>1. CASE s.coding = "VARINT"
    <3> DEFINE b == From(d, off + 1)
               k == j - off
               z == 0
    <3>1. off \in 0..Len(d) /\ k \in Nat /\ z \in Nat /\ z <= j /\ j <= Len(d) /\ off <= j
          /\ z + j <= j /\ z + 1 = 1 /\ z + off + 1 = off + 1 /\ z + j = j /\ off + k = j
      BY <1>0
    <3>2. /\ b \in Seq(Byte) /\ Len(b) = Len(d) - off
          /\ \A i \in 0..Len(b) : SubSeq(b, 1, i) = SubSeq(d, off + 1, off + i)
      BY <3>1, RestOf
    <3>3. k \in 0..Len(b)
      BY <1>0, <3>1, <3>2
    <3>4. From(m, off + 1) = SubSeq(b, 1, k)
      <4> HIDE DEF z, k, off, b
      <4>1. SubSeq(SubSeq(d, z + 1, j), off + 1, j) = SubSeq(d, z + off + 1, z + j)
        BY <1>0, <3>1, PartOfPart
      <4>2. From(m, off + 1) = SubSeq(m, off + 1, j)
        BY <1>1 DEF From
      <4> QED
        BY <3>1, <3>2, <3>3, <4>1, <4>2
    <3>5. x = VarintBytes(b) /\ y = VarintBytes(From(m, off + 1))
      BY <2>1 DEF FieldBytes
    <3> HIDE DEF b, k, m, x, y
    <3>6. /\ VarintBytes(b) \in {-1, 0} \cup 1..Len(b)
          /\ VarintBytes(SubSeq(b, 1, k)) > 0 => VarintBytes(b) = VarintBytes(SubSeq(b, 1, k))
          /\ VarintBytes(b) > 0 /\ VarintBytes(b) <= k =>
                 VarintBytes(SubSeq(b, 1, k)) = VarintBytes(b)
      BY <3>2, <3>3, VarintLaw
    <3>a. Len(b) \in Nat /\ y = VarintBytes(SubSeq(b, 1, k))
      <4>1. y = VarintBytes(SubSeq(b, 1, k))
        BY <3>4, <3>5, Zenon
      <4>2. Len(b) \in Nat
        BY <3>2
      <4> QED
        BY <4>1, <4>2, Zenon
    <3>b. x \in {-1, 0} \cup 1..Len(b) /\ (y > 0 => x = y) /\ (x > 0 /\ x <= k => y = x)
      BY <3>5, <3>6, <3>a
    <3>7. x \in Int /\ (y > 0 => x = y) /\ (x > 0 /\ x <= k => x = y)
      BY <3>a, <3>b
    <3>8. x \in Int /\ off + x <= j => x <= k
      BY <1>0, <3>1
    <3> QED
      BY <3>7, <3>8
  <2>2. CASE s.coding # "VARINT"
    BY <2>2 DEF FieldBytes
  <2> QED
    BY <2>1, <2>2
<1>4. ASSUME x = y, y > 0 PROVE StatedLen(d, s) = StatedLen(m, s)
  <2> DEFINE z == 0
             e == off + y
  <2>1. z \in Nat /\ e \in Nat /\ z <= j /\ j <= Len(d) /\ off <= e /\ z + e <= j
        /\ z + 1 = 1 /\ z + off + 1 = off + 1 /\ z + e = e
    BY <1>0, <1>2, <1>4
  <2>2. SubSeq(m, off + 1, e) = SubSeq(d, off + 1, e)
    <3> HIDE DEF z, e, off
    <3>1. SubSeq(SubSeq(d, z + 1, j), off + 1, e) = SubSeq(d, z + off + 1, z + e)
      BY <1>0, <2>1, PartOfPart
    <3> QED
      BY <2>1, <3>1
  <2>3. /\ StatedLen(d, s) = s.body_offset + x - s.length_field_bytes
              + FieldValue(SubSeq(d, off + 1, off + x), s.coding) + s.length_adjustment
        /\ StatedLen(m, s) = s.body_offset + y - s.length_field_bytes
              + FieldValue(SubSeq(m, off + 1, off + y), s.coding) + s.length_adjustment
    BY DEF StatedLen, HeadLen, LengthField
  <2> HIDE DEF x, y, m, off
  <2> QED
    BY <1>4, <2>2, <2>3 DEF e
<1> HIDE DEF x, y, off
<1>5. (y > 0 => x = y /\ StatedLen(d, s) = StatedLen(m, s))
      /\ (x > 0 /\ off + x <= j => x = y /\ StatedLen(d, s) = StatedLen(m, s))
  BY <1>3, <1>4
<1> QED
  BY <1>5 DEF x, y, off

\* The first package of d, when there is one, ends behind PackageLen bytes.
LEMMA LengthPackage ==
    ASSUME NEW s, LengthSetting(s), NEW d \in Seq(Byte), NEW j \in 1..Len(d),
           LengthThere(d, s) => LengthFits(d, s)
    PROVE  IsPackage(SubSeq(d, 1, j), s) <=> LengthThere(d, s) /\ PackageLen(d, s) = j
<1> DEFINE m == SubSeq(d, 1, j)
           x == FieldBytes(d, s)
           y == FieldBytes(m, s)
           off == s.length_field_offset
<1>0. Len(d) \in Nat /\ j \in Nat /\ j <= Len(d) /\ j \in 0..Len(d) /\ s.body_offset \in Nat
      /\ off \in Nat
  BY DEF LengthSetting
<1>1. m \in Seq(Byte) /\ Len(m) = j
  BY <1>0, PrefixType
<1>2. IsPackage(m, s) <=> j >= s.body_offset /\ y > 0 /\ j = StatedLen(m, s)
  BY <1>1 DEF IsPackage, LengthThere, LengthSetting
<1>3. LengthThere(d, s) <=> Len(d) >= s.body_offset /\ x > 0
  BY DEF LengthThere
<1>4. LengthThere(d, s) =>
         /\ PackageLen(d, s) = StatedLen(d, s)
         /\ PackageLen(d, s) >= s.body_offset /\ PackageLen(d, s) >= off + x
  BY <1>3, LengthType
<1>5. j >= s.body_offset =>
         /\ y > 0 => x = y /\ StatedLen(d, s) = StatedLen(m, s)
         /\ x > 0 /\ off + x <= j => x = y /\ StatedLen(d, s) = StatedLen(m, s)
  BY <1>0, LengthPrefix
<1>x. x \in Int \/ ~(Len(d) >= s.body_offset)
  BY LengthType
<1> HIDE DEF x, y, m, off
<1>6. ASSUME IsPackage(m, s) PROVE LengthThere(d, s) /\ PackageLen(d, s) = j
  <2>1. LengthThere(d, s)
    BY <1>0, <1>2, <1>3, <1>5, <1>6
  <2> QED
    BY <1>2, <1>4, <1>5, <1>6, <2>1
<1>7. ASSUME LengthThere(d, s), PackageLen(d, s) = j PROVE IsPackage(m, s)
  <2>1. j >= s.body_offset /\ off + x <= j /\ x > 0
    BY <1>0, <1>3, <1>4, <1>7, <1>x
  <2> QED
    BY <1>2, <1>4, <1>5, <1>7, <2>1
<1> QED
  BY <1>6, <1>7 DEF m

LEMMA LengthCut ==
    ASSUME NEW s, LengthSetting(s), NEW data \in Seq(Byte)
    PROVE  LET u == hio_unpack_by_length_field(data, s) IN
           JustCut(data, u) /\ (~Misread(data, s) => WellCut(s, u))
<1> DEFINE n == Len(data)
           D(p) == From(data, p + 1)
           There(p) == LengthThere(D(p), s) /\ PackageLen(D(p), s) <= Len(D(p))
           Fit(p) == LengthThere(D(p), s) => LengthFits(D(p), s)
           end == LengthEnd(data, s)
<1>0. n \in Nat
  OBVIOUS
<1>1. end = [p \in 0..n |-> IF There(p) THEN p + PackageLen(D(p), s) ELSE p]
  BY DEF LengthEnd
<1>2. ASSUME NEW p \in 0..n
      PROVE  /\ D(p) \in Seq(Byte) /\ Len(D(p)) = n - p /\ Len(D(p)) \in Nat
             /\ \A j \in 0..Len(D(p)) : SubSeq(D(p), 1, j) = SubSeq(data, p + 1, p + j)
             /\ There(p) => PackageLen(D(p), s) \in 0..Len(D(p))
             /\ Fit(p) /\ LengthThere(D(p), s) => PackageLen(D(p), s) # 0
  <2> DEFINE d == D(p)
  <2>1. /\ d \in Seq(Byte) /\ Len(d) = n - p /\ Len(d) \in Nat
        /\ \A j \in 0..Len(d) : SubSeq(d, 1, j) = SubSeq(data, p + 1, p + j)
    BY RestOf
  <2> HIDE DEF d
  <2>2. LengthThere(d, s) => /\ PackageLen(d, s) \in Nat
                             /\ LengthFits(d, s) => PackageLen(d, s) # 0
    BY <2>1, LengthType DEF LengthThere
  <2>3. /\ LengthThere(d, s) /\ PackageLen(d, s) <= Len(d) => PackageLen(d, s) \in 0..Len(d)
        /\ LengthThere(d, s) /\ LengthFits(d, s) => PackageLen(d, s) # 0
    BY <2>1, <2>2
  <2> QED
    BY <2>1, <2>3 DEF d
<1> HIDE DEF D, end
<1>3. ASSUME NEW p \in 0..n
      PROVE  /\ end[p] \in 0..n /\ p <= end[p]
             /\ end[p] # p => There(p) /\ PackageLen(D(p), s) # 0
             /\ end[p] = p => ~There(p) \/ PackageLen(D(p), s) = 0
             /\ There(p) => end[p] = p + PackageLen(D(p), s)
  <2> DEFINE L == PackageLen(D(p), s)
  <2>1. end[p] = IF There(p) THEN p + L ELSE p
    BY <1>1
  <2>2. There(p) => L \in 0 .. n - p
    BY <1>2
  <2> HIDE DEF L, There
  <2>3. /\ end[p] \in 0..n /\ p <= end[p]
        /\ end[p] # p => There(p) /\ L # 0
        /\ end[p] = p => ~There(p) \/ L = 0
        /\ There(p) => end[p] = p + L
    BY <1>0, <2>1, <2>2
  <2> QED
    BY <2>3 DEF L
<1> HIDE DEF There
<1>4. Forward(data, end)
  <2>1. end \in [0..n -> 0..n]
    BY <1>1, <1>3
  <2> QED
    BY <1>3, <2>1 DEF Forward
<1>5. ASSUME NEW p \in 0..n, Fit(p), end[p] # p
      PROVE  SubSeq(data, p + 1, end[p]) \in Wholes(s)
  <2> DEFINE d == D(p)
             L == PackageLen(d, s)
             m == SubSeq(d, 1, L)
  <2>1. There(p) /\ end[p] = p + L /\ L # 0
    BY <1>3, <1>5
  <2>2. d \in Seq(Byte) /\ Len(d) \in Nat /\ L \in 1..Len(d) /\ L \in 0..Len(d) /\ LengthThere(d, s)
        /\ LengthFits(d, s)
        /\ \A j \in 0..Len(d) : SubSeq(d, 1, j) = SubSeq(data, p + 1, p + j)
    <3>1. L \in 0..Len(d) /\ L # 0 => L \in 1..Len(d)
      OBVIOUS
    <3> QED
      BY <1>2, <1>5, <2>1, <3>1 DEF There, Fit
  <2>3. m = SubSeq(data, p + 1, end[p])
    BY <2>1, <2>2
  <2> DEFINE l == L
  <2> HIDE DEF d, L, l
  <2>a. l = PackageLen(d, s) /\ l \in 1..Len(d) /\ l \in 0..Len(d) /\ l \in Nat
    BY <2>2 DEF l, L
  <2>4. m \in Seq(Byte) /\ Len(m) = l
    BY <2>2, PrefixType DEF l
  <2>5. IsPackage(m, s)
    BY <2>2, <2>a, LengthPackage DEF l
  <2>6. ASSUME NEW j \in 1 .. Len(m) - 1 PROVE ~IsPackage(SubSeq(m, 1, j), s)
    <3>1. j \in 1..Len(d) /\ j # l /\ j \in Nat /\ j <= l /\ l <= Len(d)
      BY <2>2, <2>4, <2>a
    <3>2. ~IsPackage(SubSeq(d, 1, j), s)
      BY <2>2, <2>a, <3>1, LengthPackage
    <3> DEFINE z == 0
    <3>3. z \in Nat /\ z <= l /\ z <= j /\ z + j <= l /\ z + 1 = 1 /\ z + z + 1 = 1 /\ z + j = j
      BY <2>a, <3>1
    <3> HIDE DEF z
    <3>4. SubSeq(SubSeq(d, z + 1, l), z + 1, j) = SubSeq(d, z + z + 1, z + j)
      BY <2>2, <2>a, <3>1, <3>3, PartOfPart
    <3> QED
      BY <3>2, <3>3, <3>4 DEF l
  <2>7. m # << >>
    BY <2>4, <2>a
  <2> HIDE DEF m
  <2> QED
    BY <2>3, <2>4, <2>5, <2>6, <2>7 DEF Wholes
<1> DEFINE R == {r \in Parts(s) : LengthThere(r, s) => PackageLen(r, s) # 0}
<1>6. ASSUME NEW p \in 0..n, Fit(p), end[p] = p PROVE From(data, p + 1) \in R
  <2> DEFINE d == D(p)
  <2>1. d \in Seq(Byte) /\ Len(d) \in Nat /\ (LengthThere(d, s) => LengthFits(d, s))
        /\ (LengthThere(d, s) => PackageLen(d, s) # 0)
    BY <1>2, <1>6 DEF Fit
  <2>4. ~There(p)
    BY <1>3, <1>6, <2>1 DEF There
  <2>2. ASSUME NEW j \in 1..Len(d), IsPackage(SubSeq(d, 1, j), s) PROVE FALSE
    <3> HIDE DEF d
    <3>1. LengthThere(d, s) /\ PackageLen(d, s) = j
      BY <2>1, <2>2, LengthPackage
    <3> QED
      BY <2>1, <2>2, <2>4, <3>1 DEF There, d
  <2> HIDE DEF d
  <2>3. d \in R
    BY <2>1, <2>2 DEF Parts
  <2> QED
    BY <2>3 DEF d, D
<1>7. R \in SUBSET Seq(Byte) /\ Wholes(s) \in SUBSET Seq(Byte) /\ R \subseteq Parts(s)
      /\ Pieces \in SUBSET Seq(Byte)
  BY DEF Parts, Wholes, Pieces
<1> DEFINE c == Cut(data, end)
           rest == c.rest
           msgs == c.msgs
           len == IF LengthThere(rest, s) THEN PackageLen(rest, s)
                  ELSE IF msgs = << >> THEN s.body_offset ELSE Len(Last(msgs))
           bad == Len(rest) >= s.body_offset /\ FieldBytes(rest, s) = -1
           endless == LengthThere(rest, s) /\ len = 0
           u == Unpacked(c, len, bad, endless)
<1>8. msgs \in Seq(Pieces) /\ rest \in Seq(Byte) /\ FlattenSeq(msgs) \o rest = data
  <2>1. ASSUME NEW p \in 0..n, end[p] # p PROVE SubSeq(data, p + 1, end[p]) \in Pieces
    <3>1. end[p] \in p..n /\ end[p] - p \in Nat \ {0}
      BY <1>0, <1>3, <2>1
    <3>2. SubSeq(data, p + 1, end[p]) \in Seq(Byte) /\ Len(SubSeq(data, p + 1, end[p])) = end[p] - p
      BY <3>1, Slice
    <3> QED
      BY <3>1, <3>2 DEF Pieces
  <2>2. \A p \in 0..n : From(data, p + 1) \in Seq(Byte)
    BY <1>2 DEF D
  <2> DEFINE B == Seq(Byte)
             A == c.at
  <2>3. B \in SUBSET Seq(Byte) /\ c.at \subseteq A
    OBVIOUS
  <2>4. \A p \in 0..n : From(data, p + 1) \in B
    BY <2>2
  <2> HIDE DEF B, A, R, n
  <2>5. /\ Cut(data, end).msgs \in Seq(Pieces) /\ Cut(data, end).rest \in B
        /\ FlattenSeq(Cut(data, end).msgs) \o Cut(data, end).rest = data
    BY <1>4, <1>7, <2>1, <2>3, <2>4, CutLaw DEF n
  <2> QED
    BY <2>5 DEF B
<1>9. hio_unpack_by_length_field(data, s) = u
  BY DEF hio_unpack_by_length_field, end
<1>m. ASSUME ~Misread(data, s) PROVE msgs \in Seq(Wholes(s)) /\ rest \in R
  <2> DEFINE Ok == {p \in c.at : Fit(p)}
  <2>1. c.at \subseteq Ok
    BY <1>m DEF Misread, Fit, D, LengthSetting, end
  <2>2. \A p \in 0..n : p \in Ok /\ end[p] # p => SubSeq(data, p + 1, end[p]) \in Wholes(s)
    BY <1>5
  <2>3. \A p \in 0..n : p \in Ok /\ end[p] = p => From(data, p + 1) \in R
    BY <1>6
  <2> HIDE DEF Ok, R, n
  <2>4. /\ Cut(data, end).msgs \in Seq(Wholes(s)) /\ Cut(data, end).rest \in R
        /\ FlattenSeq(Cut(data, end).msgs) \o Cut(data, end).rest = data
    BY <1>4, <1>7, <2>1, <2>2, <2>3, CutLaw DEF n
  <2> QED
    BY <2>4
<1> HIDE DEF c
<1>10. len \in Nat
  <2> HIDE DEF rest, msgs
  <2>1. CASE LengthThere(rest, s)
    BY <1>8, <2>1, LengthType DEF LengthThere
  <2>2. CASE ~LengthThere(rest, s) /\ msgs = << >>
    BY <2>2 DEF LengthSetting
  <2>3. CASE ~LengthThere(rest, s) /\ msgs # << >>
    <3>1. Len(msgs) \in 1..Len(msgs)
      BY <1>8, <2>3
    <3>2. Last(msgs) \in Pieces
      BY <1>8, <3>1 DEF Last
    <3>3. Last(msgs) \in Seq(Byte)
      BY <1>7, <3>2
    <3>4. Len(Last(msgs)) \in Nat
      BY <3>3
    <3> QED
      BY <2>3, <3>4
  <2> QED
    BY <2>1, <2>2, <2>3
<1>11. bad \in BOOLEAN /\ endless \in BOOLEAN
  OBVIOUS
<1>12. rest \in R => ~endless
  OBVIOUS
<1> HIDE DEF len, bad, endless
<1>13. /\ u.msgs = msgs /\ u.rest = rest /\ u.package_len = len
       /\ u.bad = bad /\ u.endless = endless
  BY UnpackedIs
<1> HIDE DEF rest, msgs, R, u
<1>14. JustCut(data, u)
  BY <1>8, <1>10, <1>11, <1>13 DEF JustCut
<1>15. ~Misread(data, s) => WellCut(s, u)
  BY <1>7, <1>12, <1>13, <1>m DEF WellCut
<1> QED
  BY <1>9, <1>14, <1>15

\* What every unpacker does with what was left before and a new chunk.
LEMMA UnpackWell ==
    ASSUME NEW s, Sensible(s), NEW old \in Seq(Byte), NEW chunk \in Seq(Byte),
           s.mode # "LENGTH_FIELD" => old \in Parts(s),
           NEW data, data = old \o chunk
    PROVE  LET u == hio_unpack(data, Len(chunk), s) IN
           JustCut(data, u) /\ (~Misread(data, s) => WellCut(s, u))
<1>1. data \in Seq(Byte)
  BY ConcatProperties
<1>2. CASE s.mode = "FIXED_LENGTH"
  <2>1. hio_unpack(data, Len(chunk), s) = hio_unpack_by_fixed_length(data, s)
    BY <1>2 DEF hio_unpack
  <2>2. s.fixed_length \in Nat \ {0}
    BY <1>2 DEF Sensible
  <2> QED
    BY <1>1, <1>2, <2>1, <2>2, FixedCut
<1>3. CASE s.mode = "DELIMITER"
  <2>1. hio_unpack(data, Len(chunk), s) = hio_unpack_by_delimiter(data, Len(chunk), s)
    BY <1>3 DEF hio_unpack
  <2>2. s.delimiter \in Seq(Byte) \ {<< >>}
    BY <1>3 DEF Sensible
  <2> QED
    BY <1>3, <2>1, <2>2, DelimCut
<1>4. CASE s.mode = "LENGTH_FIELD"
  <2>1. hio_unpack(data, Len(chunk), s) = hio_unpack_by_length_field(data, s)
    BY <1>4 DEF hio_unpack
  <2>2. LengthSetting(s)
    BY <1>4 DEF Sensible, LengthSetting
  <2> QED
    BY <1>1, <2>1, <2>2, LengthCut
<1> QED
  BY <1>2, <1>3, <1>4 DEF Sensible

\* The buffer only grows.
LEMMA BufLenGrows ==
    ASSUME NEW s, Sensible(s), NEW u, u.package_len \in Nat, NEW len \in Nat \ {0}
    PROVE  \/ UnpackBufLen(u, len, s) = -1
           \/ UnpackBufLen(u, len, s) \in Nat \ {0} /\ UnpackBufLen(u, len, s) >= len
<1> DEFINE max == s.package_max_length
           pl == u.package_len
<1>1. max \in Nat \ {0} /\ pl \in Nat
  BY DEF Sensible
<1>2. UnpackBufLen(u, len, s) \in
        {len, -1} \cup (IF len >= max THEN {} ELSE {Least(len * 2, max)})
        \cup (IF pl > len /\ ~(pl > max) THEN {IF pl >= Least(len * 2, max) THEN pl ELSE Least(len * 2, max)}
              ELSE {})
  <2>1. CASE s.mode = "DELIMITER" /\ Len(u.rest) = len
    BY <2>1 DEF UnpackBufLen
  <2>2. CASE s.mode = "LENGTH_FIELD" /\ u.rest # << >> /\ u.package_len > len
    BY <2>2 DEF UnpackBufLen, Atleast
  <2>3. CASE /\ ~(s.mode = "DELIMITER" /\ Len(u.rest) = len)
             /\ ~(s.mode = "LENGTH_FIELD" /\ u.rest # << >> /\ u.package_len > len)
    BY <2>3 DEF UnpackBufLen
  <2> QED
    BY <2>1, <2>2, <2>3
<1> DEFINE l == UnpackBufLen(u, len, s)
           dbl == Least(len * 2, max)
<1> HIDE DEF l
<1>3. len < max => dbl \in Nat \ {0} /\ dbl >= len
  BY <1>1 DEF Least
<1>4. \/ l = len \/ l = -1 \/ (len < max /\ l = dbl)
      \/ (pl > len /\ ~(pl > max) /\ l = IF pl >= dbl THEN pl ELSE dbl)
  BY <1>1, <1>2 DEF l
<1>5. pl > len /\ ~(pl > max) => len < max
  BY <1>1
<1> HIDE DEF dbl, max, pl
<1>6. l = -1 \/ (l \in Nat \ {0} /\ l >= len)
  BY <1>1, <1>3, <1>4, <1>5
<1> QED
  BY <1>6 DEF l

-----------------------------------------------------------------------------
(* The invariant is preserved.                                             *)

\* what AnswersRequest says of one call of read_cb, before the program fails
Answered(g) ==
    CASE g.kind = "length" -> Len(g.bytes) = g.arg
      [] g.kind = "delim" ->
            g.bytes # << >> /\ \A i \in DOMAIN g.bytes : g.bytes[i] = g.arg <=> i = Len(g.bytes)
      [] OTHER -> g.bytes # << >>

LEMMA AnswersAll ==
    ASSUME AnswersRequest, life # "dead"
    PROVE  \A k \in DOMAIN given : Answered(given[k])
  BY DEF AnswersRequest, Answered

LEMMA AnswersAllAfter ==
    ASSUME \A k \in DOMAIN given' : Answered(given'[k])
    PROVE  AnswersRequest'
  BY DEF AnswersRequest, Answered

\* No call of read_cb, and the program may fail in this step.
LEMMA AnswersKept ==
    ASSUME AnswersRequest, life # "dead", given' = given
    PROVE  AnswersRequest'
  BY AnswersAll, AnswersAllAfter

LEMMA MetMore ==
    ASSUME NEW so, NEW what, met' = MetWhen(so, what)
    PROVE  /\ met \subseteq met' /\ (so => what \in met') /\ (~so => met' = met)
           /\ \A x : x # what => (x \in met' <=> x \in met)
  BY DEF MetWhen

LEMMA NoSettingMode == NoSetting.mode # "LENGTH_FIELD"
  BY DEF NoSetting

LEMMA GaveType ==
    ASSUME given \in Seq(Messages)
    PROVE  Gave \in Seq(Seq(Byte)) /\ Len(Gave) = Len(given) /\ FlattenSeq(Gave) \in Seq(Byte)
<1> DEFINE n == Len(given)
<1>1. n \in Nat /\ DOMAIN given = 1..n /\ \A k \in 1..n : given[k].bytes \in Seq(Byte)
  <2>1. n \in Nat /\ DOMAIN given = 1..n /\ \A k \in 1..n : given[k] \in Messages
    OBVIOUS
  <2>2. \A g \in Messages : g.bytes \in Seq(Byte)
    BY DEF Messages
  <2> QED
    BY <2>1, <2>2
<1>2. Gave \in [1..n -> Seq(Byte)]
  BY <1>1 DEF Gave
<1> HIDE DEF n
<1>3. Gave \in Seq(Seq(Byte)) /\ Len(Gave) = n
  BY <1>1, <1>2
<1> QED
  BY <1>3, FlattenType DEF n

\* What is known of an open hio_t.
LEMMA OpenFacts ==
    ASSUME IInv, life = "open"
    PROVE  /\ Sound(rb) /\ IsBuffer(rb) /\ rb.head \in Nat /\ rb.tail \in Nat /\ rb.len \in Nat \ {0}
           /\ rb.over \in BOOLEAN /\ rb.alloced \in BOOLEAN
           /\ rb.head <= rb.tail /\ rb.tail <= rb.len
           /\ Data(rb) \in Seq(Byte) /\ Len(Data(rb)) = rb.tail - rb.head
           /\ Len(Data(rb)) \in Nat
           /\ \A i \in 1 .. rb.tail - rb.head : Data(rb)[i] = rb.base[rb.head + i - 1]
           /\ given \in Seq(Messages) /\ stream \in Seq(Byte)
           /\ FlattenSeq(Gave) \in Seq(Byte) /\ FlattenSeq(Gave) \o Data(rb) = stream
<1>1. /\ Sound(rb) /\ IsBuffer(rb) /\ rb.head \in Nat /\ rb.tail \in Nat /\ rb.len \in Nat \ {0}
      /\ rb.over \in BOOLEAN /\ rb.alloced \in BOOLEAN
      /\ rb.head <= rb.tail /\ rb.tail <= rb.len
  BY DEF IInv, Open, Sound, IsBuffer, Buffers
<1>2. /\ Data(rb) \in Seq(Byte) /\ Len(Data(rb)) = rb.tail - rb.head
      /\ \A i \in 1 .. rb.tail - rb.head : Data(rb)[i] = rb.base[rb.head + i - 1]
  BY <1>1, DataType
<1>3. given \in Seq(Messages) /\ stream \in Seq(Byte) /\ FlattenSeq(Gave) \o Data(rb) = stream
  BY DEF IInv, Types, Open, Bytes
<1>4. FlattenSeq(Gave) \in Seq(Byte)
  BY <1>3, GaveType
<1>5. Len(Data(rb)) \in Nat
  BY <1>2
<1> QED
  BY <1>1, <1>2, <1>3, <1>4, <1>5

LEMMA MsgType ==
    ASSUME NEW kind \in {"all", "length", "delim", "pack"}, NEW arg \in Nat, NEW m \in Seq(Byte)
    PROVE  /\ Msg(kind, arg, m) \in Messages
           /\ Msg(kind, arg, m).kind = kind /\ Msg(kind, arg, m).arg = arg
           /\ Msg(kind, arg, m).bytes = m
  BY DEF Msg, Messages

Join(s, t) == s \o t

LEMMA Rejoin ==
    ASSUME NEW F \in Seq(Byte), NEW m \in Seq(Byte), NEW E \in Seq(Byte)
    PROVE  Join(F, Join(m, E)) = Join(Join(F, m), E)
  BY BytesAssociative DEF Join

LEMMA NotEmpty ==
    ASSUME NEW F \in Seq(Byte), NEW D \in Seq(Byte), D # << >>
    PROVE  F \o D # << >>
<1>1. Len(D) \in Nat \ {0}
  BY EmptySeq
<1>2. Len(F \o D) = Len(F) + Len(D) /\ Len(F) \in Nat
  BY ConcatProperties
<1>3. Len(<< >>) = 0
  OBVIOUS
<1> QED
  BY <1>1, <1>2, <1>3

\* read_cb is called once more.
LEMMA OneMore ==
    ASSUME given \in Seq(Messages), AnswersRequest, life # "dead",
           NEW msg \in Messages, Answered(msg), given' = Append(given, msg)
    PROVE  /\ given' \in Seq(Messages) /\ AnswersRequest'
           /\ msg.bytes \in Seq(Byte) /\ FlattenSeq(Gave) \in Seq(Byte)
           /\ FlattenSeq(Gave') = Join(FlattenSeq(Gave), msg.bytes)
<1> DEFINE n == Len(given)
           m == msg.bytes
           F == FlattenSeq(Gave)
<1>1. /\ n \in Nat /\ given' \in Seq(Messages) /\ Len(given') = n + 1 /\ given'[n + 1] = msg
      /\ \A k \in 1..n : given'[k] = given[k]
  OBVIOUS
<1>2. DOMAIN given' = 1 .. n + 1 /\ DOMAIN given = 1..n
  BY <1>1
<1>3. AnswersRequest'
  <2>1. ASSUME NEW k \in 1 .. n + 1 PROVE Answered(given'[k])
    <3>1. CASE k = n + 1
      BY <1>1, <3>1
    <3>2. CASE k # n + 1
      <4>1. k \in 1..n
        BY <1>1, <3>2
      <4> QED
        BY <1>1, <1>2, <4>1, AnswersAll
    <3> QED
      BY <3>1, <3>2
  <2> QED
    BY <1>2, <2>1, AnswersAllAfter
<1>4. m \in Seq(Byte)
  BY DEF Messages
<1>5. Gave \in Seq(Seq(Byte)) /\ Len(Gave) = n /\ F \in Seq(Byte)
  BY GaveType
<1>6. Gave' = Append(Gave, m)
  <2>1. Append(Gave, m) \in Seq(Seq(Byte)) /\ Len(Append(Gave, m)) = n + 1
        /\ Append(Gave, m)[n + 1] = m /\ \A k \in 1..n : Append(Gave, m)[k] = Gave[k]
    BY <1>1, <1>4, <1>5
  <2>2. \A k \in 1..n : Gave[k] = given[k].bytes
    BY <1>2 DEF Gave
  <2>3. ASSUME NEW k \in 1 .. n + 1 PROVE given'[k].bytes = Append(Gave, m)[k]
    <3>1. CASE k = n + 1
      BY <1>1, <2>1, <3>1
    <3>2. CASE k # n + 1
      <4>1. k \in 1..n
        BY <1>1, <3>2
      <4> QED
        BY <1>1, <2>1, <2>2, <4>1
    <3> QED
      BY <3>1, <3>2
  <2>4. Gave' = [k \in 1 .. n + 1 |-> given'[k].bytes]
    BY <1>2 DEF Gave
  <2> DEFINE A == Append(Gave, m)
  <2> HIDE DEF A
  <2>5. A = [k \in 1 .. n + 1 |-> A[k]]
    <3>1. A \in Seq(Seq(Byte)) /\ Len(A) = n + 1
      BY <2>1 DEF A
    <3> QED
      BY <3>1
  <2>6. \A k \in 1 .. n + 1 : given'[k].bytes = A[k]
    BY <2>3 DEF A
  <2>7. Gave' = A
    BY <2>4, <2>5, <2>6
  <2> QED
    BY <2>7 DEF A
<1>7. FlattenSeq(Gave') = F \o m
  BY <1>4, <1>5, <1>6, FlattenAppend
<1> QED
  BY <1>1, <1>3, <1>4, <1>5, <1>7 DEF Join

\* read_cb is called with the first of the bytes that wait; E is the rest.
LEMMA Called ==
    ASSUME given \in Seq(Messages), AnswersRequest, life # "dead",
           NEW msg \in Messages, Answered(msg), given' = Append(given, msg),
           NEW E \in Seq(Byte)
    PROVE  /\ given' \in Seq(Messages) /\ AnswersRequest'
           /\ Join(FlattenSeq(Gave'), E) = Join(FlattenSeq(Gave), Join(msg.bytes, E))
<1>1. /\ given' \in Seq(Messages) /\ AnswersRequest'
      /\ msg.bytes \in Seq(Byte) /\ FlattenSeq(Gave) \in Seq(Byte)
      /\ FlattenSeq(Gave') = Join(FlattenSeq(Gave), msg.bytes)
  BY OneMore
<1>2. Join(FlattenSeq(Gave), Join(msg.bytes, E)) = Join(Join(FlattenSeq(Gave), msg.bytes), E)
  BY <1>1, Rejoin
<1> QED
  BY <1>1, <1>2

\* Nothing that the invariant speaks of changes but watch, which goes up.
LEMMA OnlyWatch ==
    ASSUME IInv, watch' = TRUE, User,
           UNCHANGED <<rb, until, setting, life, cbs, after, stream, given, met>>,
           flags' \in {{}, {"ONCE"}}
    PROVE  IInv'
<1>0. setting = NoSetting /\ life = "open" /\ Open
  BY DEF User, IInv, Types
<1>1. Types'
  BY DEF IInv, Types
<1>2. AnswersRequest'
  BY DEF IInv, AnswersRequest
<1>3. Sound(rb)'
  BY <1>0 DEF Open
<1>4. Bytes'
  <2>1. Gave' = Gave /\ Data(rb)' = Data(rb)
    BY DEF Gave, Data
  <2> QED
    BY <1>0, <2>1 DEF Open, Bytes
<1>5. Room' /\ Waiting' /\ Unpacking'
  BY <1>0 DEF Open, Room, Waiting, Unpacking
<1> QED
  BY <1>1, <1>2, <1>3, <1>4, <1>5 DEF IInv, Open

LEMMA ReadKeeps ==
    ASSUME IInv, hio_read
    PROVE  IInv'
<1>0. /\ setting = NoSetting /\ life = "open" /\ Open /\ User /\ flags = {} /\ watch' = TRUE
      /\ UNCHANGED <<flags, until, setting, life, stream, met>>
      /\ Types /\ AnswersRequest
  BY DEF hio_read, User, IInv, Types
<1>1. CASE UNCHANGED <<given, cbs, rb, after>>
  BY <1>0, <1>1, OnlyWatch
<1>2. CASE /\ rb.tail > rb.head
           /\ given' = Append(given, Msg("all", 0, Data(rb)))
           /\ cbs' = Append(cbs, rb.tail - rb.head)
           /\ rb' = Emptied(rb)
           /\ after' = IF Idle THEN "return" ELSE after
  <2> DEFINE msg == Msg("all", 0, Data(rb))
  <2>1. /\ Sound(rb) /\ IsBuffer(rb) /\ rb.head \in Nat /\ rb.tail \in Nat
        /\ Data(rb) \in Seq(Byte) /\ Len(Data(rb)) = rb.tail - rb.head
        /\ given \in Seq(Messages) /\ stream \in Seq(Byte)
        /\ FlattenSeq(Gave) \o Data(rb) = stream
    BY <1>0, OpenFacts
  <2>2. msg \in Messages /\ msg.kind = "all" /\ msg.bytes = Data(rb)
    BY <2>1, MsgType
  <2>3. Data(rb) # << >> /\ rb.tail - rb.head \in Nat
    BY <1>2, <2>1
  <2> HIDE DEF msg
  <2>4. Answered(msg) /\ msg.bytes # << >>
    BY <2>2, <2>3 DEF Answered
  <2>5. /\ Sound(rb') /\ Data(rb') = << >> /\ rb'.head = 0 /\ rb'.tail = 0
        /\ rb'.len = rb.len /\ rb'.over = rb.over
    <3>1. ~rb.alloced \/ rb.len <= HighWater => rb.small = 0
      BY <2>1 DEF Sound
    <3> QED
      BY <1>2, <2>1, <3>1, EmptiedSound
  <2>6. Data(rb) = msg.bytes \o << >>
    BY <2>1, <2>2, ConcatEmptySeq
  <2>7. /\ given' \in Seq(Messages) /\ AnswersRequest'
        /\ FlattenSeq(Gave') \o << >> = stream /\ stream # << >>
    <3>1. << >> \in Seq(Byte) /\ given' = Append(given, msg)
      BY <1>2 DEF msg
    <3>2. /\ given' \in Seq(Messages) /\ AnswersRequest'
          /\ Join(FlattenSeq(Gave'), << >>) = Join(FlattenSeq(Gave), Join(msg.bytes, << >>))
      BY <1>0, <2>1, <2>2, <2>4, <3>1, Called
    <3>3. FlattenSeq(Gave') \o << >> = stream
      BY <2>1, <2>6, <3>2, Zenon DEF Join
    <3> QED
      BY <2>1, <2>3, <3>2, <3>3, NotEmpty
  <2>8. Types'
    <3>1. IsBuffer(rb') /\ rb'.head <= rb'.tail
      BY <2>5 DEF Sound
    <3>2. cbs' \in Seq(Nat) /\ after' \in {"autosize", "return"}
      BY <1>0, <1>2, <2>3 DEF Types
    <3> QED
      BY <1>0, <2>7, <3>1, <3>2 DEF Types
  <2>9. Bytes'
    <3>1. Data(rb)' = << >>
      BY <2>5
    <3> QED
      BY <1>0, <2>7, <3>1 DEF Bytes
  <2>10. Room' /\ Waiting' /\ Unpacking'
    <3>1. rb'.tail < rb'.len
      BY <1>0, <2>5, OpenFacts
    <3> QED
      BY <1>0, <3>1 DEF Room, Waiting, Unpacking
  <2> QED
    BY <2>5, <2>7, <2>8, <2>9, <2>10 DEF IInv, Open
<1> QED
  BY <1>1, <1>2 DEF hio_read

LEMMA ReadOnceKeeps ==
    ASSUME IInv, hio_read_once
    PROVE  IInv'
  BY OnlyWatch DEF hio_read_once, User

\* The first n bytes and the rest.
LEMMA SplitAt ==
    ASSUME NEW d \in Seq(Byte), NEW n \in 0..Len(d)
    PROVE  /\ SubSeq(d, 1, n) \in Seq(Byte) /\ Len(SubSeq(d, 1, n)) = n
           /\ \A i \in 1..n : SubSeq(d, 1, n)[i] = d[i]
           /\ SubSeq(d, n + 1, Len(d)) \in Seq(Byte)
           /\ d = SubSeq(d, 1, n) \o SubSeq(d, n + 1, Len(d))
<1> DEFINE z == 0
           e == Len(d)
<1>1. z \in 0..Len(d) /\ n \in z..Len(d) /\ e \in n..Len(d) /\ z + 1 = 1
  OBVIOUS
<1> HIDE DEF z, e
<1>2. SubSeq(d, z + 1, n) \o SubSeq(d, n + 1, e) = SubSeq(d, z + 1, e)
  BY <1>1, JoinSlices
<1>3. SubSeq(d, 1, e) = d
  BY WholeSlice DEF e
<1>4. SubSeq(d, n + 1, e) \in Seq(Byte)
  BY <1>1, Slice
<1>5. /\ SubSeq(d, 1, n) \in Seq(Byte) /\ Len(SubSeq(d, 1, n)) = n
      /\ \A i \in 1..n : SubSeq(d, 1, n)[i] = d[i]
  BY PrefixType
<1>6. d = SubSeq(d, 1, n) \o SubSeq(d, n + 1, e)
  BY <1>1, <1>2, <1>3, Zenon
<1> QED
  BY <1>4, <1>5, <1>6 DEF e

\* A request is answered at once, from what the buffer holds.
LEMMA AnsweredAtOnce ==
    ASSUME IInv, User, NEW n \in 1 .. rb.tail - rb.head, NEW msg \in Messages, Answered(msg),
           msg.bytes = SubSeq(Data(rb), 1, n), Deliver(flags, msg), rb' = Take(rb, n),
           after' = IF Idle THEN "return" ELSE after, UNCHANGED <<until, setting, life, stream, met>>
    PROVE  IInv'
<1>0. /\ setting = NoSetting /\ life = "open" /\ Open /\ flags = {}
      /\ Types /\ AnswersRequest
  BY DEF User, IInv, Types
<1>1. /\ Sound(rb) /\ IsBuffer(rb) /\ rb.head \in Nat /\ rb.tail \in Nat /\ rb.len \in Nat \ {0}
      /\ rb.head <= rb.tail /\ rb.tail <= rb.len
      /\ Data(rb) \in Seq(Byte) /\ Len(Data(rb)) = rb.tail - rb.head
      /\ given \in Seq(Messages) /\ stream \in Seq(Byte)
      /\ FlattenSeq(Gave) \o Data(rb) = stream
  BY <1>0, OpenFacts
<1>2. flags' = {} /\ watch' = watch /\ given' = Append(given, msg)
      /\ cbs' = Append(cbs, Len(msg.bytes))
  BY <1>0 DEF Deliver, Once
<1>3. n \in Nat /\ n # 0 /\ n <= rb.tail - rb.head /\ n \in 0..Len(Data(rb))
  BY <1>1
<1> DEFINE E == SubSeq(Data(rb), n + 1, Len(Data(rb)))
<1>4. E \in Seq(Byte) /\ Data(rb) = msg.bytes \o E /\ Len(msg.bytes) = n
  <2>1. /\ SubSeq(Data(rb), n + 1, Len(Data(rb))) \in Seq(Byte)
        /\ Data(rb) = SubSeq(Data(rb), 1, n) \o SubSeq(Data(rb), n + 1, Len(Data(rb)))
        /\ Len(SubSeq(Data(rb), 1, n)) = n
    <3> DEFINE d == Data(rb)
    <3>1. d \in Seq(Byte) /\ n \in 0..Len(d)
      BY <1>1, <1>3
    <3> HIDE DEF d
    <3>2. SubSeq(d, n + 1, Len(d)) \in Seq(Byte)
          /\ d = SubSeq(d, 1, n) \o SubSeq(d, n + 1, Len(d)) /\ Len(SubSeq(d, 1, n)) = n
      BY <3>1, SplitAt
    <3> QED
      BY <3>2 DEF d
  <2> QED
    BY <2>1
<1>5. /\ Sound(rb') /\ Data(rb') = E /\ rb'.len = rb.len /\ rb'.over = rb.over
      /\ rb'.tail <= rb.tail
  <2>1. rb.alloced /\ (~rb.alloced \/ rb.len <= HighWater => rb.small = 0)
    BY <1>1, <1>3 DEF Sound
  <2> QED
    BY <1>1, <1>3, <2>1, TakeSound
<1> HIDE DEF E
<1>6. msg.bytes # << >>
  <2>1. Len(<< >>) = 0
    OBVIOUS
  <2> QED
    BY <1>3, <1>4, <2>1, Zenon
<1>7. /\ given' \in Seq(Messages) /\ AnswersRequest'
      /\ FlattenSeq(Gave') \o E = stream /\ stream # << >>
  <2>1. /\ given' \in Seq(Messages) /\ AnswersRequest'
        /\ Join(FlattenSeq(Gave'), E) = Join(FlattenSeq(Gave), Join(msg.bytes, E))
    BY <1>0, <1>1, <1>2, <1>4, Called
  <2>2. FlattenSeq(Gave') \o E = stream
    BY <1>1, <1>4, <2>1, Zenon DEF Join
  <2>3. stream # << >>
    <3>1. Data(rb) # << >> /\ FlattenSeq(Gave) \in Seq(Byte)
      <4>1. Len(Data(rb)) # 0 /\ Len(<< >>) = 0
        BY <1>1, <1>3
      <4> QED
        BY <1>1, <4>1, GaveType, Zenon
    <3> QED
      BY <1>1, <3>1, NotEmpty
  <2> QED
    BY <2>1, <2>2, <2>3
<1>8. Types'
  <2>1. IsBuffer(rb') /\ rb'.head <= rb'.tail
    BY <1>5 DEF Sound
  <2>2. cbs' \in Seq(Nat) /\ after' \in {"autosize", "return"}
    BY <1>0, <1>2, <1>3, <1>4 DEF Types
  <2> QED
    BY <1>0, <1>2, <1>7, <2>1, <2>2 DEF Types
<1>9. Bytes'
  <2>1. Data(rb)' = E
    BY <1>5
  <2> QED
    BY <1>7, <2>1 DEF Bytes
<1>10. Room' /\ Waiting' /\ Unpacking'
  <2>1. ~rb'.over /\ "full" \notin met => rb'.tail < rb'.len
    <3>1. rb'.tail \in Nat
      BY <1>5 DEF Sound, IsBuffer, Buffers
    <3>2. ~rb.over /\ "full" \notin met => rb.tail < rb.len
      BY <1>0 DEF Open, Room
    <3> QED
      BY <1>1, <1>5, <3>1, <3>2
  <2> QED
    BY <1>0, <1>2, <2>1 DEF Room, Waiting, Unpacking
<1> QED
  BY <1>5, <1>7, <1>8, <1>9, <1>10 DEF IInv, Open

\* A request that has to wait: only the buffer was made larger.
LEMMA LengthWaits ==
    ASSUME IInv, User, NEW n \in Lengths, rb.tail - rb.head < n,
           met' = MetWhen(UntilLengthSpace(n).len > HighWater, "shrink"),
           flags' = {"LENGTH", "ONCE"}, until' = n, watch' = TRUE, rb' = UntilLengthSpace(n),
           UNCHANGED <<given, cbs, after, setting, life, stream>>
    PROVE  IInv'
<1>0. /\ setting = NoSetting /\ life = "open" /\ Open /\ flags = {}
      /\ Types /\ AnswersRequest /\ n \in Nat \ {0} /\ MoveLimit \in Nat
  BY HioReadAssumption DEF User, IInv, Types
<1>1. /\ Sound(rb) /\ rb.head \in Nat /\ rb.tail \in Nat /\ rb.len \in Nat \ {0}
      /\ rb.over \in BOOLEAN /\ rb.alloced \in BOOLEAN
      /\ rb.head <= rb.tail /\ rb.tail <= rb.len
  BY <1>0, OpenFacts
<1> DEFINE b == IF rb.head > MoveLimit \/ rb.tail - rb.head < MoveLimit
                THEN hio_memmove_readbuf(rb) ELSE rb
<1>2. /\ Sound(b) /\ Data(b) = Data(rb) /\ b.head \in Nat /\ b.tail \in Nat /\ b.len \in Nat \ {0}
      /\ b.tail - b.head = rb.tail - rb.head /\ b.head <= b.tail /\ b.over = rb.over
  <2>1. /\ Sound(b) /\ Data(b) = Data(rb) /\ b.over = rb.over
        /\ \/ b.head = 0 /\ b.tail = rb.tail - rb.head
           \/ b.head = rb.head /\ b.tail = rb.tail
    BY <1>1, MoveSound
  <2> HIDE DEF b
  <2>2. b.len \in Nat \ {0}
    BY <2>1 DEF Sound, IsBuffer, Buffers
  <2> QED
    BY <1>1, <2>1, <2>2
<1> DEFINE c == UntilLengthSpace(n)
           len == b.head + n
<1>3. c = IF ~b.alloced \/ b.len < b.head + n THEN hio_alloc_readbuf(b, b.head + n) ELSE b
  BY DEF UntilLengthSpace
<1> HIDE DEF b, c
<1>4. /\ Sound(c) /\ Data(c) = Data(rb) /\ c.head = b.head /\ c.tail = b.tail
      /\ ~c.over => c.alloced /\ b.head + n <= c.len
  <2>1. CASE ~b.alloced \/ b.len < b.head + n
    <3>1. len \in Nat \ {0} /\ b.tail <= len
      BY <1>0, <1>2
    <3>2. c = hio_alloc_readbuf(b, len)
      BY <1>3, <2>1
    <3> HIDE DEF len
    <3>3. /\ Sound(c) /\ Data(c) = Data(b) /\ c.head = b.head /\ c.tail = b.tail
          /\ ~c.over => c.len = len /\ c.alloced
      BY <1>2, <3>1, <3>2, AllocSound
    <3> QED
      BY <1>2, <3>1, <3>3 DEF len
  <2>2. CASE ~(~b.alloced \/ b.len < b.head + n)
    BY <1>0, <1>2, <1>3, <2>2
  <2> QED
    BY <2>1, <2>2
<1>5. c.len \in Nat /\ ("shrink" \notin met' => c.len <= HighWater)
  <2>1. c.len \in Nat /\ HighWater \in Nat
    BY <1>4, HioReadAssumption DEF Sound, IsBuffer, Buffers
  <2>2. c.len > HighWater => "shrink" \in met'
    BY MetMore DEF c
  <2> QED
    BY <2>1, <2>2
<1>6. rb' = c /\ Data(rb)' = Data(rb) /\ Gave' = Gave
  BY <1>4 DEF c, Gave
<1>7. Types'
  <2>1. IsBuffer(rb') /\ rb'.head <= rb'.tail
    BY <1>4, <1>6 DEF Sound
  <2> QED
    BY <1>0, <2>1 DEF Types, MetWhen
<1>8. AnswersRequest'
  BY <1>0 DEF AnswersRequest
<1>9. Bytes'
  BY <1>0, <1>6 DEF Open, Bytes
<1>10. Sound(rb)'
  BY <1>4, <1>6
<1>11. Unpacking'
  BY <1>0 DEF Unpacking
<1>12. ~rb'.over => /\ rb'.alloced /\ rb'.tail - rb'.head < n
                    /\ rb'.head + n <= rb'.len /\ rb'.tail < rb'.len
                    /\ "shrink" \notin met' => rb'.len <= HighWater
  BY <1>0, <1>2, <1>4, <1>5, <1>6
<1>13. Room' /\ Waiting'
  BY <1>12 DEF Room, Waiting
<1> QED
  BY <1>7, <1>8, <1>9, <1>10, <1>11, <1>13 DEF IInv, Open

LEMMA UntilLengthKeeps ==
    ASSUME IInv, NEW n \in Lengths, hio_read_until_length(n)
    PROVE  IInv'
<1>0. User /\ life = "open" /\ n \in Nat \ {0} /\ UNCHANGED <<setting, life, stream>>
  BY HioReadAssumption DEF hio_read_until_length, User, IInv, Types
<1>1. CASE /\ rb.tail - rb.head >= n
           /\ Deliver(flags, Msg("length", n, SubSeq(Data(rb), 1, n)))
           /\ rb' = Take(rb, n)
           /\ after' = IF Idle THEN "return" ELSE after
           /\ UNCHANGED <<until, met>>
  <2> DEFINE d == Data(rb)
             m == SubSeq(d, 1, n)
             msg == Msg("length", n, m)
  <2>1. d \in Seq(Byte) /\ n \in 0..Len(d) /\ n \in 1 .. rb.tail - rb.head
    BY <1>0, <1>1, OpenFacts
  <2> HIDE DEF d
  <2>2. m \in Seq(Byte) /\ Len(m) = n
    BY <2>1, SplitAt
  <2> HIDE DEF m
  <2>3. msg \in Messages /\ msg.kind = "length" /\ msg.arg = n /\ msg.bytes = m
    BY <1>0, <2>2, MsgType
  <2>4. Deliver(flags, msg) /\ msg.bytes = SubSeq(Data(rb), 1, n)
    BY <1>1, <2>3 DEF d, m
  <2> HIDE DEF msg
  <2>5. Answered(msg)
    BY <2>2, <2>3 DEF Answered
  <2> QED
    BY <1>0, <1>1, <2>1, <2>3, <2>4, <2>5, AnsweredAtOnce
<1>2. CASE ~(rb.tail - rb.head >= n)
  <2>1. rb.tail - rb.head < n
    BY <1>0, <1>2, OpenFacts
  <2> QED
    BY <1>0, <1>2, <2>1, LengthWaits DEF hio_read_until_length
<1>3. rb.tail - rb.head >= n => ~(rb.tail - rb.head < n)
  BY <1>0, OpenFacts
<1> QED
  BY <1>1, <1>2, <1>3 DEF hio_read_until_length

LEMMA DelimWaits ==
    ASSUME IInv, User, NEW d \in Delims, NEW beyond, Hits(d, beyond) = {},
           flags' = {"DELIM", "ONCE"}, until' = d, watch' = TRUE,
           rb' = IF ~rb.alloced \/ rb.len < LoopBuf THEN hio_alloc_readbuf(rb, LoopBuf) ELSE rb,
           UNCHANGED <<given, cbs, after, setting, life, stream, met>>
    PROVE  IInv'
<1>0. /\ setting = NoSetting /\ life = "open" /\ Open /\ flags = {}
      /\ Types /\ AnswersRequest /\ d \in Nat /\ LoopBuf \in Nat \ {0}
  BY HioReadAssumption DEF User, IInv, Types
<1>1. /\ Sound(rb) /\ rb.head \in Nat /\ rb.tail \in Nat /\ rb.len \in Nat \ {0}
      /\ rb.head <= rb.tail /\ rb.tail <= rb.len
      /\ (~rb.alloced => rb.tail = 0)
      /\ Data(rb) \in Seq(Byte) /\ Len(Data(rb)) = rb.tail - rb.head
      /\ \A i \in 1 .. rb.tail - rb.head : Data(rb)[i] = rb.base[rb.head + i - 1]
  BY <1>0, OpenFacts DEF Sound
<1>2. /\ Sound(rb') /\ Data(rb') = Data(rb) /\ rb'.head = rb.head /\ rb'.tail = rb.tail
      /\ ~rb'.over => rb'.alloced /\ ("full" \notin met => rb'.tail < rb'.len)
  <2>1. CASE ~rb.alloced \/ rb.len < LoopBuf
    <3>1. rb.tail <= LoopBuf /\ rb.tail < LoopBuf /\ rb' = hio_alloc_readbuf(rb, LoopBuf)
      BY <1>0, <1>1, <2>1
    <3> QED
      BY <1>0, <1>1, <3>1, AllocSound
  <2>2. CASE ~(~rb.alloced \/ rb.len < LoopBuf)
    BY <1>0, <1>1, <2>2 DEF Open, Room
  <2> QED
    BY <2>1, <2>2
<1>3. ASSUME NEW i \in 1 .. rb.tail - rb.head PROVE Data(rb)[i] # d
  <2>1. rb.head + i - 1 \in rb.head .. rb.tail /\ rb.tail > rb.head /\ rb.head + i - 1 < rb.len
    BY <1>1
  <2>2. rb.head + i - 1 \in Scanned
    BY <2>1 DEF Scanned
  <2>3. rb.base[rb.head + i - 1] # d
    BY <2>1, <2>2 DEF Hits
  <2> QED
    BY <1>1, <2>3
<1>4. Data(rb)' = Data(rb) /\ Gave' = Gave
  BY <1>2 DEF Gave
<1>5. Types'
  <2>1. IsBuffer(rb') /\ rb'.head <= rb'.tail
    BY <1>2 DEF Sound
  <2> QED
    BY <1>0, <2>1 DEF Types
<1>6. AnswersRequest'
  BY <1>0 DEF AnswersRequest
<1>7. Bytes'
  BY <1>0, <1>4 DEF Open, Bytes
<1>8. Sound(rb)' /\ Unpacking'
  BY <1>0, <1>2 DEF Unpacking
<1>9. Room' /\ Waiting'
  BY <1>2, <1>3, <1>4 DEF Room, Waiting
<1> QED
  BY <1>5, <1>6, <1>7, <1>8, <1>9 DEF IInv, Open

LEMMA UntilDelimKeeps ==
    ASSUME IInv, NEW d \in Delims, hio_read_until_delim(d)
    PROVE  IInv'
<1>0. /\ User /\ life = "open" /\ d \in Nat /\ d \in Byte /\ UNCHANGED <<setting, stream, met>>
      /\ Types /\ AnswersRequest /\ given \in Seq(Messages) /\ flags = {}
  BY HioReadAssumption DEF hio_read_until_delim, User, IInv, Types, Byte
<1>1. /\ rb.head \in Nat /\ rb.tail \in Nat /\ rb.len \in Nat \ {0}
      /\ rb.head <= rb.tail /\ rb.tail <= rb.len
      /\ Data(rb) \in Seq(Byte) /\ Len(Data(rb)) = rb.tail - rb.head
      /\ \A i \in 1 .. rb.tail - rb.head : Data(rb)[i] = rb.base[rb.head + i - 1]
      /\ rb \in Buffers(Cell(rb.len)) /\ rb.base \in [0 .. rb.len - 1 -> Byte]
  BY <1>0, OpenFacts DEF IsBuffer, Buffers, Cell
<1> DEFINE Val(i) == IF i < rb.len THEN rb.base[i] ELSE d
           Len1(hits) == First(hits) - rb.head + 1
           Bytes1(hits) == [i \in 1..Len1(hits) |-> Val(rb.head + i - 1)]
<1>2. PICK beyond \in BOOLEAN :
         LET hits == Hits(d, beyond) IN
         \/ /\ hits # {}
            /\ Deliver(flags, Msg("delim", d, Bytes1(hits)))
            /\ rb' = Take(rb, Len1(hits))
            /\ life' = IF hits = {rb.tail} THEN "dead" ELSE life
            /\ after' = IF Idle THEN "return" ELSE after
            /\ UNCHANGED until
         \/ /\ hits = {}
            /\ flags' = {"DELIM", "ONCE"} /\ until' = d /\ watch' = TRUE
            /\ rb' = IF ~rb.alloced \/ rb.len < LoopBuf THEN hio_alloc_readbuf(rb, LoopBuf) ELSE rb
            /\ UNCHANGED <<given, cbs, after, life>>
  BY DEF hio_read_until_delim
<1>3. CASE Hits(d, beyond) # {}
  <2> DEFINE hits == Hits(d, beyond)
             f == First(hits)
             len == f - rb.head + 1
             m == [i \in 1..len |-> Val(rb.head + i - 1)]
             msg == Msg("delim", d, m)
  <2>1. \A i \in hits : i \in rb.head .. rb.tail /\ i \in Nat /\ Val(i) = d
    <3>1. \A i \in Scanned : i \in rb.head .. rb.tail /\ i \in Nat
      BY <1>1 DEF Scanned
    <3> QED
      BY <3>1 DEF Hits
  <2>2. f \in hits /\ \A j \in hits : f <= j
    <3>1. hits \in SUBSET Nat
      BY <2>1
    <3> QED
      BY <1>3, <3>1, FirstIs
  <2>5. /\ Deliver(flags, msg) /\ rb' = Take(rb, len)
        /\ life' = (IF hits = {rb.tail} THEN "dead" ELSE life)
        /\ after' = (IF Idle THEN "return" ELSE after)
        /\ UNCHANGED until
    BY <1>2, <1>3
  <2>s. rb.tail > rb.head
    BY <1>3 DEF Hits, Scanned
  <2>4. ASSUME NEW i \in rb.head .. f - 1 PROVE Val(i) # d /\ i < rb.len
    <3> HIDE DEF f
    <3>0. f \in Nat /\ f <= rb.tail
      BY <1>1, <2>1, <2>2
    <3>1. i \in Scanned /\ i < rb.len
      BY <1>1, <2>s, <3>0 DEF Scanned
    <3>2. i \notin hits
      BY <1>1, <2>2, <3>0
    <3> QED
      BY <3>1, <3>2 DEF Hits
  <2> HIDE DEF hits, f, Val
  <2>3. f \in Nat /\ rb.head <= f /\ f <= rb.tail /\ Val(f) = d
    BY <1>1, <2>1, <2>2
  <2>6. len \in Nat \ {0} /\ len <= rb.tail - rb.head + 1 /\ rb.head + len - 1 = f
    BY <1>1, <2>3
  <2>7. \A i \in 1..len : /\ i \in Nat /\ rb.head + i - 1 \in Nat
                          /\ (rb.head + i - 1 = f <=> i = len)
                          /\ (i # len => rb.head + i - 1 \in rb.head .. f - 1)
    <3>0. rb.head \in Nat
      BY <1>1
    <3> HIDE DEF len
    <3>1. ASSUME NEW h \in Nat, NEW n \in Nat \ {0}, NEW i \in 1..n,
                 h + n - 1 = f, f \in Nat
          PROVE  /\ i \in Nat /\ h + i - 1 \in Nat
                 /\ (h + i - 1 = f <=> i = n) /\ (i # n => h + i - 1 \in h .. f - 1)
      BY ONLY <3>1
    <3> QED
      BY ONLY <2>3, <2>6, <3>0, <3>1
  <2> HIDE DEF len
  <2>8. \A i \in 1..len : m[i] = Val(rb.head + i - 1) /\ m[i] \in Byte /\ (m[i] = d <=> i = len)
    <3>1. ASSUME NEW i \in 1..len
          PROVE  m[i] = Val(rb.head + i - 1) /\ m[i] \in Byte /\ (m[i] = d <=> i = len)
      <4>1. m[i] = Val(rb.head + i - 1)
        OBVIOUS
      <4> HIDE DEF m
      <4> DEFINE k == rb.head + i - 1
      <4>2. k \in Nat
        BY <2>7
      <4>3. Val(k) \in Byte
        <5> HIDE DEF k
        <5>1. k < rb.len => k \in 0 .. rb.len - 1
          BY <1>1, <4>2
        <5> QED
          BY <1>0, <1>1, <5>1 DEF Val
      <4>4. CASE i = len
        BY <2>3, <2>7, <4>1, <4>3, <4>4
      <4>5. CASE i # len
        BY <2>4, <2>7, <4>1, <4>3, <4>5
      <4> QED
        BY <4>4, <4>5
    <3> QED
      BY <3>1
  <2>10. m \in Seq(Byte) /\ Len(m) = len
    <3>1. m \in [1..len -> Byte]
      BY <2>8
    <3> HIDE DEF m
    <3>2. len \in Nat
      BY <2>6
    <3>3. m \in Seq(Byte)
      BY <3>1, <3>2
    <3> QED
      BY <3>1, <3>2, <3>3
  <2>m. m = [i \in 1..len |-> m[i]]
    OBVIOUS
  <2> HIDE DEF m
  <2>11. msg \in Messages /\ msg.kind = "delim" /\ msg.arg = d /\ msg.bytes = m
    BY <1>0, <2>10, MsgType
  <2> HIDE DEF msg
  <2>12. Answered(msg)
    <3>1. m # << >> /\ DOMAIN m = 1..len
      BY <2>6, <2>10
    <3> QED
      BY <2>8, <2>10, <2>11, <3>1 DEF Answered
  <2>13. CASE f # rb.tail
    <3>1. life' = life
      <4>1. hits # {rb.tail}
        BY <2>2, <2>13
      <4> QED
        BY <2>5, <4>1
    <3>2. len \in 1 .. rb.tail - rb.head /\ len \in 0..Len(Data(rb))
      BY <1>1, <2>3, <2>6, <2>13
    <3>3. m = SubSeq(Data(rb), 1, len)
      <4> DEFINE dd == Data(rb)
                 w == SubSeq(dd, 1, len)
      <4>1. dd \in Seq(Byte) /\ len \in 0..Len(dd)
        BY <1>1, <3>2
      <4> HIDE DEF dd
      <4>2. w \in Seq(Byte) /\ Len(w) = len /\ \A i \in 1..len : w[i] = dd[i]
        BY <4>1, SplitAt
      <4> HIDE DEF w
      <4>3. w = [i \in 1..len |-> w[i]]
        BY <4>2
      <4>4. ASSUME NEW i \in 1..len PROVE m[i] = w[i]
        <5>1. i \in 1 .. rb.tail - rb.head /\ rb.head + i - 1 < rb.len
          BY <1>1, <2>6, <3>2
        <5>2. Val(rb.head + i - 1) = rb.base[rb.head + i - 1]
          BY <5>1 DEF Val
        <5>3. dd[i] = rb.base[rb.head + i - 1]
          BY <1>1, <5>1 DEF dd
        <5> QED
          BY <2>8, <4>2, <5>2, <5>3
      <4>5. w = m
        BY <2>m, <4>3, <4>4
      <4> QED
        BY <4>5 DEF w, dd
    <3> QED
      BY <1>0, <2>5, <2>11, <2>12, <3>1, <3>2, <3>3, AnsweredAtOnce
  <2>14. CASE f = rb.tail
    <3>1. hits = {rb.tail}
      <4>1. \A j \in hits : j = rb.tail
        BY <1>1, <2>1, <2>2, <2>14
      <4> QED
        BY <2>2, <2>14, <4>1
    <3>2. /\ life' = "dead" /\ flags' = {} /\ watch' = watch /\ given' = Append(given, msg)
          /\ cbs' = Append(cbs, Len(msg.bytes))
      BY <1>0, <2>5, <3>1 DEF Deliver, Once
    <3>3. given' \in Seq(Messages) /\ AnswersRequest'
      BY <1>0, <2>11, <2>12, <3>2, OneMore
    <3>4. IsBuffer(rb')
      <4> DEFINE c == [rb EXCEPT !.head = @ + len]
      <4>1. rb.head + len \in Nat /\ rb.head + len # rb.tail
        BY <1>1, <2>6, <2>14
      <4>2. c = [rb EXCEPT !.head = rb.head + len]
        BY <1>1 DEF Buffers
      <4> HIDE DEF c
      <4>3. c \in Buffers(Cell(rb.len)) /\ c.len = rb.len /\ c.head # c.tail
        BY <1>1, <4>1, <4>2 DEF Buffers
      <4>4. rb' = c
        BY <2>5, <4>3 DEF Take, Rewind, c
      <4> QED
        BY <4>3, <4>4 DEF IsBuffer
    <3>5. cbs' \in Seq(Nat) /\ after' \in {"autosize", "return"} /\ until' \in Nat
          /\ watch' \in BOOLEAN
      BY <1>0, <2>5, <2>6, <2>10, <2>11, <3>2 DEF Types
    <3>6. Types'
      BY <1>0, <3>2, <3>3, <3>4, <3>5 DEF Types
    <3> QED
      BY <3>2, <3>3, <3>6 DEF IInv
  <2> QED
    BY <2>13, <2>14
<1>4. CASE Hits(d, beyond) = {}
  BY <1>0, <1>2, <1>4, DelimWaits
<1> QED
  BY <1>3, <1>4

LEMMA SetUnpackKeeps ==
    ASSUME IInv, SensibleSettings, NEW s \in Settings, hio_set_unpack(s)
    PROVE  IInv'
<1>0. /\ life = "open" /\ stream = << >> /\ flags = {} /\ cbs = << >> /\ setting' = s /\ watch' = TRUE
      /\ UNCHANGED <<flags, until, life, cbs, after, stream, given, met>>
      /\ Open /\ Types /\ AnswersRequest /\ Sensible(s)
      /\ "bad_length" \notin met
  BY NoSettingMode DEF hio_set_unpack, Idle, IInv, Types, SensibleSettings
<1>1. /\ Sound(rb) /\ rb.head \in Nat /\ rb.tail \in Nat
      /\ rb.head <= rb.tail /\ rb.tail <= rb.len
      /\ Data(rb) \in Seq(Byte) /\ Len(Data(rb)) = rb.tail - rb.head
      /\ FlattenSeq(Gave) \in Seq(Byte) /\ FlattenSeq(Gave) \o Data(rb) = stream
  BY <1>0, OpenFacts
<1> DEFINE len == IF s.mode = "FIXED_LENGTH" THEN s.fixed_length
                  ELSE Least(LoopBuf, s.package_max_length)
           max == s.package_max_length
           b == Resized(rb, len)
<1>2. len \in Nat \ {0} /\ max \in Nat \ {0} /\ s # NoSetting
  <2>1. LoopBuf \in Nat \ {0} /\ max \in Nat \ {0}
    BY <1>0, HioReadAssumption DEF Sensible
  <2>2. s.mode = "FIXED_LENGTH" => s.fixed_length \in Nat \ {0}
    BY <1>0 DEF Sensible
  <2>3. s.mode # NoSetting.mode
    BY <1>0 DEF Sensible, NoSetting
  <2> QED
    BY <2>1, <2>2, <2>3 DEF Least
<1>3. rb.tail = 0 /\ rb.head = 0 /\ Data(rb) = << >> /\ given = << >>
  <2> DEFINE F == FlattenSeq(Gave)
             D == Data(rb)
  <2>1. F \in Seq(Byte) /\ D \in Seq(Byte) /\ F \o D = << >>
    BY <1>0, <1>1
  <2> HIDE DEF F, D
  <2>2. Len(F \o D) = Len(F) + Len(D) /\ Len(F) \in Nat /\ Len(D) \in Nat
    BY <2>1, ConcatProperties
  <2>3. Len(<< >>) = 0
    OBVIOUS
  <2>4. Len(D) = 0
    BY <2>1, <2>2, <2>3
  <2>5. D = << >>
    BY <2>1, <2>4, EmptySeq
  <2>6. rb.tail - rb.head = 0
    BY <1>1, <2>4 DEF D
  <2>7. rb.head = rb.tail
    BY <1>1, <2>6
  <2> QED
    BY <1>0, <1>1, <2>5, <2>7 DEF Sound, Open, Bytes, D
<1>4. rb' = [b EXCEPT !.max = max]
  BY DEF hio_set_unpack
<1> HIDE DEF len, max
<1>5. /\ Sound(b) /\ Data(b) = Data(rb) /\ b.head = 0 /\ b.tail = 0 /\ b.len = len /\ b.alloced
  <2>1. rb.tail <= len
    BY <1>2, <1>3
  <2> QED
    BY <1>1, <1>2, <1>3, <2>1, ResizedSound
<1> HIDE DEF b
<1>6. /\ IsBuffer(rb') /\ rb'.head = 0 /\ rb'.tail = 0 /\ rb'.len = b.len /\ rb'.alloced = b.alloced
      /\ rb'.small = b.small /\ rb'.base = b.base /\ rb'.over = b.over
  <2>1. b \in Buffers(Cell(b.len)) /\ max \in Nat
    BY <1>2, <1>5 DEF Sound, IsBuffer
  <2>2. rb' \in Buffers(Cell(b.len))
    BY <1>4, <2>1 DEF Buffers
  <2>3. /\ rb'.head = b.head /\ rb'.tail = b.tail /\ rb'.len = b.len /\ rb'.alloced = b.alloced
        /\ rb'.small = b.small /\ rb'.base = b.base /\ rb'.over = b.over
    BY <1>4, <2>1 DEF Buffers
  <2> QED
    BY <1>5, <2>2, <2>3 DEF IsBuffer
<1>7. Sound(rb')
  BY <1>5, <1>6 DEF Sound
<1>8. Data(rb') = << >>
  <2>1. Data(rb') = Data(b)
    BY <1>5, <1>6 DEF Data
  <2> QED
    BY <1>3, <1>5, <2>1
<1>9. Types'
  BY <1>0, <1>6 DEF Types
<1>10. AnswersRequest'
  BY <1>0 DEF AnswersRequest
<1>11. Gave' = << >> /\ Gave' = Gave
  BY <1>0, <1>3 DEF Gave
<1>12. Bytes'
  <2>1. Data(rb)' = Data(rb)
    BY <1>3, <1>8
  <2> QED
    BY <1>0, <1>3, <1>11, <2>1 DEF Bytes, Open
<1>13. Room' /\ Waiting'
  <2>1. rb'.tail < rb'.len
    BY <1>2, <1>5, <1>6
  <2> QED
    BY <1>0, <2>1 DEF Room, Waiting
<1>14. Unpacking'
  <2>1. << >> \in Seq(Wholes(s)) /\ << >> \in Parts(s)
    <3>1. << >> \in Seq(Wholes(s)) /\ << >> \in Seq(Byte) /\ Len(<< >>) = 0 /\ 1..0 = {}
      OBVIOUS
    <3> QED
      BY <3>1 DEF Parts
  <2> QED
    BY <1>0, <1>5, <1>6, <1>8, <1>11, <2>1 DEF Unpacking
<1> QED
  BY <1>7, <1>9, <1>10, <1>12, <1>13, <1>14 DEF IInv, Open

\* The hio_t is closed, or the program fails before it changes anything.
LEMMA EndKeeps ==
    ASSUME IInv, life = "open",
           UNCHANGED <<flags, until, setting, cbs, after, stream, given, met>>,
           \/ life' = "closed" /\ watch' = FALSE /\ rb' = hio_free_readbuf(rb)
           \/ life' = "dead" /\ UNCHANGED <<rb, watch>>
    PROVE  IInv'
<1>1. life' # "open" /\ life' \in {"closed", "dead"} /\ watch' \in BOOLEAN
  BY DEF IInv, Types
<1>2. IsBuffer(rb') /\ rb'.head <= rb'.tail
  BY FreeType DEF IInv, Types
<1>3. Types'
  BY <1>1, <1>2 DEF IInv, Types
<1>4. AnswersRequest'
  BY AnswersKept DEF IInv
<1> QED
  BY <1>1, <1>3, <1>4 DEF IInv

LEMMA CloseKeeps ==
    ASSUME IInv, hio_close \/ PostedClose \/ NioReadNone \/ NioReadOverrun
    PROVE  IInv'
<1>1. life = "open" /\ UNCHANGED <<flags, until, setting, cbs, after, stream, given, met>>
  BY DEF hio_close, PostedClose, NioReadNone, NioReadOverrun, Readable
<1>2. \/ life' = "closed" /\ watch' = FALSE /\ rb' = hio_free_readbuf(rb)
      \/ life' = "dead" /\ UNCHANGED <<rb, watch>>
  BY DEF hio_close, PostedClose, NioReadNone, NioReadOverrun
<1> QED
  BY <1>1, <1>2, EndKeeps

LEMMA ReturnsKeeps ==
    ASSUME IInv, ReadCbReturns
    PROVE  IInv'
<1> DEFINE b == SmallReads(rb, Last(cbs))
<1>0. /\ cbs # << >> /\ cbs \in Seq(Nat) /\ cbs' = Front(cbs)
      /\ rb' = IF Len(cbs) = 1 /\ after = "autosize" THEN Autosize(b) ELSE b
      /\ after' = IF Len(cbs) = 1 THEN "return" ELSE after
      /\ UNCHANGED <<life, flags, until, setting, watch, stream, given, met>>
      /\ Types /\ AnswersRequest /\ life # "dead"
  BY DEF ReadCbReturns, Idle, IInv, Types
<1>1. Last(cbs) \in Nat /\ cbs' \in Seq(Nat)
  <2>1. Len(cbs) \in 1..Len(cbs) /\ Len(cbs) \in Nat
    BY <1>0
  <2>2. Last(cbs) \in Nat
    BY <1>0, <2>1 DEF Last
  <2>3. Front(cbs) \in Seq(Nat)
    BY <1>0, <2>1 DEF Front
  <2> QED
    BY <1>0, <2>2, <2>3
<1>2. IsBuffer(rb) /\ rb.head <= rb.tail
  BY <1>0 DEF Types
<1>3. /\ IsBuffer(b) /\ b.head = rb.head /\ b.tail = rb.tail /\ b.len = rb.len
      /\ b.alloced = rb.alloced /\ b.over = rb.over
      /\ (rb.len <= HighWater => b = rb) /\ (Sound(rb) => Sound(b)) /\ Data(b) = Data(rb)
  BY <1>1, <1>2, SmallReadsSound
<1> HIDE DEF b
<1>4. IsBuffer(rb') /\ rb'.head <= rb'.tail
  BY <1>0, <1>2, <1>3, AutosizeType
<1>5. Types'
  BY <1>0, <1>1, <1>4 DEF Types
<1>6. AnswersRequest'
  BY <1>0 DEF AnswersRequest
<1>7. ASSUME life = "open" PROVE Open'
  <2>1. /\ Sound(rb) /\ rb.head \in Nat /\ rb.tail \in Nat /\ rb.len \in Nat
        /\ rb.head <= rb.tail /\ rb.tail <= rb.len /\ Open /\ until \in Nat
        /\ Len(Data(rb)) = rb.tail - rb.head
    BY <1>0, <1>7, OpenFacts DEF IInv, Types
  <2>2. /\ Sound(rb') /\ Data(rb') = Data(rb)
        /\ (rb.over => rb'.over) /\ (rb.alloced => rb'.alloced)
        /\ ~rb'.over /\ "full" \notin met => rb'.tail < rb'.len
    <3>1. CASE Len(cbs) = 1 /\ after = "autosize"
      BY <1>0, <1>3, <2>1, <3>1, AutosizeSound
    <3>2. CASE ~(Len(cbs) = 1 /\ after = "autosize")
      <4>1. rb' = b
        BY <1>0, <3>2
      <4> QED
        BY <1>3, <2>1, <4>1 DEF Open, Room
    <3> QED
      BY <3>1, <3>2
  <2>3. ~rb'.over /\ "LENGTH" \in flags /\ "shrink" \notin met => rb' = rb
    <3>1. SUFFICES ASSUME ~rb'.over, "LENGTH" \in flags, "shrink" \notin met PROVE rb' = rb
      OBVIOUS
    <3>2. rb.len <= HighWater /\ rb.head + until <= rb.len /\ rb.tail - rb.head < until
      BY <2>1, <2>2, <3>1 DEF Open, Room, Waiting
    <3>3. b = rb /\ rb.tail < rb.len /\ rb.small = 0
      BY <1>3, <2>1, <3>2 DEF Sound
    <3>4. CASE Len(cbs) = 1 /\ after = "autosize"
      BY <1>0, <2>1, <3>3, <3>4, AutosizeSound
    <3>5. CASE ~(Len(cbs) = 1 /\ after = "autosize")
      BY <1>0, <3>3, <3>5
    <3> QED
      BY <3>4, <3>5
  <2>4. Data(rb)' = Data(rb) /\ Gave' = Gave
    BY <1>0, <2>2 DEF Gave
  <2>5. Bytes'
    BY <1>0, <2>1, <2>4 DEF Open, Bytes
  <2>6. Room'
    BY <1>0, <2>1, <2>2, <2>3 DEF Open, Room
  <2>7. rb'.tail - rb'.head = rb.tail - rb.head
    <3>1. Len(Data(rb')) = rb'.tail - rb'.head
      BY <2>2, DataType DEF Sound
    <3> QED
      BY <2>1, <2>2, <3>1
  <2>8. Waiting'
    BY <1>0, <2>1, <2>2, <2>4, <2>7 DEF Open, Waiting
  <2>9. Unpacking'
    BY <1>0, <2>1 DEF Open, Unpacking
  <2> QED
    BY <2>2, <2>5, <2>6, <2>8, <2>9 DEF Open
<1> QED
  BY <1>0, <1>5, <1>6, <1>7 DEF IInv

\* b is the buffer with a chunk behind its tail.
Got(b, chunk) ==
    /\ chunk \in Seq(Byte) /\ Len(chunk) \in Nat \ {0} /\ Len(chunk) <= RecvLen
    /\ IsBuffer(b) /\ Data(b) = Data(rb) \o chunk
    /\ b.head = rb.head /\ b.tail = rb.tail + Len(chunk) /\ b.tail <= b.len
    /\ b.len = rb.len /\ b.alloced = rb.alloced /\ b.small = rb.small /\ b.over = rb.over

LEMMA RecvGets ==
    ASSUME IInv, life = "open", ~rb.over, NEW n \in Nat \ {0}, n <= RecvLen,
           Fits(n), NEW chunk \in [1..n -> Values]
    PROVE  Got(Filled(rb, RecvLen, chunk), chunk)
<1>1. chunk \in Seq(Byte) /\ Len(chunk) = n
  <2>1. Values \subseteq Byte
    BY HioReadAssumption DEF Byte
  <2>2. chunk \in [1..n -> Byte]
    BY <2>1
  <2> QED
    BY <2>2
<1>2. /\ IsBuffer(rb) /\ rb.head \in Nat /\ rb.tail \in Nat /\ rb.len \in Nat
      /\ rb.head <= rb.tail /\ rb.tail <= rb.len
  BY OpenFacts
<1>3. rb.tail + Len(chunk) <= rb.len
  BY <1>1, <1>2 DEF Fits
<1>4. chunk # << >>
  <2>1. Len(<< >>) = 0
    OBVIOUS
  <2> QED
    BY <1>1, <2>1
<1> DEFINE b == Filled(rb, RecvLen, chunk)
<1>5. /\ IsBuffer(b) /\ Data(b) = Data(rb) \o chunk
      /\ b.head = rb.head /\ b.tail = rb.tail + Len(chunk) /\ b.len = rb.len
      /\ b.alloced = rb.alloced /\ b.max = rb.max /\ b.small = rb.small /\ b.over = rb.over
  BY <1>1, <1>2, <1>3, <1>4, FilledData
<1> HIDE DEF b
<1>6. Got(b, chunk)
  BY <1>1, <1>3, <1>5 DEF Got
<1> QED
  BY <1>6 DEF b

\* What follows when the chunk was received.
LEMMA GotFacts ==
    ASSUME IInv, life = "open", NEW b, NEW chunk, Got(b, chunk)
    PROVE  /\ b.head \in Nat /\ b.tail \in Nat /\ b.len \in Nat \ {0} /\ b.head < b.tail
           /\ Data(b) \in Seq(Byte) /\ Len(Data(b)) = b.tail - b.head
           /\ (~b.alloced \/ b.len <= HighWater => b.small = 0)
           /\ (rb.alloced => Sound(b))
           /\ stream \o chunk \in Seq(Byte) /\ FlattenSeq(Gave) \o Data(b) = stream \o chunk
           /\ stream \o chunk # << >>
<1>1. /\ Sound(rb) /\ rb.head \in Nat /\ rb.tail \in Nat /\ rb.len \in Nat \ {0}
      /\ rb.head <= rb.tail
      /\ Data(rb) \in Seq(Byte) /\ Len(Data(rb)) = rb.tail - rb.head
      /\ stream \in Seq(Byte)
      /\ FlattenSeq(Gave) \in Seq(Byte) /\ FlattenSeq(Gave) \o Data(rb) = stream
  BY OpenFacts
<1>2. /\ chunk \in Seq(Byte) /\ Len(chunk) \in Nat \ {0} /\ IsBuffer(b)
      /\ Data(b) = Data(rb) \o chunk
      /\ b.head = rb.head /\ b.tail = rb.tail + Len(chunk) /\ b.tail <= b.len
      /\ b.len = rb.len /\ b.alloced = rb.alloced /\ b.small = rb.small
  BY DEF Got
<1>3. b.head \in Nat /\ b.tail \in Nat /\ b.len \in Nat \ {0} /\ b.head < b.tail
      /\ b.head <= b.tail
  BY <1>1, <1>2
<1>4. Data(b) \in Seq(Byte) /\ Len(Data(b)) = b.tail - b.head
  BY <1>2, <1>3, DataType
<1>5. ~b.alloced \/ b.len <= HighWater => b.small = 0
  BY <1>1, <1>2 DEF Sound
<1>6. rb.alloced => Sound(b)
  BY <1>2, <1>3, <1>5 DEF Sound
<1>7. stream \o chunk \in Seq(Byte) /\ Len(stream \o chunk) = Len(stream) + Len(chunk)
      /\ Len(stream) \in Nat
  BY <1>1, <1>2, ConcatProperties
<1>8. stream \o chunk # << >>
  <2>1. Len(<< >>) = 0
    OBVIOUS
  <2> QED
    BY <1>2, <1>7, <2>1
<1>9. FlattenSeq(Gave) \o Data(b) = stream \o chunk
  <2> DEFINE F == FlattenSeq(Gave)
             D == Data(rb)
  <2>1. F \in Seq(Byte) /\ D \in Seq(Byte) /\ F \o D = stream
    BY <1>1
  <2> HIDE DEF F, D
  <2>2. Join(F, Join(D, chunk)) = Join(Join(F, D), chunk)
    BY <1>2, <2>1, Rejoin
  <2>3. Data(b) = D \o chunk
    BY <1>2 DEF D
  <2> QED
    BY <2>1, <2>2, <2>3, Zenon DEF Join, F
<1> QED
  BY <1>3, <1>4, <1>5, <1>6, <1>7, <1>8, <1>9

\* A chunk completes what was asked for: read_cb gets the first n bytes.
LEMMA AnsweredByChunk ==
    ASSUME IInv, life = "open", setting = NoSetting, NEW b, NEW chunk, Got(b, chunk),
           NEW n \in 1 .. b.tail - b.head, NEW msg \in Messages, Answered(msg),
           msg.bytes = SubSeq(Data(b), 1, n), given' = Append(given, msg),
           cbs' = Append(cbs, Len(msg.bytes)),
           rb' = Take(b, n) \/ (rb' = Emptied(b) /\ n = b.tail - b.head),
           b.alloced \/ n = b.tail - b.head,
           met' \in {met, met \cup {"full"}},
           "full" \notin met' => b.tail < b.len \/ n = b.tail - b.head,
           flags' = {}, watch' \in BOOLEAN, after' \in {"autosize", "return"},
           stream' = stream \o chunk, UNCHANGED <<until, setting, life>>
    PROVE  IInv'
<1>0. Open /\ Types /\ AnswersRequest /\ given \in Seq(Messages)
  BY DEF IInv, Types
<1>1. /\ b.head \in Nat /\ b.tail \in Nat /\ b.len \in Nat \ {0} /\ b.head < b.tail
      /\ Data(b) \in Seq(Byte) /\ Len(Data(b)) = b.tail - b.head
      /\ (~b.alloced \/ b.len <= HighWater => b.small = 0)
      /\ stream' \in Seq(Byte) /\ FlattenSeq(Gave) \o Data(b) = stream'
      /\ stream' # << >>
  BY GotFacts
<1>2. IsBuffer(b) /\ b.tail <= b.len /\ b.over = rb.over
  BY DEF Got
<1>3. n \in Nat /\ n # 0 /\ n <= b.tail - b.head /\ n \in 0..Len(Data(b))
  BY <1>1
<1> DEFINE E == SubSeq(Data(b), n + 1, Len(Data(b)))
<1>4. E \in Seq(Byte) /\ Data(b) = msg.bytes \o E /\ Len(msg.bytes) = n
      /\ (n = b.tail - b.head => E = << >>)
  <2> DEFINE d == Data(b)
  <2>1. d \in Seq(Byte) /\ n \in 0..Len(d)
    BY <1>1, <1>3
  <2> HIDE DEF d
  <2>2. SubSeq(d, n + 1, Len(d)) \in Seq(Byte)
        /\ d = SubSeq(d, 1, n) \o SubSeq(d, n + 1, Len(d)) /\ Len(SubSeq(d, 1, n)) = n
    BY <2>1, SplitAt
  <2>3. n = Len(d) => SubSeq(d, n + 1, Len(d)) = << >>
    BY <2>1
  <2> QED
    BY <1>1, <2>2, <2>3 DEF d
<1>5. /\ Sound(rb') /\ Data(rb') = E /\ rb'.len = b.len /\ rb'.over = b.over
      /\ rb'.tail <= b.tail /\ (n = b.tail - b.head => rb'.tail = 0)
  <2>1. CASE rb' = Take(b, n)
    <3>1. b.head <= b.tail
      BY <1>1
    <3> QED
      BY <1>1, <1>2, <1>3, <2>1, <3>1, TakeSound
  <2>2. CASE rb' = Emptied(b) /\ n = b.tail - b.head
    <3>1. /\ Sound(rb') /\ Data(rb') = << >> /\ rb'.tail = 0
          /\ rb'.len = b.len /\ rb'.over = b.over
      BY <1>1, <1>2, <2>2, EmptiedSound
    <3> HIDE DEF E
    <3> QED
      BY <1>1, <1>4, <2>2, <3>1
  <2> QED
    BY <2>1, <2>2
<1> HIDE DEF E
<1>6. msg.bytes # << >>
  <2>1. Len(<< >>) = 0
    OBVIOUS
  <2> QED
    BY <1>3, <1>4, <2>1, Zenon
<1>7. /\ given' \in Seq(Messages) /\ AnswersRequest' /\ FlattenSeq(Gave') \o E = stream'
  <2> DEFINE str == stream \o chunk
             D == Data(b)
  <2>1. stream' = str /\ str \in Seq(Byte) /\ FlattenSeq(Gave) \o D = str /\ D = msg.bytes \o E
    BY <1>1, <1>4
  <2> HIDE DEF str, D
  <2>2. /\ given' \in Seq(Messages) /\ AnswersRequest'
        /\ Join(FlattenSeq(Gave'), E) = Join(FlattenSeq(Gave), Join(msg.bytes, E))
    BY <1>0, <1>4, Called
  <2>3. FlattenSeq(Gave') \o E = str
    BY <2>1, <2>2, Zenon DEF Join
  <2> QED
    BY <2>1, <2>2, <2>3
<1>8. Types'
  <2>1. IsBuffer(rb') /\ rb'.head <= rb'.tail
    BY <1>5 DEF Sound
  <2>2. cbs' \in Seq(Nat)
    BY <1>0, <1>3, <1>4 DEF Types
  <2>3. met' \subseteq {"full", "shrink", "bad_length"}
        /\ ("bad_length" \in met' => setting'.mode = "LENGTH_FIELD")
    BY <1>0 DEF Types
  <2> QED
    BY <1>0, <1>1, <1>7, <2>1, <2>2, <2>3 DEF Types
<1>9. Bytes'
  <2>1. Data(rb)' = E
    BY <1>5
  <2> QED
    BY <1>1, <1>7, <2>1 DEF Bytes
<1>10. Room' /\ Waiting' /\ Unpacking'
  <2>1. ~rb'.over /\ "full" \notin met' => rb'.tail < rb'.len
    <3>1. rb'.tail \in Nat
      BY <1>5 DEF Sound, IsBuffer, Buffers
    <3> QED
      BY <1>1, <1>5, <3>1
  <2> QED
    BY <2>1 DEF Room, Waiting, Unpacking
<1> QED
  BY <1>5, <1>7, <1>8, <1>9, <1>10 DEF IInv, Open

\* A chunk that completes nothing: the buffer is resized.
LEMMA StillWaits ==
    ASSUME IInv, life = "open", setting = NoSetting, ~rb.over,
           NEW b, NEW chunk, Got(b, chunk), rb.alloced,
           rb' = Autosize(b), stream' = stream \o chunk,
           UNCHANGED <<flags, watch, given, cbs, after, until, setting, life, met>>,
           "LENGTH" \in flags => b.tail - b.head < until,
           "DELIM" \in flags => \A i \in 1 .. b.tail - b.head : Data(b)[i] # until
    PROVE  IInv'
<1>0. Open /\ Types /\ AnswersRequest /\ until \in Nat
  BY DEF IInv, Types
<1>1. /\ b.head \in Nat /\ b.tail \in Nat /\ b.len \in Nat \ {0} /\ b.head < b.tail
      /\ Len(Data(b)) = b.tail - b.head /\ Sound(b)
      /\ stream' \in Seq(Byte) /\ FlattenSeq(Gave) \o Data(b) = stream'
      /\ stream' # << >>
  BY GotFacts
<1>2. b.head = rb.head /\ b.len = rb.len /\ b.alloced /\ b.over = rb.over
  BY DEF Got
<1>3. /\ Sound(rb') /\ Data(rb') = Data(b) /\ rb'.alloced
      /\ ~rb'.over => rb'.tail < rb'.len
      /\ b.tail < b.len /\ b.small = 0 => rb' = b
  BY <1>1, <1>2, AutosizeSound
<1>4. "LENGTH" \in flags /\ "shrink" \notin met =>
         rb' = b /\ b.len <= HighWater /\ b.head + until <= b.len
  <2>1. SUFFICES ASSUME "LENGTH" \in flags, "shrink" \notin met
                 PROVE  rb' = b /\ b.len <= HighWater /\ b.head + until <= b.len
    OBVIOUS
  <2>2. b.len <= HighWater /\ b.head + until <= b.len
    BY <1>0, <1>2, <2>1 DEF Open, Room
  <2>3. b.tail < b.len /\ b.small = 0
    BY <1>0, <1>1, <2>1, <2>2 DEF Sound
  <2> QED
    BY <1>3, <2>2, <2>3
<1>5. Types'
  <2>1. IsBuffer(rb') /\ rb'.head <= rb'.tail
    BY <1>3 DEF Sound
  <2> QED
    BY <1>0, <1>1, <2>1 DEF Types
<1>6. AnswersRequest'
  BY <1>0 DEF AnswersRequest
<1>7. Gave' = Gave /\ Data(rb)' = Data(b)
  BY <1>3 DEF Gave
<1>8. Bytes'
  BY <1>1, <1>7 DEF Bytes
<1>9. Room'
  BY <1>3, <1>4 DEF Room
<1>10. rb'.tail - rb'.head = b.tail - b.head
  <2>1. Len(Data(rb')) = rb'.tail - rb'.head
    BY <1>3, DataType DEF Sound
  <2> QED
    BY <1>1, <1>3, <2>1
<1>11. Waiting'
  BY <1>0, <1>3, <1>7, <1>10 DEF Waiting, Open
<1>12. Unpacking'
  BY DEF Unpacking
<1> QED
  BY <1>3, <1>5, <1>6, <1>8, <1>9, <1>11, <1>12 DEF IInv, Open

LEMMA HandleLengthKeeps ==
    ASSUME IInv, life = "open", setting = NoSetting, ~rb.over,
           NEW b, NEW chunk, Got(b, chunk), HandleLength(b), stream' = stream \o chunk,
           UNCHANGED <<until, setting, life>>
    PROVE  IInv'
<1>0. /\ "LENGTH" \in flags /\ flags = {"LENGTH", "ONCE"} /\ until \in Nat
      /\ rb.alloced /\ rb.tail - rb.head < until
  BY DEF HandleLength, IInv, Types, Open, Waiting
<1>1. /\ b.head \in Nat /\ b.tail \in Nat /\ b.head < b.tail
      /\ Data(b) \in Seq(Byte) /\ Len(Data(b)) = b.tail - b.head
  BY GotFacts
<1>2. /\ Len(chunk) <= until - (rb.tail - rb.head) /\ b.head = rb.head /\ Len(chunk) \in Nat
      /\ b.tail = rb.tail + Len(chunk) /\ b.alloced = rb.alloced
  BY <1>0 DEF Got, RecvLen
<1>3. rb.tail \in Nat /\ rb.head \in Nat /\ rb.head <= rb.tail
  BY OpenFacts
<1>4. CASE b.tail - b.head >= until
  <2> DEFINE d == Data(b)
             m == SubSeq(d, 1, until)
             msg == Msg("length", until, m)
  <2>1. until = b.tail - b.head /\ until \in 1 .. b.tail - b.head /\ until \in 0..Len(d) /\ d \in Seq(Byte)
    BY <1>0, <1>1, <1>2, <1>3, <1>4
  <2>2. Deliver(flags \ {"LENGTH"}, msg) /\ rb' = Take(b, until) /\ after' = "autosize"
        /\ met' = met
    BY <1>0, <1>1, <1>4 DEF HandleLength
  <2>3. flags' = {} /\ watch' = FALSE /\ given' = Append(given, msg)
        /\ cbs' = Append(cbs, Len(msg.bytes))
    BY <1>0, <2>2 DEF Deliver, Once
  <2> HIDE DEF d
  <2>4. m \in Seq(Byte) /\ Len(m) = until
    BY <2>1, SplitAt
  <2> HIDE DEF m
  <2>5. msg \in Messages /\ msg.kind = "length" /\ msg.arg = until /\ msg.bytes = m
    BY <1>0, <2>4, MsgType
  <2>6. msg.bytes = SubSeq(Data(b), 1, until)
    BY <2>5 DEF m, d
  <2> HIDE DEF msg
  <2>7. Answered(msg)
    BY <2>4, <2>5 DEF Answered
  <2> QED
    BY <2>1, <2>2, <2>3, <2>5, <2>6, <2>7, AnsweredByChunk
<1>5. CASE ~(b.tail - b.head >= until)
  <2>1. /\ b.tail - b.head < until /\ rb' = Autosize(b) /\ "DELIM" \notin flags
        /\ UNCHANGED <<flags, watch, given, cbs, after, met>>
    BY <1>0, <1>1, <1>5 DEF HandleLength
  <2> QED
    BY <1>0, <2>1, StillWaits
<1> QED
  BY <1>4, <1>5

LEMMA HandleAllKeeps ==
    ASSUME IInv, life = "open", setting = NoSetting, ~rb.over,
           NEW b, NEW chunk, Got(b, chunk), HandleAll(b), stream' = stream \o chunk,
           UNCHANGED <<until, setting, life>>
    PROVE  IInv'
<1> DEFINE d == Data(b)
           n == b.tail - b.head
           msg == Msg("all", 0, d)
<1>0. flags \in {{}, {"ONCE"}} /\ watch \in BOOLEAN
  BY DEF HandleAll, IInv, Types
<1>1. b.head \in Nat /\ b.tail \in Nat /\ b.head < b.tail /\ d \in Seq(Byte) /\ Len(d) = n
  BY GotFacts
<1>2. Deliver(flags, msg) /\ rb' = Emptied(b) /\ after' = "autosize" /\ met' = met
  BY DEF HandleAll
<1>3. flags' = {} /\ watch' \in BOOLEAN /\ given' = Append(given, msg)
      /\ cbs' = Append(cbs, Len(msg.bytes))
  BY <1>0, <1>2 DEF Deliver, Once
<1>4. n \in 1 .. b.tail - b.head /\ n \in Nat \ {0} /\ d = SubSeq(d, 1, n)
  <2>1. n \in 1 .. b.tail - b.head /\ n \in Nat \ {0}
    BY <1>1
  <2> HIDE DEF n, d
  <2>2. SubSeq(d, 1, Len(d)) = d
    BY <1>1, WholeSlice
  <2> QED
    BY <1>1, <2>1, <2>2
<1> HIDE DEF d
<1>5. msg \in Messages /\ msg.kind = "all" /\ msg.bytes = d
  BY <1>1, MsgType
<1> HIDE DEF msg, n
<1>6. Answered(msg)
  <2>1. d # << >>
    BY <1>1, <1>4
  <2> QED
    BY <1>5, <2>1 DEF Answered
<1>7. msg.bytes = SubSeq(Data(b), 1, n) /\ n = b.tail - b.head
  BY <1>4, <1>5 DEF d, n
<1> QED
  BY <1>2, <1>3, <1>4, <1>5, <1>6, <1>7, AnsweredByChunk

LEMMA HandleDelimKeeps ==
    ASSUME IInv, life = "open", setting = NoSetting, ~rb.over,
           NEW b, NEW chunk, Got(b, chunk), HandleDelim(b, chunk), stream' = stream \o chunk,
           UNCHANGED <<until, setting, life>>
    PROVE  IInv'
<1> DEFINE hits == {i \in DOMAIN chunk : chunk[i] = until}
           f == First(hits)
           len == DelimLen(b, chunk, f)
           d == Data(b)
           o == Data(rb)
           k == rb.tail - rb.head
<1>0. /\ "LENGTH" \notin flags /\ flags = {"DELIM", "ONCE"} /\ until \in Nat
      /\ rb.alloced /\ \A i \in 1..k : o[i] # until
  BY DEF HandleDelim, IInv, Types, Open, Waiting
<1>1. /\ b.head \in Nat /\ b.tail \in Nat /\ b.head < b.tail
      /\ d \in Seq(Byte) /\ Len(d) = b.tail - b.head
      /\ b.len \in Nat /\ b.tail <= b.len
  BY GotFacts DEF Got
<1>2. /\ chunk \in Seq(Byte) /\ Len(chunk) \in Nat \ {0} /\ b.head = rb.head
      /\ b.tail = rb.tail + Len(chunk) /\ b.alloced = rb.alloced /\ d = o \o chunk
  BY DEF Got
<1>3. /\ rb.tail \in Nat /\ rb.head \in Nat /\ rb.head <= rb.tail /\ k \in Nat
      /\ o \in Seq(Byte) /\ Len(o) = k /\ b.tail - b.head = k + Len(chunk)
  BY <1>2, OpenFacts
<1>4. /\ DOMAIN chunk = 1..Len(chunk)
      /\ \/ /\ hits # {}
            /\ met' = MetWhen(b.tail = b.len /\ b.head + len # b.tail, "full")
            /\ Deliver(flags \ {"DELIM"}, Msg("delim", until, SubSeq(d, 1, len)))
            /\ rb' = Take(b, len) /\ after' = "return"
         \/ /\ hits = {} /\ rb' = Autosize(b)
            /\ UNCHANGED <<flags, watch, given, cbs, after, met>>
  BY <1>2 DEF HandleDelim
<1>5. len = k + f
  <2>1. len = b.tail - b.head - Len(chunk) + f
    BY DEF DelimLen
  <2>2. b.tail - b.head - Len(chunk) = k
    BY <1>2, <1>3
  <2> HIDE DEF len, f, k
  <2> QED
    BY <2>1, <2>2
<1> HIDE DEF k, d, o, len
<1>6. \A i \in 1 .. k + Len(chunk) : d[i] = IF i <= k THEN o[i] ELSE chunk[i - k]
  <2>1. \A i \in 1 .. Len(o) + Len(chunk) : (o \o chunk)[i] = IF i <= Len(o) THEN o[i] ELSE chunk[i - Len(o)]
    BY <1>2, <1>3, ConcatProperties
  <2> QED
    BY <1>2, <1>3, <2>1
<1>7. CASE hits # {}
  <2>1. f \in hits /\ \A j \in hits : f <= j
    <3>1. hits \in SUBSET Nat
      BY <1>4
    <3> HIDE DEF hits
    <3> QED
      BY <1>7, <3>1, FirstIs
  <2>2. f \in 1..Len(chunk) /\ chunk[f] = until /\ f \in Nat
        /\ \A j \in 1..Len(chunk) : j < f => chunk[j] # until
    <3>1. f \in 1..Len(chunk) /\ chunk[f] = until
      BY <1>4, <2>1
    <3>2. \A j \in 1..Len(chunk) : chunk[j] = until => j \in hits
      BY <1>4
    <3> HIDE DEF hits, f
    <3>3. f \in Nat
      BY <1>2, <3>1
    <3>4. ASSUME NEW j \in 1..Len(chunk), j < f PROVE chunk[j] # until
      <4>1. ~(f <= j)
        BY <1>2, <3>3, <3>4
      <4> QED
        BY <2>1, <3>2, <4>1
    <3> QED
      BY <3>1, <3>3, <3>4
  <2> HIDE DEF f, hits
  <2> DEFINE m == SubSeq(d, 1, len)
             msg == Msg("delim", until, m)
  <2>3. len \in Nat \ {0} /\ len \in 1 .. b.tail - b.head /\ len \in 0..Len(d)
        /\ (b.head + len = b.tail => len = b.tail - b.head)
    BY SMTT(30), <1>1, <1>2, <1>3, <1>5, <2>2
  <2>4. Deliver(flags \ {"DELIM"}, msg) /\ rb' = Take(b, len) /\ after' = "return"
        /\ met' = MetWhen(b.tail = b.len /\ b.head + len # b.tail, "full")
    BY <1>4, <1>7
  <2>a. met' \in {met, met \cup {"full"}}
        /\ ("full" \notin met' => b.tail < b.len \/ len = b.tail - b.head)
    BY <1>1, <2>3, <2>4 DEF MetWhen
  <2>5. flags' = {} /\ watch' = FALSE /\ given' = Append(given, msg)
        /\ cbs' = Append(cbs, Len(msg.bytes))
    BY <1>0, <2>4 DEF Deliver, Once
  <2>6. m \in Seq(Byte) /\ Len(m) = len /\ \A i \in 1..len : m[i] = d[i]
    BY <1>1, <2>3, SplitAt
  <2> HIDE DEF m
  <2>7. ASSUME NEW i \in 1..len PROVE m[i] = until <=> i = len
    <3>1. i \in 1 .. k + Len(chunk) /\ m[i] = IF i <= k THEN o[i] ELSE chunk[i - k]
      <4>1. i \in 1 .. k + Len(chunk)
        BY <1>2, <1>3, <1>5, <2>2
      <4> QED
        BY <1>6, <2>6, <4>1
    <3>2. CASE i <= k
      <4>1. i \in 1..k /\ i # len
        BY <1>3, <1>5, <2>2, <3>2
      <4> QED
        BY <1>0, <3>1, <3>2, <4>1
    <3>3. CASE ~(i <= k)
      <4>1. i - k \in 1..Len(chunk) /\ (i = len <=> i - k = f) /\ (i # len => i - k < f)
        BY <1>2, <1>3, <1>5, <2>2, <3>3
      <4> QED
        BY <2>2, <3>1, <3>3, <4>1
    <3> QED
      BY <3>2, <3>3
  <2>8. msg \in Messages /\ msg.kind = "delim" /\ msg.arg = until /\ msg.bytes = m
    BY <1>0, <2>6, MsgType
  <2> HIDE DEF msg
  <2>9. Answered(msg)
    <3>1. m # << >> /\ DOMAIN m = 1..len
      BY <2>3, <2>6
    <3> QED
      BY <2>6, <2>7, <2>8, <3>1 DEF Answered
  <2>10. msg.bytes = SubSeq(Data(b), 1, len)
    BY <2>8 DEF m, d
  <2> QED
    BY <1>0, <1>2, <2>3, <2>4, <2>5, <2>8, <2>9, <2>10, <2>a, AnsweredByChunk
<1>8. CASE hits = {}
  <2>1. rb' = Autosize(b) /\ UNCHANGED <<flags, watch, given, cbs, after, met>>
    BY <1>4, <1>8
  <2>2. \A j \in 1..Len(chunk) : chunk[j] # until
    BY <1>4, <1>8
  <2>3. ASSUME NEW i \in 1 .. k + Len(chunk) PROVE d[i] # until
    <3>1. CASE i <= k
      <4>1. i \in 1..k
        BY <1>3, <3>1
      <4> QED
        BY <1>0, <1>6, <3>1, <4>1
    <3>2. CASE ~(i <= k)
      <4>1. i - k \in 1..Len(chunk)
        BY <1>2, <1>3, <3>2
      <4> QED
        BY <1>6, <2>2, <3>2, <4>1
    <3> QED
      BY <3>1, <3>2
  <2>4. \A i \in 1 .. b.tail - b.head : Data(b)[i] # until
    BY <1>3, <2>3 DEF d
  <2> QED
    BY <1>0, <2>1, <2>4, StillWaits
<1> QED
  BY <1>7, <1>8

\* The bytes of two lists of messages.
LEMMA FlattenBoth ==
    ASSUME NEW ss \in Seq(Seq(Byte)), NEW tt \in Seq(Seq(Byte))
    PROVE  FlattenSeq(ss \o tt) = Join(FlattenSeq(ss), FlattenSeq(tt))
<1> DEFINE T == {n \in Nat : \E uu \in Seq(Seq(Byte)) :
                    Len(uu) = n /\ FlattenSeq(uu \o tt) # Join(FlattenSeq(uu), FlattenSeq(tt))}
<1>0. Len(ss) \in Nat
  OBVIOUS
<1>1. SUFFICES ASSUME T # {} PROVE FALSE
  BY <1>0
<1>2. PICK n \in T : \A m \in T : n <= m
  BY <1>1, LeastNat
<1>3. PICK uu \in Seq(Seq(Byte)) :
         Len(uu) = n /\ FlattenSeq(uu \o tt) # Join(FlattenSeq(uu), FlattenSeq(tt))
  OBVIOUS
<1>t. FlattenSeq(tt) \in Seq(Byte)
  BY FlattenType
<1>4. CASE uu = << >>
  <2>1. uu \o tt = tt /\ FlattenSeq(uu) = << >>
    BY <1>4, FlattenEmpty
  <2>2. << >> \o FlattenSeq(tt) = FlattenSeq(tt)
    BY <1>t, ConcatEmptySeq
  <2> QED
    BY <1>3, <2>1, <2>2 DEF Join
<1>5. CASE uu # << >>
  <2> DEFINE h == Head(uu)
             vv == Tail(uu)
             cc == uu \o tt
             dd == vv \o tt
  <2>1. h \in Seq(Byte) /\ vv \in Seq(Seq(Byte)) /\ Len(vv) = n - 1 /\ n \in Nat /\ n # 0 /\ h = uu[1]
        /\ \A i \in 1 .. n - 1 : vv[i] = uu[i + 1]
    <3>1. /\ Head(uu) \in Seq(Byte) /\ Tail(uu) \in Seq(Seq(Byte)) /\ Len(Tail(uu)) = Len(uu) - 1
          /\ Len(uu) \in Nat /\ Len(uu) # 0 /\ Head(uu) = uu[1]
          /\ \A i \in 1 .. Len(Tail(uu)) : Tail(uu)[i] = uu[i + 1]
      BY <1>5, HeadTailProperties, EmptySeq
    <3> QED
      BY <1>3, <3>1
  <2>2. FlattenSeq(uu) = h \o FlattenSeq(vv)
    BY <1>5, FlattenHead
  <2> HIDE DEF h, vv
  <2>3. /\ cc \in Seq(Seq(Byte)) /\ Len(cc) = n + Len(tt) /\ Len(tt) \in Nat
        /\ \A i \in 1 .. n + Len(tt) : cc[i] = IF i <= n THEN uu[i] ELSE tt[i - n]
    BY <1>3, ConcatProperties
  <2>4. /\ dd \in Seq(Seq(Byte)) /\ Len(dd) = (n - 1) + Len(tt)
        /\ \A i \in 1 .. (n - 1) + Len(tt) : dd[i] = IF i <= n - 1 THEN vv[i] ELSE tt[i - (n - 1)]
    <3>1. /\ dd \in Seq(Seq(Byte)) /\ Len(dd) = Len(vv) + Len(tt)
          /\ \A i \in 1 .. Len(vv) + Len(tt) : dd[i] = IF i <= Len(vv) THEN vv[i] ELSE tt[i - Len(vv)]
      BY <2>1, ConcatProperties
    <3> HIDE DEF dd
    <3> QED
      BY <2>1, <3>1
  <2> HIDE DEF cc, dd
  <2>5. cc # << >> /\ Head(cc) = h /\ Tail(cc) = dd
    <3>1. cc # << >> /\ Head(cc) = cc[1] /\ 1 \in 1 .. n + Len(tt) /\ 1 <= n
      BY <2>1, <2>3
    <3>2. /\ Tail(cc) \in Seq(Seq(Byte)) /\ Len(Tail(cc)) = Len(cc) - 1
          /\ \A i \in 1 .. Len(Tail(cc)) : Tail(cc)[i] = cc[i + 1]
      BY <2>3, <3>1, HeadTailProperties
    <3>3. Len(Tail(cc)) = Len(dd)
      BY <2>1, <2>3, <2>4, <3>2
    <3>4. ASSUME NEW i \in 1..Len(dd) PROVE Tail(cc)[i] = dd[i]
      <4>1. Tail(cc)[i] = cc[i + 1] /\ i + 1 \in 1 .. n + Len(tt) /\ i \in 1 .. (n - 1) + Len(tt)
        BY <2>1, <2>3, <2>4, <3>2, <3>3
      <4>2. CASE i <= n - 1
        <5>1. i + 1 <= n /\ i \in 1 .. n - 1
          BY <2>1, <4>2
        <5> QED
          BY <2>1, <2>3, <2>4, <4>1, <4>2, <5>1
      <4>3. CASE ~(i <= n - 1)
        <5>1. ~(i + 1 <= n) /\ (i + 1) - n = i - (n - 1)
          BY <2>1, <4>3
        <5> QED
          BY <2>3, <2>4, <4>1, <4>3, <5>1
      <4> QED
        BY <4>2, <4>3
    <3>5. Tail(cc) = dd
      BY <2>4, <3>2, <3>3, <3>4, SeqEqual
    <3> QED
      BY <2>1, <2>3, <3>1, <3>5
  <2>6. FlattenSeq(cc) = h \o FlattenSeq(dd)
    BY <2>3, <2>5, FlattenHead
  <2>7. FlattenSeq(dd) = Join(FlattenSeq(vv), FlattenSeq(tt))
    <3>1. n - 1 \notin T /\ n - 1 \in Nat
      <4>1. ~(n <= n - 1) /\ n - 1 \in Nat
        BY <2>1
      <4> HIDE DEF T
      <4> QED
        BY <1>2, <4>1
    <3> QED
      BY <2>1, <3>1 DEF dd
  <2>8. FlattenSeq(vv) \in Seq(Byte)
    BY <2>1, FlattenType
  <2>9. Join(h, Join(FlattenSeq(vv), FlattenSeq(tt))) = Join(Join(h, FlattenSeq(vv)), FlattenSeq(tt))
    BY <1>t, <2>1, <2>8, Rejoin
  <2>10. FlattenSeq(uu) = Join(h, FlattenSeq(vv)) /\ FlattenSeq(cc) = Join(h, FlattenSeq(dd))
    BY <2>2, <2>6 DEF Join
  <2> QED
    BY <1>3, <2>7, <2>9, <2>10 DEF cc
<1> QED
  BY <1>4, <1>5

LEMMA JoinMessages ==
    ASSUME NEW s \in Seq(Messages), NEW t \in Seq(Messages)
    PROVE  /\ Join(s, t) \in Seq(Messages) /\ Len(Join(s, t)) = Len(s) + Len(t) /\ Len(s) \in Nat
           /\ \A k \in 1 .. Len(s) + Len(t) :
                 Join(s, t)[k] = IF k <= Len(s) THEN s[k] ELSE t[k - Len(s)]
  BY ConcatProperties DEF Join

BytesOf(g) == [k \in DOMAIN g |-> g[k].bytes]

\* read_cb is called with one package after the other.
LEMMA ManyCalls ==
    ASSUME given \in Seq(Messages), AnswersRequest, life # "dead",
           NEW ms \in Seq(Pieces), NEW H \in SUBSET Seq(Byte), ms \in Seq(H), Gave \in Seq(H),
           NEW calls, calls = given \o [k \in DOMAIN ms |-> Msg("pack", 0, ms[k])]
    PROVE  /\ calls \in Seq(Messages) /\ \A k \in DOMAIN calls : Answered(calls[k])
           /\ BytesOf(calls) \in Seq(H)
           /\ FlattenSeq(BytesOf(calls)) = Join(FlattenSeq(Gave), FlattenSeq(ms))
<1> DEFINE n == Len(given)
           l == Len(ms)
           new == [k \in DOMAIN ms |-> Msg("pack", 0, ms[k])]
           all == Gave \o ms
<1>1. l \in Nat /\ DOMAIN ms = 1..l /\ \A k \in 1..l : ms[k] \in Pieces
  OBVIOUS
<1>2. \A k \in 1..l : /\ ms[k] \in Seq(Byte) /\ ms[k] # << >>
                      /\ new[k] = Msg("pack", 0, ms[k])
  BY <1>1 DEF Pieces
<1>3. \A k \in 1..l : /\ new[k] \in Messages /\ new[k].kind = "pack" /\ new[k].bytes = ms[k]
  BY <1>2, MsgType
<1>4. new \in Seq(Messages) /\ Len(new) = l
  <2>1. new \in [1..l -> Messages]
    BY <1>1, <1>3
  <2> HIDE DEF new, l
  <2> QED
    BY <1>1, <2>1
<1>5. calls = given \o new
  OBVIOUS
<1> HIDE DEF new
<1>6. \A k \in 1..l : Answered(new[k])
  BY <1>2, <1>3 DEF Answered
<1>7. /\ calls \in Seq(Messages) /\ Len(calls) = n + l /\ n \in Nat
      /\ \A k \in 1 .. n + l : calls[k] = IF k <= n THEN given[k] ELSE new[k - n]
  <2> DEFINE cc == Join(given, new)
  <2>1. /\ cc \in Seq(Messages) /\ Len(cc) = Len(given) + Len(new) /\ n \in Nat
        /\ \A k \in 1 .. Len(given) + Len(new) :
              cc[k] = IF k <= Len(given) THEN given[k] ELSE new[k - Len(given)]
    BY <1>4, JoinMessages
  <2> HIDE DEF cc, n, l
  <2>2. cc = calls /\ n = Len(given)
    BY <1>5 DEF cc, n, Join
  <2> QED
    BY <1>4, <2>1, <2>2
<1>8. DOMAIN calls = 1 .. n + l /\ DOMAIN given = 1..n
  BY <1>1, <1>7
<1>9. Gave \in Seq(Seq(Byte)) /\ Len(Gave) = n /\ ms \in Seq(Seq(Byte))
      /\ \A k \in 1..n : Gave[k] = given[k].bytes
  <2>1. ms \in Seq(Seq(Byte))
    BY WiderSeq
  <2> QED
    BY <1>8, <2>1, GaveType DEF Gave
<1>10. /\ all \in Seq(H) /\ Len(all) = n + l
       /\ \A k \in 1 .. n + l : all[k] = IF k <= n THEN Gave[k] ELSE ms[k - n]
  BY <1>9, ConcatProperties
<1> HIDE DEF n, l
<1>11. ASSUME NEW k \in 1 .. n + l PROVE Answered(calls[k]) /\ calls[k].bytes = all[k]
  <2>1. CASE k <= n
    <3>1. k \in 1..n
      BY <1>7, <2>1
    <3> QED
      BY <1>7, <1>8, <1>9, <1>10, <2>1, <3>1, AnswersAll
  <2>2. CASE ~(k <= n)
    <3>1. k - n \in 1..l
      BY <1>1, <1>7, <2>2
    <3> QED
      BY <1>3, <1>6, <1>7, <1>10, <2>2, <3>1
  <2> QED
    BY <2>1, <2>2
<1>12. \A k \in DOMAIN calls : Answered(calls[k])
  BY <1>8, <1>11
<1> HIDE DEF all
<1>13. BytesOf(calls) = all
  <2>1. BytesOf(calls) = [k \in 1 .. n + l |-> calls[k].bytes]
    BY <1>8 DEF BytesOf
  <2>2. all = [k \in 1 .. n + l |-> all[k]]
    BY <1>10
  <2> QED
    BY <1>11, <2>1, <2>2
<1>14. FlattenSeq(all) = Join(FlattenSeq(Gave), FlattenSeq(ms))
  BY <1>9, FlattenBoth DEF all
<1> QED
  BY <1>7, <1>10, <1>12, <1>13, <1>14

\* The last call of read_cb, with no bytes, when hio_unpack goes on for ever.
LEMMA LastCall ==
    ASSUME NEW calls \in Seq(Messages), \A k \in DOMAIN calls : Answered(calls[k]),
           given' = calls \o <<Msg("pack", 0, << >>)>>, life' = "dead"
    PROVE  given' \in Seq(Messages) /\ AnswersRequest'
<1> DEFINE msg == Msg("pack", 0, << >>)
           n == Len(calls)
<1>1. msg \in Messages /\ msg.kind = "pack"
  <2> DEFINE none == << >>
  <2>1. none \in Seq(Byte) /\ 0 \in Nat
    OBVIOUS
  <2> HIDE DEF none
  <2>2. Msg("pack", 0, none) \in Messages /\ Msg("pack", 0, none).kind = "pack"
    BY <2>1, MsgType
  <2> QED
    BY <2>2 DEF none
<1> HIDE DEF msg
<1>2. <<msg>> \in Seq(Messages) /\ Len(<<msg>>) = 1 /\ <<msg>>[1] = msg
  BY <1>1
<1>3. given' = Join(calls, <<msg>>)
  BY DEF msg, Join
<1>4. /\ given' \in Seq(Messages) /\ Len(given') = n + 1 /\ n \in Nat
      /\ \A k \in 1 .. n + 1 : given'[k] = IF k <= n THEN calls[k] ELSE <<msg>>[k - n]
  <2> DEFINE one == <<msg>>
             cc == Join(calls, one)
  <2>1. one \in Seq(Messages) /\ Len(one) = 1
    BY <1>2
  <2> HIDE DEF one
  <2>2. /\ cc \in Seq(Messages) /\ Len(cc) = Len(calls) + Len(one) /\ Len(calls) \in Nat
        /\ \A k \in 1 .. Len(calls) + Len(one) :
              cc[k] = IF k <= Len(calls) THEN calls[k] ELSE one[k - Len(calls)]
    BY <2>1, JoinMessages
  <2>3. given' = cc
    BY <1>3 DEF one
  <2> HIDE DEF cc
  <2> QED
    BY <2>1, <2>2, <2>3 DEF one
<1>5. DOMAIN given' = 1 .. n + 1 /\ DOMAIN calls = 1..n
  BY <1>4
<1> HIDE DEF n
<1>6. ASSUME NEW k \in 1 .. n + 1
      PROVE  Answered(given'[k]) \/ (given'[k].kind = "pack" /\ k = Len(given'))
  <2>1. CASE k <= n
    <3>1. k \in 1..n
      BY <1>4, <2>1
    <3> QED
      BY <1>4, <1>5, <2>1, <3>1
  <2>2. CASE ~(k <= n)
    <3>1. k = n + 1 /\ k - n = 1
      BY <1>4, <2>2
    <3>2. given'[k] = msg
      BY <1>2, <1>4, <2>2, <3>1
    <3> QED
      BY <1>1, <1>4, <3>1, <3>2
  <2> QED
    BY <2>1, <2>2
<1>7. AnswersRequest'
  BY <1>5, <1>6 DEF AnswersRequest, Answered
<1> QED
  BY <1>4, <1>7

LEMMA HandleUnpackKeeps ==
    ASSUME IInv, SensibleSettings, life = "open", setting # NoSetting, ~rb.over,
           NEW b, NEW chunk, Got(b, chunk), HandleUnpack(b, chunk), stream' = stream \o chunk,
           UNCHANGED <<until, setting>>
    PROVE  IInv'
<1> DEFINE s == setting
           u == hio_unpack(Data(b), Len(chunk), s)
           len == UnpackBufLen(u, b.len, s)
           done == SmallPackages(b, u.msgs)
           left == IF u.bad THEN done ELSE Unread(done, u.rest)
           W == Wholes(s)
           calls == given \o [k \in DOMAIN u.msgs |-> Msg("pack", 0, u.msgs[k])]
           misread == Misread(Data(b), s)
<1>0. /\ Open /\ Types /\ AnswersRequest /\ s \in Settings /\ Sensible(s)
      /\ flags = {} /\ cbs = << >> /\ rb.head = 0 /\ rb.alloced
      /\ ("bad_length" \notin met => Gave \in Seq(W) /\ Data(rb) \in Parts(s))
      /\ given \in Seq(Messages) /\ life # "dead"
      /\ ("bad_length" \in met => s.mode = "LENGTH_FIELD")
  BY DEF IInv, Types, Open, Unpacking, SensibleSettings
<1>1. /\ b.head \in Nat /\ b.tail \in Nat /\ b.len \in Nat \ {0} /\ b.head < b.tail
      /\ Data(b) \in Seq(Byte) /\ Len(Data(b)) = b.tail - b.head
      /\ (~b.alloced \/ b.len <= HighWater => b.small = 0)
      /\ stream' \in Seq(Byte) /\ FlattenSeq(Gave) \o Data(b) = stream'
      /\ stream' # << >>
  BY GotFacts
<1>2. /\ IsBuffer(b) /\ b.head = 0 /\ b.tail <= b.len /\ b.alloced
      /\ chunk \in Seq(Byte) /\ Data(b) = Data(rb) \o chunk
  BY <1>0 DEF Got
<1>3. JustCut(Data(b), u) /\ (~misread => WellCut(s, u))
  <2> DEFINE data == Data(b)
             old == Data(rb)
  <2>1. /\ old \in Seq(Byte) /\ data = old \o chunk
        /\ (s.mode # "LENGTH_FIELD" => old \in Parts(s))
    BY <1>0, <1>2, OpenFacts
  <2> HIDE DEF data, old
  <2>2. /\ JustCut(data, hio_unpack(data, Len(chunk), s))
        /\ (~Misread(data, s) => WellCut(s, hio_unpack(data, Len(chunk), s)))
    BY <1>0, <1>2, <2>1, UnpackWell
  <2> QED
    BY <2>2 DEF data
<1>4. /\ given' = calls \o (IF u.endless THEN <<Msg("pack", 0, << >>)>> ELSE << >>)
      /\ met' = MetWhen(misread, "bad_length")
      /\ \/ /\ u.endless
            /\ rb' = b /\ life' = "dead" /\ watch' = watch
         \/ /\ ~u.endless /\ (u.bad \/ len = -1)
            /\ rb' = Autosize(hio_free_readbuf(left)) /\ life' = "closed" /\ watch' = FALSE
         \/ /\ ~u.endless /\ ~(u.bad \/ len = -1)
            /\ rb' = Autosize(IF len = b.len THEN left ELSE hio_alloc_readbuf(left, len))
            /\ UNCHANGED <<life, watch>>
      /\ UNCHANGED <<flags, cbs, after>>
  BY DEF HandleUnpack
<1>m. /\ met' \subseteq {"full", "shrink", "bad_length"}
      /\ ("bad_length" \in met' => s.mode = "LENGTH_FIELD")
      /\ ("bad_length" \notin met' => "bad_length" \notin met /\ ~misread)
  <2>1. misread => s.mode = "LENGTH_FIELD"
    BY DEF Misread
  <2>2. met \subseteq {"full", "shrink", "bad_length"}
    BY <1>0 DEF Types
  <2> HIDE DEF misread
  <2> QED
    BY <1>0, <1>4, <2>1, <2>2 DEF MetWhen
<1> HIDE DEF u, s, misread
<1>5. /\ u.msgs \in Seq(Pieces) /\ u.rest \in Seq(Byte) /\ u.bad \in BOOLEAN
      /\ u.endless \in BOOLEAN /\ u.package_len \in Nat
      /\ FlattenSeq(u.msgs) \o u.rest = Data(b)
  BY <1>3 DEF JustCut
<1>6. len = -1 \/ (len \in Nat \ {0} /\ len >= b.len)
  BY <1>0, <1>1, <1>5, BufLenGrows
<1> HIDE DEF len, W
<1>7. u.msgs \in Seq(Seq(Byte)) /\ W \in SUBSET Seq(Byte)
  <2>1. Pieces \subseteq Seq(Byte)
    BY DEF Pieces
  <2>2. u.msgs \in Seq(Seq(Byte))
    BY <1>5, <2>1, WiderSeq
  <2> QED
    BY <2>2 DEF W, Wholes
<1> DEFINE all == BytesOf(calls)
<1>8. /\ calls \in Seq(Messages) /\ \A k \in DOMAIN calls : Answered(calls[k])
      /\ FlattenSeq(all) = Join(FlattenSeq(Gave), FlattenSeq(u.msgs))
      /\ ("bad_length" \notin met' => all \in Seq(W))
  <2> DEFINE ms == u.msgs
             cs == given \o [k \in DOMAIN ms |-> Msg("pack", 0, ms[k])]
  <2>1. ms \in Seq(Pieces) /\ ms \in Seq(Seq(Byte)) /\ Gave \in Seq(Seq(Byte))
        /\ ("bad_length" \notin met' => ms \in Seq(W) /\ Gave \in Seq(W))
    BY <1>0, <1>3, <1>5, <1>7, <1>m, GaveType DEF WellCut, W
  <2>2. calls = cs
    OBVIOUS
  <2> HIDE DEF ms, cs, calls
  <2>3. cs = given \o [k \in DOMAIN ms |-> Msg("pack", 0, ms[k])]
    BY DEF cs
  <2>4. /\ cs \in Seq(Messages) /\ \A k \in DOMAIN cs : Answered(cs[k])
        /\ FlattenSeq(BytesOf(cs)) = Join(FlattenSeq(Gave), FlattenSeq(ms))
    BY <1>0, <2>1, <2>3, ManyCalls
  <2>5. "bad_length" \notin met' => BytesOf(cs) \in Seq(W)
    BY <1>0, <1>7, <2>1, <2>3, ManyCalls
  <2> QED
    BY <2>2, <2>4, <2>5 DEF ms
<1> HIDE DEF calls
<1>a. ~u.endless => /\ given' \in Seq(Messages) /\ AnswersRequest' /\ Gave' = all
  <2> SUFFICES ASSUME ~u.endless PROVE given' \in Seq(Messages) /\ AnswersRequest' /\ Gave' = all
    OBVIOUS
  <2>1. given' = calls
    BY <1>4, <1>8, ConcatEmptySeq
  <2> QED
    BY <1>8, <2>1, AnswersAllAfter DEF Gave, BytesOf
<1> HIDE DEF all
<1>9. /\ IsBuffer(done) /\ (~done.alloced \/ done.len <= HighWater => done.small = 0)
      /\ done.head = b.head /\ done.tail = b.tail /\ done.len = b.len /\ done.alloced = b.alloced
  BY <1>1, <1>2, <1>7, SmallPackagesType
<1> HIDE DEF done
<1>10. Len(u.rest) <= b.len /\ Len(u.rest) \in Nat
  <2> DEFINE F == FlattenSeq(u.msgs)
             r == u.rest
  <2>1. F \in Seq(Byte) /\ r \in Seq(Byte) /\ F \o r = Data(b)
    BY <1>5, <1>7, FlattenType
  <2> HIDE DEF F, r
  <2>2. Len(F \o r) = Len(F) + Len(r) /\ Len(F) \in Nat /\ Len(r) \in Nat
    BY <2>1, ConcatProperties
  <2>3. Len(r) <= b.len
    BY <1>1, <1>2, <2>1, <2>2
  <2> QED
    BY <2>2, <2>3 DEF r
<1> DEFINE fresh == Unread(done, u.rest)
<1>11. /\ Sound(fresh) /\ Data(fresh) = u.rest /\ fresh.head = 0 /\ fresh.tail = Len(u.rest)
       /\ fresh.len = b.len /\ fresh.alloced
  <2> DEFINE r == u.rest
  <2>1. r \in Seq(Byte) /\ Len(r) <= done.len /\ done.alloced
        /\ (done.len <= HighWater => done.small = 0)
    BY <1>2, <1>5, <1>9, <1>10
  <2> HIDE DEF r
  <2>2. LET c == Unread(done, r) IN
        /\ Sound(c) /\ Data(c) = r /\ c.head = 0 /\ c.tail = Len(r) /\ c.len = done.len /\ c.alloced
    BY <1>9, <2>1, UnreadSound
  <2> QED
    BY <1>9, <2>2 DEF r
<1> HIDE DEF fresh
<1>e. CASE u.endless
  <2>1. /\ rb' = b /\ life' = "dead" /\ watch' = watch
        /\ given' = calls \o <<Msg("pack", 0, << >>)>>
    BY <1>4, <1>e
  <2>2. given' \in Seq(Messages) /\ AnswersRequest'
    BY <1>8, <2>1, LastCall
  <2>3. Types'
    BY <1>0, <1>1, <1>2, <1>4, <1>m, <2>1, <2>2 DEF Types, s
  <2> QED
    BY <2>1, <2>2, <2>3 DEF IInv
<1>12. CASE ~u.endless /\ (u.bad \/ len = -1)
  <2>1. rb' = Autosize(hio_free_readbuf(left)) /\ life' = "closed" /\ watch' = FALSE
    BY <1>4, <1>12
  <2>2. IsBuffer(left) /\ left.head <= left.tail
    <3>1. IsBuffer(done) /\ done.head <= done.tail
      BY <1>1, <1>9
    <3>2. IsBuffer(fresh) /\ fresh.head <= fresh.tail
      BY <1>11 DEF Sound
    <3>3. left = IF u.bad THEN done ELSE fresh
      BY DEF fresh
    <3> QED
      BY <3>1, <3>2, <3>3
  <2> HIDE DEF left
  <2> DEFINE c == hio_free_readbuf(left)
  <2>3. IsBuffer(c) /\ c.head <= c.tail
    BY <2>2, FreeType
  <2> HIDE DEF c
  <2>4. IsBuffer(rb') /\ rb'.head <= rb'.tail
    BY <2>1, <2>3, AutosizeType DEF c
  <2>5. Types'
    BY <1>0, <1>1, <1>4, <1>12, <1>a, <1>m, <2>1, <2>4 DEF Types, s
  <2> QED
    BY <1>12, <1>a, <2>1, <2>5 DEF IInv
<1>13. CASE ~u.endless /\ ~(u.bad \/ len = -1)
  <2> DEFINE c == IF len = b.len THEN fresh ELSE hio_alloc_readbuf(fresh, len)
  <2>1. rb' = Autosize(c) /\ life' = life /\ watch' = watch
    BY <1>4, <1>13 DEF fresh
  <2>2. Sound(c) /\ Data(c) = u.rest /\ c.head = 0 /\ c.alloced
    <3>1. CASE len = b.len
      BY <1>11, <3>1
    <3>2. CASE len # b.len
      <4>1. len \in Nat \ {0} /\ fresh.tail <= len
        BY <1>1, <1>6, <1>10, <1>11, <1>13
      <4> QED
        BY <1>11, <3>2, <4>1, AllocSound
    <3> QED
      BY <3>1, <3>2
  <2> HIDE DEF c
  <2>3. /\ Sound(rb') /\ Data(rb') = u.rest /\ rb'.head = 0 /\ rb'.alloced
        /\ ~rb'.over => rb'.tail < rb'.len
    BY <2>1, <2>2, AutosizeSound
  <2>4. Types'
    <3>1. IsBuffer(rb') /\ rb'.head <= rb'.tail
      BY <2>3 DEF Sound
    <3> QED
      BY <1>0, <1>1, <1>4, <1>13, <1>a, <1>m, <2>1, <3>1 DEF Types, s
  <2>5. Bytes'
    <3> DEFINE F == FlattenSeq(Gave)
               M == FlattenSeq(u.msgs)
               r == u.rest
    <3>1. F \in Seq(Byte) /\ M \in Seq(Byte) /\ r \in Seq(Byte) /\ M \o r = Data(b)
          /\ F \o Data(b) = stream' /\ FlattenSeq(Gave') = Join(F, M)
      BY <1>0, <1>1, <1>5, <1>7, <1>8, <1>13, <1>a, FlattenType, GaveType
    <3> HIDE DEF F, M, r
    <3>2. Join(F, Join(M, r)) = Join(Join(F, M), r)
      BY <3>1, Rejoin
    <3>3. Data(rb)' = r
      BY <2>3 DEF r
    <3>4. FlattenSeq(Gave') \o r = stream'
      BY <3>1, <3>2, Zenon DEF Join
    <3> QED
      BY <1>1, <3>3, <3>4 DEF Bytes
  <2>6. Room' /\ Waiting'
    BY <1>0, <1>4, <2>3 DEF Room, Waiting
  <2>7. Unpacking'
    <3>1. "bad_length" \notin met' => u.rest \in Parts(s) /\ Gave' \in Seq(W)
      BY <1>3, <1>8, <1>13, <1>a, <1>m DEF WellCut
    <3> QED
      BY <1>0, <1>4, <2>3, <3>1 DEF Unpacking, W, s
  <2> QED
    BY <1>13, <1>a, <2>3, <2>4, <2>5, <2>6, <2>7 DEF IInv, Open
<1> QED
  BY <1>5, <1>e, <1>12, <1>13

LEMMA NioReadKeeps ==
    ASSUME IInv, SensibleSettings, NioRead
    PROVE  IInv'
<1>0. life = "open" /\ ~rb.over /\ UNCHANGED <<until, setting>>
  BY DEF NioRead, Readable
<1>1. PICK n \in 1 .. Least(RecvLen, MaxBytes - Len(stream)) : \E chunk \in [1..n -> Values] :
        LET b == Filled(rb, RecvLen, chunk) IN
          /\ Fits(n) /\ stream' = stream \o chunk
          /\ IF setting # NoSetting THEN HandleUnpack(b, chunk)
             ELSE UNCHANGED life /\ (HandleLength(b) \/ HandleDelim(b, chunk) \/ HandleAll(b))
  BY DEF NioRead
<1>2. PICK chunk \in [1..n -> Values] :
        LET b == Filled(rb, RecvLen, chunk) IN
          /\ Fits(n) /\ stream' = stream \o chunk
          /\ IF setting # NoSetting THEN HandleUnpack(b, chunk)
             ELSE UNCHANGED life /\ (HandleLength(b) \/ HandleDelim(b, chunk) \/ HandleAll(b))
  BY <1>1
<1> DEFINE b == Filled(rb, RecvLen, chunk)
<1>3. n \in Nat \ {0} /\ n <= RecvLen
  <2>1. MaxBytes - Len(stream) \in Int /\ RecvLen \in Int
    <3>1. stream \in Seq(Byte) /\ until \in Nat /\ rb.tail \in Nat /\ rb.head \in Nat /\ rb.len \in Nat
      BY <1>0, OpenFacts DEF IInv, Types
    <3> QED
      BY <3>1, HioReadAssumption DEF RecvLen
  <2> QED
    BY <2>1 DEF Least
<1>4. Got(b, chunk)
  BY <1>0, <1>2, <1>3, RecvGets
<1>5. /\ stream' = stream \o chunk
      /\ IF setting # NoSetting THEN HandleUnpack(b, chunk)
         ELSE UNCHANGED life /\ (HandleLength(b) \/ HandleDelim(b, chunk) \/ HandleAll(b))
  BY <1>2
<1> HIDE DEF b
<1>6. CASE setting # NoSetting
  BY <1>0, <1>4, <1>5, <1>6, HandleUnpackKeeps
<1>7. CASE setting = NoSetting
  BY <1>0, <1>4, <1>5, <1>7, HandleLengthKeeps, HandleDelimKeeps, HandleAllKeeps
<1> QED
  BY <1>6, <1>7

LEMMA InitHolds == Init => IInv
<1> SUFFICES ASSUME Init PROVE IInv
  OBVIOUS
<1> DEFINE cells == Cells(LoopBuf)
<1>0. /\ LoopBuf \in Nat \ {0} /\ MaxReadBuf \in Nat /\ SmallMax \in Nat /\ 0 \in Byte
      /\ 0 \in 0..SmallMax /\ 0 \in Nat
  BY UnpackAssumption, HioReadAssumption DEF Byte
<1>1. cells \in Cell(LoopBuf)
  BY <1>0 DEF Cell, Cells
<1>2. rb = [base |-> cells, len |-> LoopBuf, head |-> 0, tail |-> 0,
            alloced |-> FALSE, max |-> MaxReadBuf, small |-> 0, over |-> FALSE]
  BY DEF Init
<1> HIDE DEF cells
<1>3. /\ rb.base = cells /\ rb.len = LoopBuf /\ rb.head = 0 /\ rb.tail = 0 /\ rb.alloced = FALSE
      /\ rb.small = 0 /\ rb.over = FALSE
  BY <1>2
<1>4. rb \in Buffers(Cell(LoopBuf))
  BY <1>0, <1>1, <1>2 DEF Buffers
<1>5. IsBuffer(rb)
  BY <1>3, <1>4 DEF IsBuffer
<1>6. Sound(rb)
  BY <1>0, <1>3, <1>5 DEF Sound
<1>7. Data(rb) \in Seq(Byte) /\ Len(Data(rb)) = 0
  BY <1>0, <1>3, <1>5, DataType
<1>8. Data(rb) = << >>
  BY <1>7, EmptySeq
<1>9. Types
  <2>1. rb.head <= rb.tail
    BY <1>3
  <2>2. /\ flags = {} /\ until = 0 /\ setting = NoSetting /\ watch = FALSE /\ life = "open"
        /\ cbs = << >> /\ after = "return" /\ stream = << >> /\ given = << >> /\ met = {}
    BY DEF Init
  <2>3. << >> \in Seq(Nat) /\ << >> \in Seq(Byte) /\ << >> \in Seq(Messages)
    OBVIOUS
  <2>4. /\ flags \in {{}, {"ONCE"}, {"LENGTH", "ONCE"}, {"DELIM", "ONCE"}}
        /\ setting \in Settings \cup {NoSetting} /\ watch \in BOOLEAN
        /\ life \in {"open", "closed", "dead"} /\ after \in {"autosize", "return"}
        /\ met \subseteq {"full", "shrink", "bad_length"} /\ "bad_length" \notin met
    BY <2>2
  <2>5. until \in Nat
    BY <2>2
  <2>6. cbs \in Seq(Nat) /\ stream \in Seq(Byte) /\ given \in Seq(Messages)
    BY <2>2, <2>3
  <2> QED
    BY <1>5, <2>1, <2>4, <2>5, <2>6 DEF Types
<1>10. AnswersRequest
  BY DEF Init, AnswersRequest
<1>11. Bytes
  <2>1. Gave = << >>
    BY DEF Init, Gave
  <2>2. FlattenSeq(Gave) \o Data(rb) = << >>
    BY <1>8, <2>1, FlattenEmpty
  <2> QED
    BY <2>2 DEF Init, Bytes
<1>12. Room /\ Waiting /\ Unpacking
  BY <1>0, <1>3 DEF Init, Room, Waiting, Unpacking
<1> QED
  BY <1>6, <1>9, <1>10, <1>11, <1>12 DEF IInv, Open

LEMMA StutterKeeps ==
    ASSUME IInv, UNCHANGED vars
    PROVE  IInv'
<1>0. UNCHANGED <<rb, flags, until, setting, watch, life, cbs, after, stream, given, met>>
  BY DEF vars
<1>1. Types' /\ AnswersRequest'
  BY <1>0 DEF IInv, Types, AnswersRequest
<1>2. Gave' = Gave /\ Data(rb)' = Data(rb) /\ (Sound(rb) => Sound(rb)')
  BY <1>0 DEF Gave, Data
<1>3. Open => Open'
  BY <1>0, <1>2 DEF Open, Bytes, Room, Waiting, Unpacking
<1> QED
  BY <1>0, <1>1, <1>3 DEF IInv

LEMMA NextKeeps ==
    ASSUME SensibleSettings, IInv, [Next]_vars
    PROVE  IInv'
<1>1. CASE hio_read
  BY <1>1, ReadKeeps
<1>2. CASE hio_read_once
  BY <1>2, ReadOnceKeeps
<1>3. ASSUME NEW n \in Lengths, hio_read_until_length(n) PROVE IInv'
  BY <1>3, UntilLengthKeeps
<1>4. ASSUME NEW d \in Delims, hio_read_until_delim(d) PROVE IInv'
  BY <1>4, UntilDelimKeeps
<1>5. ASSUME NEW s \in Settings, hio_set_unpack(s) PROVE IInv'
  BY <1>5, SetUnpackKeeps
<1>6. CASE hio_close \/ PostedClose \/ NioReadNone \/ NioReadOverrun
  BY <1>6, CloseKeeps
<1>7. CASE ReadCbReturns
  BY <1>7, ReturnsKeeps
<1>8. CASE NioRead
  BY <1>8, NioReadKeeps
<1>9. CASE UNCHANGED vars
  BY <1>9, StutterKeeps
<1> QED
  BY <1>1, <1>2, <1>3, <1>4, <1>5, <1>6, <1>7, <1>8, <1>9 DEF Next

-----------------------------------------------------------------------------
(* The theorems.                                                           *)

\* The invariant of hio_read_until_*, nio_read and hio_unpack together.
THEOREM Inductive == ASSUME SensibleSettings PROVE Spec => []IInv
<1>1. Init => IInv
  BY InitHolds
<1>2. IInv /\ [Next]_vars => IInv'
  BY NextKeeps
<1> QED
  BY <1>1, <1>2, PTL DEF Spec

\* head and tail of the read buffer stay in order, and inside it.
THEOREM TypeCorrect == ASSUME SensibleSettings PROVE Spec => []TypeOK
<1>1. IInv => TypeOK
  <2> SUFFICES ASSUME IInv PROVE TypeOK
    OBVIOUS
  <2>1. /\ rb.len \in Nat \ {0} /\ rb.base \in [0 .. rb.len - 1 -> 0 .. ByteBase - 1]
        /\ rb.alloced \in BOOLEAN /\ rb.max \in Nat /\ rb.small \in 0..SmallMax
        /\ rb.over \in BOOLEAN
    BY DEF IInv, Types, IsBuffer, Buffers, Cell, Byte
  <2>2. life = "open" => rb.head \in 0..rb.tail /\ rb.tail \in 0..rb.len
    BY OpenFacts
  <2>3. flags \subseteq {"ONCE", "LENGTH", "DELIM"}
    BY DEF IInv, Types
  <2> QED
    BY <2>1, <2>2, <2>3 DEF IInv, Types, TypeOK
<1> QED
  BY <1>1, Inductive, PTL

\* What read_cb was given and what waits in the buffer is what was received,
\* each byte once and in order, until the program closes or fails.
THEOREM BytesInOrder == ASSUME SensibleSettings PROVE Spec => []InOrderOnce
<1>1. IInv => InOrderOnce
  BY DEF IInv, Open, Bytes, InOrderOnce, Gave
<1> QED
  BY <1>1, Inductive, PTL

\* Every call of read_cb answers what was asked for: that many bytes, or
\* bytes up to the first delimiter; also the call that takes the byte behind
\* tail for it.  Only an endless hio_unpack calls it with no bytes.
THEOREM RequestsAnswered == ASSUME SensibleSettings PROVE Spec => []AnswersRequest
<1>1. IInv => AnswersRequest
  BY DEF IInv
<1> QED
  BY <1>1, Inductive, PTL

\* In unpack mode read_cb has been given exactly the packages of the stream,
\* in whatever pieces recv returned it, as long as hio_unpack has met no
\* length field whose package does not hold its head or is as long as LenMod.
THEOREM UnpacksExactly == ASSUME SensibleSettings PROVE Spec => []UnpackExact
<1>1. IInv => UnpackExact
  <2> SUFFICES ASSUME IInv, setting # NoSetting, life = "open", "bad_length" \notin met
               PROVE  Gave = Packages(stream, setting)
    BY DEF UnpackExact, Gave
  <2> DEFINE s == setting
             r == Data(rb)
             ms == Gave
             data == stream
  <2>1. /\ r \in Parts(s) /\ ms \in Seq(Wholes(s)) /\ data \in Seq(Byte)
        /\ FlattenSeq(ms) \o r = data
    BY DEF IInv, Types, Open, Unpacking, Bytes
  <2> HIDE DEF s, r, ms, data
  <2>2. Packages(data, s) = ms
    BY <2>1, PackagesAre
  <2> QED
    BY <2>2 DEF data, s, ms
<1> QED
  BY <1>1, Inductive, PTL

\* What is pending cannot be answered from the buffer, and the loop reads.
THEOREM PendingIsIncomplete == ASSUME SensibleSettings PROVE Spec => []PendingNeedsMore
<1>1. IInv => PendingNeedsMore
  <2> SUFFICES ASSUME IInv, life = "open", ~rb.over
               PROVE  /\ "LENGTH" \in flags => watch /\ rb.tail - rb.head < until
                      /\ "DELIM" \in flags =>
                            watch /\ \A i \in DOMAIN Data(rb) : Data(rb)[i] # until
    BY DEF PendingNeedsMore
  <2>1. DOMAIN Data(rb) = 1 .. rb.tail - rb.head
    BY OpenFacts
  <2> QED
    BY <2>1 DEF IInv, Open, Waiting
<1> QED
  BY <1>1, Inductive, PTL

\* What nio_read asks recv for: its assertion "len > 0" holds as long as no
\* read until a delimiter has filled the buffer and left bytes, and the bytes
\* fit as long as hio_read_until_length has not waited in a buffer that small
\* reads may halve.
THEOREM RecvFits == ASSUME SensibleSettings PROVE Spec => []RecvInBuffer
<1>1. IInv => RecvInBuffer
  <2> SUFFICES ASSUME IInv PROVE RecvInBuffer
    OBVIOUS
  <2>1. life = "open" => rb.head \in 0..rb.tail /\ rb.tail \in 0..rb.len
    BY OpenFacts
  <2>2. ASSUME Readable
        PROVE  /\ "full" \notin met => RecvLen > 0
               /\ "shrink" \notin met => RecvLen <= rb.len - rb.tail
    <3>1. /\ rb.head \in Nat /\ rb.tail \in Nat /\ rb.len \in Nat /\ rb.head <= rb.tail
          /\ rb.tail <= rb.len /\ until \in Nat /\ ~rb.over /\ Open
      BY <2>2, OpenFacts DEF Readable, IInv, Types
    <3>2. CASE "LENGTH" \in flags
      <4>1. /\ RecvLen = until - (rb.tail - rb.head) /\ rb.tail - rb.head < until
            /\ "shrink" \notin met => rb.head + until <= rb.len
        BY <3>1, <3>2 DEF RecvLen, Open, Room, Waiting
      <4> QED
        BY <3>1, <4>1
    <3>3. CASE "LENGTH" \notin flags
      <4>1. RecvLen = rb.len - rb.tail /\ ("full" \notin met => rb.tail < rb.len)
        BY <3>1, <3>3 DEF RecvLen, Open, Room
      <4> QED
        BY <3>1, <4>1
    <3> QED
      BY <3>2, <3>3
  <2> QED
    BY <2>1, <2>2 DEF RecvInBuffer, AsksForSome, AsksForRoom
<1> QED
  BY <1>1, Inductive, PTL

=============================================================================
