------------------------------- MODULE HioRead ------------------------------
(***************************************************************************)
(* The read side of one hio_t: the read buffer with its head and tail, the *)
(* requests for a length, a delimiter, one read or everything, and the     *)
(* packages of hio_set_unpack.  read_cb may make the next request or close *)
(* (a request that finds enough bytes calls read_cb again, at once).       *)
(*                                                                         *)
(* The peer sends any bytes, and recv() returns them in pieces of any size *)
(* up to what it is asked for.                                             *)
(*                                                                         *)
(* A program is followed up to and including the step in which it fails:   *)
(* an assertion, a write or a head beyond the buffer, or a loop without an *)
(* end.  life is "dead" from there on.                                     *)
(***************************************************************************)
EXTENDS Unpack, FiniteSets

CONSTANTS
    Values,       \* values of the bytes the peer sends
    MaxBytes,     \* how many bytes it sends (a bound of the model)
    Lengths,      \* arguments of hio_read_until_length
    Delims,       \* arguments of hio_read_until_delim
    Settings,     \* arguments of hio_set_unpack
    LoopBuf,      \* HLOOP_READ_BUFSIZE
    MaxReadBuf,   \* MAX_READ_BUFSIZE
    HighWater,    \* READ_BUFSIZE_HIGH_WATER
    MoveLimit,    \* 1024 in hio_read_until_length
    SmallMax      \* how many small reads let a buffer shrink (3)

ASSUME HioReadAssumption ==
    /\ Values \subseteq 0 .. ByteBase - 1 /\ Delims \subseteq 0 .. ByteBase - 1
    /\ MaxBytes \in Nat /\ Lengths \subseteq Nat \ {0}
    /\ LoopBuf \in Nat \ {0} /\ MaxReadBuf \in Nat \ {0}
    /\ HighWater \in Nat /\ MoveLimit \in Nat /\ SmallMax \in Nat \ {0}

NoSetting == [mode |-> "NONE"]

VARIABLES
    rb,        \* io->readbuf with alloced_readbuf, max_read_bufsize,
               \* small_readbytes_cnt (up to SmallMax) and ERR_OVER_LIMIT
    flags,     \* io->read_flags
    until,     \* read_until_length or read_until_delim, a union
    setting,   \* io->unpack_setting
    watch,     \* HV_READ is registered
    life,      \* "open", "closed" or "dead"
    cbs,       \* read_cb calls in progress, innermost last: their lengths
    after,     \* what follows the outermost of them: "autosize" or "return"
    stream,    \* history: all bytes received
    given,     \* history: what read_cb was called with, and why
    met        \* history: which of these has come about, see below

(***************************************************************************)
(* met holds                                                               *)
(*   "full"        when a read until a delimiter has filled the buffer and *)
(*                 has bytes behind the delimiter: hio_handle_read returns *)
(*                 without the autosize;                                   *)
(*   "shrink"      when hio_read_until_length waits in a buffer of more    *)
(*                 than HighWater, which small reads may halve;            *)
(*   "bad_length"  when hio_unpack has come upon a length field that does  *)
(*                 not hold its package's head, or not in an unsigned int. *)
(***************************************************************************)
vars == <<rb, flags, until, setting, watch, life, cbs, after, stream, given, met>>

Cells(len) == [i \in 0 .. len - 1 |-> 0]
Data(b)    == [i \in 1 .. b.tail - b.head |-> b.base[b.head + i - 1]]

-----------------------------------------------------------------------------
(* Operations on the read buffer.                                          *)

ResizedFresh(b, len) ==
    [b EXCEPT !.base = Cells(len), !.len = len, !.alloced = TRUE, !.small = 0]

\* Within the limit: hv_realloc keeps the bytes, HV_ALLOC (the loop's own
\* buffer was in use) does not.
Resized(b, len) ==
    [b EXCEPT !.base = [i \in 0 .. len - 1 |-> IF b.alloced /\ i < b.len THEN b.base[i] ELSE 0],
              !.len = len, !.alloced = TRUE, !.small = 0]

\* Over the limit: io->error, and hio_close_async.
hio_alloc_readbuf(b, len) ==
    IF len > b.max THEN [b EXCEPT !.over = TRUE] ELSE Resized(b, len)

\* Back to the loop's buffer; head and tail stay.
hio_free_readbuf(b) ==
    IF b.alloced THEN [b EXCEPT !.base = Cells(LoopBuf), !.len = LoopBuf, !.alloced = FALSE] ELSE b

hio_memmove_readbuf(b) ==
    [b EXCEPT !.head = 0, !.tail = b.tail - b.head,
              !.base = [i \in DOMAIN b.base |->
                          IF i < b.tail - b.head THEN b.base[b.head + i] ELSE b.base[i]]]

\* head and tail go back to 0 when nothing is left
Rewind(b) == IF b.head = b.tail THEN [b EXCEPT !.head = 0, !.tail = 0] ELSE b

\* n bytes leave the buffer at its head
Take(b, n) == Rewind([b EXCEPT !.head = @ + n])

Emptied(b) == [b EXCEPT !.head = 0, !.tail = 0]

\* The end of hio_handle_read.
Autosize(b) ==
    LET r == Rewind(b) IN
    IF r.tail = r.len
    THEN IF r.head = 0 THEN hio_alloc_readbuf(r, r.len * 2) ELSE hio_memmove_readbuf(r)
    ELSE IF r.tail < r.len \div 2 /\ r.small >= SmallMax THEN hio_alloc_readbuf(r, r.len \div 2)
    ELSE r

\* The end of hio_read_cb, after read_cb was given n bytes.
SmallReads(b, n) ==
    IF b.alloced /\ b.len > HighWater
    THEN [b EXCEPT !.small = IF n < b.len \div 2 THEN Least(@ + 1, SmallMax) ELSE 0]
    ELSE b

-----------------------------------------------------------------------------
(* hio_read_cb: a single read is over before read_cb is called.            *)

Msg(kind, arg, bytes) == [kind |-> kind, arg |-> arg, bytes |-> bytes]

Once(f) ==
    /\ flags' = f \ {"ONCE"}
    /\ watch' = IF "ONCE" \in f THEN FALSE ELSE watch

Deliver(f, msg) ==
    /\ Once(f)
    /\ given' = Append(given, msg)
    /\ cbs' = Append(cbs, Len(msg.bytes))

Idle == cbs = << >>

MetWhen(so, what) == IF so THEN met \cup {what} ELSE met

\* Callers have one request at a time pending.
User ==
    /\ life = "open" /\ setting = NoSetting
    /\ flags = {} /\ (~Idle \/ ~watch)

-----------------------------------------------------------------------------
(* Requests, from read_cb or, when no read is going on, from elsewhere.    *)

\* hio_read_start = hio_read
hio_read ==
    /\ User
    /\ \/ /\ rb.tail > rb.head /\ flags = {}      \* hio_read_remain
          /\ given' = Append(given, Msg("all", 0, Data(rb)))
          /\ cbs' = Append(cbs, rb.tail - rb.head)
          /\ rb' = Emptied(rb)
          /\ after' = IF Idle THEN "return" ELSE after
       \/ /\ ~(rb.tail > rb.head /\ flags = {})
          /\ UNCHANGED <<given, cbs, rb, after>>
    /\ watch' = TRUE
    /\ UNCHANGED <<flags, until, setting, life, stream, met>>

hio_read_once ==
    /\ User
    /\ flags' = flags \cup {"ONCE"}
    /\ watch' = TRUE
    /\ UNCHANGED <<rb, until, setting, life, cbs, after, stream, given, met>>

UntilLengthSpaceNoHead(n) ==
    IF ~rb.alloced \/ rb.len < n THEN hio_alloc_readbuf(rb, n) ELSE rb

\* "prepare readbuf" of hio_read_until_length
UntilLengthSpace(n) ==
    LET b == IF rb.head > MoveLimit \/ rb.tail - rb.head < MoveLimit
             THEN hio_memmove_readbuf(rb) ELSE rb
    IN  IF ~b.alloced \/ b.len < b.head + n THEN hio_alloc_readbuf(b, b.head + n) ELSE b

hio_read_until_length(n) ==
    /\ User
    /\ \/ /\ rb.tail - rb.head >= n
          /\ Deliver(flags, Msg("length", n, SubSeq(Data(rb), 1, n)))
          /\ rb' = Take(rb, n)
          /\ after' = IF Idle THEN "return" ELSE after
          /\ UNCHANGED <<until, met>>
       \/ /\ rb.tail - rb.head < n
          /\ met' = MetWhen(UntilLengthSpace(n).len > HighWater, "shrink")
          /\ flags' = {"LENGTH", "ONCE"} /\ until' = n /\ watch' = TRUE
          /\ rb' = UntilLengthSpace(n)
          /\ UNCHANGED <<given, cbs, after>>
    /\ UNCHANGED <<setting, life, stream>>

ScannedShort == IF rb.tail > rb.head THEN rb.head .. rb.tail - 2 ELSE {}

\* The code searches up to and including base[tail], a byte that was not
\* received; behind the end of the buffer it is any byte, perhaps d (beyond).
Scanned == IF rb.tail > rb.head THEN rb.head .. rb.tail ELSE {}
Hits(d, beyond) == {i \in Scanned : IF i < rb.len THEN rb.base[i] = d ELSE beyond}

\* A match at tail leaves head behind tail.
hio_read_until_delim(d) ==
    /\ User
    /\ \E beyond \in BOOLEAN :
       LET hits == Hits(d, beyond)
           len  == First(hits) - rb.head + 1
       IN
       \/ /\ hits # {}
          /\ Deliver(flags, Msg("delim", d, [i \in 1..len |->
                        IF rb.head + i - 1 < rb.len THEN rb.base[rb.head + i - 1] ELSE d]))
          /\ rb' = Take(rb, len)
          /\ life' = IF hits = {rb.tail} THEN "dead" ELSE life
          /\ after' = IF Idle THEN "return" ELSE after
          /\ UNCHANGED until
       \/ /\ hits = {}
          /\ flags' = {"DELIM", "ONCE"} /\ until' = d /\ watch' = TRUE
          /\ rb' = IF ~rb.alloced \/ rb.len < LoopBuf THEN hio_alloc_readbuf(rb, LoopBuf) ELSE rb
          /\ UNCHANGED <<given, cbs, after, life>>
    /\ UNCHANGED <<setting, stream, met>>

\* hio_set_unpack when the connection begins, then hio_read_start
hio_set_unpack(s) ==
    /\ Idle /\ life = "open" /\ stream = << >> /\ setting = NoSetting /\ flags = {}
    /\ setting' = s
    /\ LET len == IF s.mode = "FIXED_LENGTH" THEN s.fixed_length
                  ELSE Least(LoopBuf, s.package_max_length)
       IN  rb' = [Resized(rb, len) EXCEPT !.max = s.package_max_length]
    /\ watch' = TRUE
    /\ UNCHANGED <<flags, until, life, cbs, after, stream, given, met>>

\* hio_close with nothing to write, then hio_done
hio_close ==
    /\ life = "open" /\ setting = NoSetting
    /\ life' = "closed" /\ watch' = FALSE
    /\ rb' = hio_free_readbuf(rb)
    /\ UNCHANGED <<flags, until, setting, cbs, after, stream, given, met>>

\* The eventfd has a higher priority than the connection: the posted close
\* comes before the next nio_read.
PostedClose ==
    /\ Idle /\ rb.over /\ life = "open"
    /\ life' = "closed" /\ watch' = FALSE
    /\ rb' = hio_free_readbuf(rb)
    /\ UNCHANGED <<flags, until, setting, cbs, after, stream, given, met>>

\* The innermost read_cb returns, to the call around it or to the loop.
ReadCbReturns ==
    /\ ~Idle /\ life # "dead"
    /\ LET b == SmallReads(rb, Last(cbs)) IN
       rb' = IF Len(cbs) = 1 /\ after = "autosize" THEN Autosize(b) ELSE b
    /\ cbs' = Front(cbs)
    /\ after' = IF Len(cbs) = 1 THEN "return" ELSE after
    /\ UNCHANGED <<life, flags, until, setting, watch, stream, given, met>>

-----------------------------------------------------------------------------
(* nio_read and hio_handle_read.                                           *)

\* how many bytes recv() is asked for
RecvLen == IF "LENGTH" \in flags THEN until - (rb.tail - rb.head) ELSE rb.len - rb.tail

Filled(b, want, chunk) ==
    LET n == Len(chunk) IN
    [b EXCEPT !.tail = @ + n,
              !.base = [i \in DOMAIN b.base |->
                          IF i \in b.tail .. b.tail + n - 1 THEN chunk[i - b.tail + 1]
                          ELSE IF i = b.tail + n /\ n < want THEN 0 ELSE b.base[i]]]

HandleLength(b) ==
    /\ "LENGTH" \in flags
    /\ UNCHANGED met
    /\ \/ /\ b.tail - b.head >= until
          /\ Deliver(flags \ {"LENGTH"}, Msg("length", until, SubSeq(Data(b), 1, until)))
          /\ rb' = Take(b, until) /\ after' = "autosize"
       \/ /\ b.tail - b.head < until
          /\ rb' = Autosize(b)
          /\ UNCHANGED <<flags, watch, given, cbs, after>>

DelimLenNew(b, chunk, i) == i

\* the message ends with the new byte chunk[i]: p - sp + 1
DelimLen(b, chunk, i) == b.tail - b.head - Len(chunk) + i

\* Only the new bytes are searched.
HandleDelim(b, chunk) ==
    LET hits == {i \in DOMAIN chunk : chunk[i] = until}
        len  == DelimLen(b, chunk, First(hits))
    IN
    /\ "LENGTH" \notin flags /\ "DELIM" \in flags
    /\ \/ /\ hits # {}
          /\ met' = MetWhen(b.tail = b.len /\ b.head + len # b.tail, "full")
          /\ Deliver(flags \ {"DELIM"}, Msg("delim", until, SubSeq(Data(b), 1, len)))
          /\ rb' = Take(b, len) /\ after' = "return"
       \/ /\ hits = {}
          /\ rb' = Autosize(b)
          /\ UNCHANGED <<flags, watch, given, cbs, after, met>>

HandleAll(b) ==
    /\ flags \cap {"LENGTH", "DELIM"} = {}
    /\ Deliver(flags, Msg("all", 0, Data(b)))
    /\ rb' = Emptied(b) /\ after' = "autosize" /\ UNCHANGED met

\* hio_unpack moves what is left to the front.
Unread(b, rest) ==
    [b EXCEPT !.head = 0, !.tail = Len(rest),
              !.base = [i \in DOMAIN b.base |-> IF i < Len(rest) THEN rest[i + 1] ELSE b.base[i]]]

\* SmallReads for one package after the other: the count goes on unless one
\* of them was not small, and then it is of those behind the last such.
SmallPackages(b, msgs) ==
    LET small(k) == Len(msgs[k]) < b.len \div 2
        run == Cardinality({k \in DOMAIN msgs : \A j \in k .. Len(msgs) : small(j)})
    IN  IF b.alloced /\ b.len > HighWater
        THEN [b EXCEPT !.small = Least(IF run = Len(msgs) THEN @ + run ELSE run, SmallMax)]
        ELSE b

HandleUnpack(b, chunk) ==
    LET u == hio_unpack(Data(b), Len(chunk), setting)
        len == UnpackBufLen(u, b.len, setting)
        done == SmallPackages(b, u.msgs)
        left == IF u.bad THEN done ELSE Unread(done, u.rest)
    IN
    /\ given' = given \o [k \in DOMAIN u.msgs |-> Msg("pack", 0, u.msgs[k])]
                      \o (IF u.endless THEN <<Msg("pack", 0, << >>)>> ELSE << >>)
    /\ met' = MetWhen(Misread(Data(b), setting), "bad_length")
    /\ \/ /\ u.endless
          /\ rb' = b /\ life' = "dead" /\ UNCHANGED watch
       \/ /\ ~u.endless /\ (u.bad \/ len = -1)     \* ERR_OVER_LIMIT, hio_close
          /\ rb' = Autosize(hio_free_readbuf(left))
          /\ life' = "closed" /\ watch' = FALSE
       \/ /\ ~u.endless /\ ~(u.bad \/ len = -1)
          /\ rb' = Autosize(IF len = b.len THEN left ELSE hio_alloc_readbuf(left, len))
          /\ UNCHANGED <<life, watch>>
    /\ UNCHANGED <<flags, cbs, after>>

\* nio_read begins.
Readable == Idle /\ watch /\ life = "open" /\ ~rb.over

\* assert(len > 0) fails.  Without assertions recv() of no bytes returns 0,
\* which is taken for the peer's end.
NioReadNone ==
    /\ Readable /\ RecvLen <= 0
    /\ \/ life' = "dead" /\ UNCHANGED <<rb, watch>>
       \/ life' = "closed" /\ watch' = FALSE /\ rb' = hio_free_readbuf(rb)
    /\ UNCHANGED <<flags, until, setting, cbs, after, stream, given, met>>

\* n bytes, and the '\0' behind them when there could have been more
Fits(n) == rb.tail + n + (IF n < RecvLen THEN 1 ELSE 0) <= rb.len

\* recv() or the '\0' writes beyond the buffer.
NioReadOverrun ==
    /\ Readable
    /\ \E n \in 1 .. Least(RecvLen, MaxBytes - Len(stream)) : ~Fits(n)
    /\ life' = "dead"
    /\ UNCHANGED <<rb, flags, until, setting, watch, cbs, after, stream, given, met>>

NioRead ==
    /\ Readable
    /\ \E n \in 1 .. Least(RecvLen, MaxBytes - Len(stream)) :
       \E chunk \in [1..n -> Values] :
          LET b == Filled(rb, RecvLen, chunk) IN
          /\ Fits(n)
          /\ stream' = stream \o chunk
          /\ IF setting # NoSetting THEN HandleUnpack(b, chunk)
             ELSE UNCHANGED life /\ (HandleLength(b) \/ HandleDelim(b, chunk) \/ HandleAll(b))
    /\ UNCHANGED <<until, setting>>

-----------------------------------------------------------------------------
Init ==
    /\ rb = [base |-> Cells(LoopBuf), len |-> LoopBuf, head |-> 0, tail |-> 0,
             alloced |-> FALSE, max |-> MaxReadBuf, small |-> 0, over |-> FALSE]
    /\ flags = {} /\ until = 0 /\ setting = NoSetting
    /\ watch = FALSE /\ life = "open" /\ cbs = << >> /\ after = "return"
    /\ stream = << >> /\ given = << >> /\ met = {}

Next ==
    \/ hio_read \/ hio_read_once
    \/ \E n \in Lengths : hio_read_until_length(n)
    \/ \E d \in Delims : hio_read_until_delim(d)
    \/ \E s \in Settings : hio_set_unpack(s)
    \/ hio_close \/ PostedClose \/ ReadCbReturns
    \/ NioReadNone \/ NioReadOverrun \/ NioRead

Spec == Init /\ [][Next]_vars

-----------------------------------------------------------------------------
(* Properties.                                                             *)

\* The type invariant: head and tail stay in order inside the buffer.
TypeOK ==
    /\ rb.len \in Nat \ {0}
    /\ life = "open" => rb.head \in 0..rb.tail /\ rb.tail \in 0..rb.len
    /\ rb.base \in [0 .. rb.len - 1 -> 0 .. ByteBase - 1]
    /\ rb.alloced \in BOOLEAN /\ rb.max \in Nat /\ rb.small \in 0..SmallMax /\ rb.over \in BOOLEAN
    /\ flags \subseteq {"ONCE", "LENGTH", "DELIM"}
    /\ until \in Nat /\ watch \in BOOLEAN
    /\ life \in {"open", "closed", "dead"} /\ met \subseteq {"full", "shrink", "bad_length"}
    /\ cbs \in Seq(Nat) /\ after \in {"autosize", "return"}

\* What read_cb was given and what waits in the buffer, together, is what was
\* received, once and in order, however it was cut, moved or reallocated.  It
\* says nothing of the state in which the program has failed: there read_cb
\* may have been given a byte that nobody sent, see OnlyReceived.
InOrderOnce ==
    life = "open" =>
        FlattenSeq([k \in DOMAIN given |-> given[k].bytes]) \o Data(rb) = stream

\* "hio_readstring", "hio_read_until_delim": read_cb is given bytes that were
\* received, in order.  The search for a delimiter in leftover bytes includes
\* the byte behind them, where nio_read has written '\0': then it is not so.
OnlyReceived ==
    IsPrefix(FlattenSeq([k \in DOMAIN given |-> given[k].bytes]), stream)

\* read_cb gets what was asked for: "hread_cb(len)", "hread_cb(...delim)".  It
\* is called with no bytes only by hio_unpack when that has no end.
AnswersRequest ==
    \A k \in DOMAIN given :
        LET m == given[k].bytes  a == given[k].arg IN
        CASE given[k].kind = "length" -> Len(m) = a
          [] given[k].kind = "delim" ->
                m # << >> /\ \A i \in DOMAIN m : m[i] = a <=> i = Len(m)
          [] OTHER -> m # << >> \/ (life = "dead" /\ k = Len(given))

\* In unpack mode read_cb has been given exactly the complete packages of
\* the stream, whatever the pieces in which it came, as long as every length
\* field met states a package that holds its head and fits an unsigned int.
UnpackExact ==
    setting # NoSetting /\ life = "open" /\ "bad_length" \notin met =>
        [k \in DOMAIN given |-> given[k].bytes] = Packages(stream, setting)

\* "package_len = head_len + body_len + length_adjustment": so are the packages
\* of a stream, whatever its length fields say.
UnpackAsStated ==
    setting # NoSetting /\ life # "closed" =>
        [k \in DOMAIN given |-> given[k].bytes] = Packages(stream, setting)

\* nio_read's assertion "len > 0".  It fails when a read until a delimiter has
\* left bytes at the end of a full buffer.
AsksForSome == Readable => RecvLen > 0

\* "prepare readbuf": what hio_read_until_length waits for fits the buffer.
\* It does not when small reads have halved the buffer meanwhile.
AsksForRoom == Readable => RecvLen <= rb.len - rb.tail

\* nio_read's assertion "len > 0", and the other half of it: recv() is never
\* asked for more than fits behind tail; head and tail stay in order.  Each
\* as long as what breaks it has not come about (full, shrink).
RecvInBuffer ==
    /\ life = "open" => rb.head \in 0..rb.tail /\ rb.tail \in 0..rb.len
    /\ "full" \notin met => AsksForSome
    /\ "shrink" \notin met => AsksForRoom

\* A request that is pending is not satisfied by bytes that are already
\* there, and the loop does read: no complete message waits for more bytes.
PendingNeedsMore ==
    Idle /\ life = "open" /\ ~rb.over =>
        /\ "LENGTH" \in flags => watch /\ rb.tail - rb.head < until
        /\ "DELIM" \in flags =>
              watch /\ \A i \in DOMAIN Data(rb) : Data(rb)[i] # until

=============================================================================
