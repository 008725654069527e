-------------------------------- MODULE Reader --------------------------------
(* mpack_reader_t: a window on a stream of bytes. The reader holds the whole *)
(* message, or a buffer that the fill function of the caller fills again    *)
(* and again, with as many bytes as it likes; a skip function may move the   *)
(* stream on. A byte in the memory of the model is its place in the stream. *)
EXTENDS MsgPack, Utf8

CONSTANTS
    Streams,        \* what there is to read: messages, whole or cut short
    Sizes,          \* of the buffers readers are initialised with
    MinimumSize,    \* MPACK_READER_MINIMUM_BUFFER_SIZE
    SmallFraction,  \* MPACK_READER_SMALL_FRACTION_DENOMINATOR
    Chunks,         \* what the fill function gives at once
    Pieces,         \* how much of a string is read at once
    TargetSizes     \* of the buffers C strings are read into

ASSUME ReaderAssumption ==
    /\ Streams \subseteq Seq(0..255)
    /\ Sizes \subseteq Nat \ {0} /\ MinimumSize \in Nat \ {0}
    /\ SmallFraction \in Nat \ {0} /\ Chunks \subseteq Nat \ {0}
    /\ Pieces \subseteq Nat /\ TargetSizes \subseteq Nat

VARIABLES
    stream,  \* the bytes there are
    size,    \* of the buffer; 0 for a reader of data in memory
    fill,    \* a fill function is set
    skip,    \* a skip function is set
    mem,     \* the buffer, or the data in memory
    data,    \* data - buffer
    end,     \* end - buffer
    src,     \* how much of the stream the source has handed over
    err,     \* the first error flagged, or "ok"
    edge,    \* history: the end of the last memory handed to the source
    pos,     \* history: how much of the stream the calls were asked for
    left,    \* history: the bytes of an open string not asked for yet
    last     \* history: the last call, where it began and what it gave

setup == <<stream, size, fill, skip>>
vars == <<stream, size, fill, skip, mem, data, end, src, err, edge, pos, left, last>>

NUL == 0
Junk == -1      \* memory nothing was written to
Zeros(n) == [i \in 1..n |-> NUL]
Places(from, n) == [i \in 1..n |-> from + i]
Bytes(places) == [i \in 1..Len(places) |-> stream[places[i]]]

(* The state an operation works on. *)
Reader(chunk) ==
    [mem |-> mem, data |-> data, end |-> end, src |-> src, err |-> err,
     edge |-> edge, chunk |-> chunk, got |-> <<>>]

InBuffer(r) == r.end - r.data
Window(r, n) == SubSeq(r.mem, r.data + 1, r.data + n)

(* mpack_reader_flag_error *)
FlagError(r, e) == IF r.err = "ok" THEN [r EXCEPT !.err = e, !.end = r.data] ELSE r

Least(a, b) == IF a <= b THEN a ELSE b

(* mpack_fill_range: how much the source gives in the calls that ask for    *)
(* at least few and at most many bytes; it gives nothing at its end.        *)
Given(r, few, many) ==
    LET more(c) == Least(r.chunk, Least(many - c, Len(stream) - r.src - c))
        after[c \in 0..many] ==
          IF c >= few THEN c ELSE IF more(c) = 0 THEN c ELSE after[c + more(c)]
    IN  after[0]

Write(m, at, from, n) ==
    [i \in DOMAIN m |-> IF i \in at + 1..at + n THEN from + i - at ELSE m[i]]

FillRange(r, at, few, many) ==
    LET n == Given(r, few, many)
        f == [r EXCEPT !.mem = Write(r.mem, at, r.src, n), !.src = @ + n, !.edge = at + many]
    IN  IF n < few THEN FlagError(f, "io") ELSE f

EnsureStraddle(r, n) ==
    LET k == InBuffer(r)
        moved == [r EXCEPT !.mem = [i \in DOMAIN @ |-> IF i <= k THEN r.mem[r.data + i] ELSE @[i]],
                           !.data = 0, !.end = k]
        f == FillRange(moved, k, n - k, size - k)
    IN  IF ~fill THEN FlagError(r, "invalid")
        ELSE IF n > size THEN FlagError(r, "too_big")
        ELSE IF f.err = "ok" THEN [f EXCEPT !.end = k + f.src - r.src] ELSE f

Ensure(r, n) == IF n <= InBuffer(r) THEN r ELSE EnsureStraddle(r, n)

(* Faulty: the buffer is taken to end where the read ends. *)
ReadThroughBufferShort(r, head, n) ==
    LET f == FillRange(r, 0, n, size)
    IN  IF f.err # "ok" THEN [f EXCEPT !.got = head \o [i \in 1..n |-> Junk]]
        ELSE [f EXCEPT !.got = head \o SubSeq(f.mem, 1, n), !.data = n, !.end = n]

(* A small rest is read through the buffer, a large one into the target.    *)
(* When the source fails the target keeps what is in it.                    *)
ReadThroughBuffer(r, head, n) ==
    LET f == FillRange(r, 0, n, size)
    IN  IF f.err # "ok" THEN [f EXCEPT !.got = head \o [i \in 1..n |-> Junk]]
        ELSE [f EXCEPT !.got = head \o SubSeq(f.mem, 1, n), !.data = n, !.end = f.src - r.src]

ReadPastBuffer(r, head, n) ==
    LET k == Given(r, n, n)
        f == [r EXCEPT !.src = @ + k,
                       !.got = head \o Places(r.src, k) \o [i \in 1..n - k |-> Junk]]
    IN  IF k < n THEN FlagError(f, "io") ELSE f

ReadNativeStraddle(r, n) ==
    LET head == Window(r, InBuffer(r))
        emptied == [r EXCEPT !.data = r.end]
        rest == n - Len(head)
    IN  IF r.err # "ok" THEN [r EXCEPT !.got = Zeros(n)]
        ELSE IF ~fill THEN [FlagError(r, "invalid") EXCEPT !.got = Zeros(n)]
        ELSE IF rest <= size \div SmallFraction THEN ReadThroughBuffer(emptied, head, rest)
        ELSE ReadPastBuffer(emptied, head, rest)

ReadNative(r, n) ==
    IF n > InBuffer(r) THEN ReadNativeStraddle(r, n)
    ELSE [r EXCEPT !.got = Window(r, n), !.data = @ + n]

-----------------------------------------------------------------------------
(* mpack_reader_skip_using_fill: whole buffers first, then the rest. *)
SkipUsingFill(r, n) ==
    LET full == (n - 1) \div size
        after[k \in 0..full] == IF k = 0 THEN r ELSE
            IF after[k - 1].err # "ok" THEN after[k - 1]
            ELSE FillRange(after[k - 1], 0, size, size)
        rest == n - full * size
        f == FillRange([after[full] EXCEPT !.data = 0], 0, rest, size)
    IN  IF after[full].err # "ok" THEN after[full]
        ELSE IF f.err # "ok" THEN f
        ELSE [f EXCEPT !.data = rest, !.end = f.src - after[full].src]

(* The skip function of the caller: it fails at the end of the stream. *)
CallSkip(r, n) ==
    IF r.src + n > Len(stream) THEN FlagError(r, "io") ELSE [r EXCEPT !.src = @ + n]

SkipBytesStraddle(r, n) ==
    LET rest == n - InBuffer(r)
        emptied == [r EXCEPT !.data = r.end]
    IN  IF ~fill THEN FlagError(r, "invalid")
        ELSE IF skip /\ rest > size \div 16 THEN CallSkip(emptied, rest)
        ELSE SkipUsingFill(emptied, rest)

SkipBytes(r, n) ==
    IF r.err # "ok" THEN r
    ELSE IF InBuffer(r) >= n THEN [r EXCEPT !.data = @ + n]
    ELSE SkipBytesStraddle(r, n)

(* Bytes that are in the buffer are shown, and passed over. *)
Show(r, n) == IF r.err = "ok" THEN [r EXCEPT !.got = Window(r, n)] ELSE r

Consume(p) == IF p.err = "ok" THEN [p EXCEPT !.data = @ + Len(p.got)] ELSE p

(* mpack_read_bytes_inplace_notrack: a pointer into the buffer, or none. *)
ReadInplace(r, n) == IF r.err = "ok" THEN Consume(Show(Ensure(r, n), n)) ELSE r

(* mpack_parse_tag: the first byte tells how many more are needed. With     *)
(* 0xca and 0xcb control leaves the switch, and what the program does is    *)
(* undefined; the model ends there with an error of its own, unreachable.   *)
ParseTagFrom(one) ==
    LET b == stream[one.mem[one.data + 1]]
    IN  IF one.err # "ok" THEN one
        ELSE IF Refusal(b) # "ok" THEN FlagError(one, Refusal(b))
        ELSE Show(Ensure(one, TagSize(b)), TagSize(b))

PeekTagBytes(r) == IF r.err = "ok" THEN ParseTagFrom(Ensure(r, 1)) ELSE r

ReadTagBytes(r) == Consume(PeekTagBytes(r))

(* What comes after a tag before the next element, and inside it. *)
Payload(t) == IF t.type \in {"str", "bin"} THEN Number(t.v) ELSE 0
Children(t) ==
    IF t.type = "array" THEN Number(t.v) ELSE IF t.type = "map" THEN 2 * Number(t.v) ELSE 0

(* mpack_discard: element after element until none is open. The model       *)
(* counts the elements still to come where the code calls itself.           *)
Discard(r) ==
    LET inside(p, t, todo) ==
          IF p.err # "ok" THEN [r |-> p, todo |-> 0]
          ELSE [r |-> SkipBytes(p, Payload(t)), todo |-> todo - 1 + Children(t)]
        element(p, todo) == inside(p, ParseTag(Bytes(p.got)), todo)
        one(q) == IF q.todo = 0 \/ q.r.err # "ok" THEN q
                  ELSE element(ReadTagBytes(q.r), q.todo)
        after[k \in 0..Len(stream) + 1] ==
          IF k = 0 THEN [r |-> r, todo |-> 1] ELSE one(after[k - 1])
    IN  [after[Len(stream) + 1].r EXCEPT !.got = <<>>]

-----------------------------------------------------------------------------
Becomes(r) ==
    /\ mem' = r.mem /\ data' = r.data /\ end' = r.end /\ src' = r.src
    /\ err' = r.err /\ edge' = r.edge

(* A call that asks for what the stream holds up to there; it counts when   *)
(* the call succeeds.                                                       *)
Asks(call, to, r) ==
    /\ Becomes(r)
    /\ last' = [call |-> call, from |-> pos, to |-> to, got |-> r.got]
    /\ pos' = IF r.err = "ok" THEN to ELSE pos
    /\ UNCHANGED setup

Plain == left = 0 /\ UNCHANGED left
Inside(n) == n <= left /\ left' = left - n

(* Where the tag, or the element with all that is in it, ends that begins    *)
(* after this many bytes; behind the end when the stream holds no such one. *)
Behind == Len(stream) + 1

TagEnd(at) ==
    IF at >= Len(stream) THEN Behind
    ELSE IF Refusal(stream[at + 1]) # "ok" THEN Behind
    ELSE Least(Behind, at + TagSize(stream[at + 1]))

ElementEnd(at) ==
    LET tag(i) == ParseTag(SubSeq(stream, i + 1, TagEnd(i)))
        next(i, k) == <<Least(Behind, TagEnd(i) + Payload(tag(i))),
                        Least(Behind, k - 1 + Children(tag(i)))>>
        after[x \in (0..Behind) \X (0..Behind)] ==
          IF x[2] = 0 THEN x[1] ELSE IF TagEnd(x[1]) = Behind THEN Behind
          ELSE after[next(x[1], x[2])]
    IN  after[<<at, 1>>]

(* mpack_read_tag *)
TagRead(r) ==
    /\ Asks("tag", TagEnd(pos), r)
    /\ left' = IF r.err = "ok" THEN Payload(ParseTag(Bytes(r.got))) ELSE 0

ReadNextTag(chunk) == left = 0 /\ TagRead(ReadTagBytes(Reader(chunk)))

(* mpack_peek_tag *)
TagPeeked(r) ==
    /\ Becomes(r)
    /\ last' = [call |-> "peek", from |-> pos, to |-> TagEnd(pos), got |-> r.got]
    /\ UNCHANGED <<setup, pos>>

PeekTag(chunk) == Plain /\ TagPeeked(PeekTagBytes(Reader(chunk)))

(* mpack_discard *)
DiscardElement(chunk) == Plain /\ Asks("discard", ElementEnd(pos), Discard(Reader(chunk)))

(* mpack_skip_bytes *)
SkipSome(chunk, n) == Inside(n) /\ Asks("skip", pos + n, SkipBytes(Reader(chunk), n))

(* mpack_read_bytes *)
ReadBytes(chunk, n) == Inside(n) /\ Asks("bytes", pos + n, ReadNative(Reader(chunk), n))

(* The functions below take the whole string. *)
AsksForText(call, r) == left > 0 /\ left' = 0 /\ Asks(call, pos + left, r)

(* mpack_read_utf8 *)
CheckUtf8(r, got) ==
    IF r.err = "ok" /\ ~Check(Bytes(r.got), TRUE)
    THEN [FlagError(r, "type") EXCEPT !.got = got] ELSE r

KeepUtf8(r) == CheckUtf8(r, r.got)

ReadUtf8(chunk) == AsksForText("utf8", KeepUtf8(ReadNative(Reader(chunk), left)))

(* mpack_read_cstr_unchecked: the target gets a terminator behind the text; *)
(* it begins with one when nothing can be read into it.                     *)
Terminate(t) == [t EXCEPT !.got = @ \o <<NUL>>]

ReadTerminated(r, n, room) ==
    IF r.err # "ok" THEN [r EXCEPT !.got = <<NUL>>]
    ELSE IF n > room - 1 THEN [FlagError(r, "too_big") EXCEPT !.got = <<NUL>>]
    ELSE Terminate(ReadNative(r, n))

Text(r) == SubSeq(r.got, 1, Len(r.got) - 1)

(* mpack_read_cstr and mpack_read_utf8_cstr empty the target when the text  *)
(* is not one they accept.                                                  *)
Accept(r, accepts(_)) ==
    IF r.err = "ok" /\ ~accepts(Bytes(Text(r)))
    THEN [FlagError(r, "type") EXCEPT !.got = <<NUL>>] ELSE r

ReadCstr(chunk, room) ==
    AsksForText("cstr", Accept(ReadTerminated(Reader(chunk), left, room), NoNull))

ReadUtf8Cstr(chunk, room) ==
    AsksForText("cstr", Accept(ReadTerminated(Reader(chunk), left, room), CheckNoNull))

(* mpack_read_bytes_inplace *)
ReadBytesInplace(chunk, n) ==
    Inside(n) /\ Asks("inplace", pos + n, ReadInplace(Reader(chunk), n))

(* mpack_read_utf8_inplace gives no text it does not accept. *)
ReadUtf8Inplace(chunk) ==
    AsksForText("inplace", CheckUtf8(ReadInplace(Reader(chunk), left), <<>>))

(* mpack_reader_remaining: what the buffer holds after the message. *)
Remaining ==
    /\ left = 0
    /\ last' = [call |-> "remaining", from |-> pos, to |-> pos,
                got |-> IF err = "ok" THEN SubSeq(mem, data + 1, end) ELSE <<>>]
    /\ UNCHANGED <<setup, mem, data, end, src, err, edge, pos, left>>

Begun == last.call # "none"

(* mpack_reader_set_fill *)
SetFill ==
    LET r == FlagError(Reader(1), "bug")
    IN  /\ ~Begun /\ ~fill /\ err = "ok"
        /\ IF size < MinimumSize THEN Becomes(r) /\ UNCHANGED fill
           ELSE fill' = TRUE /\ UNCHANGED <<mem, data, end, src, err, edge>>
        /\ UNCHANGED <<stream, size, skip, pos, left, last>>

(* mpack_reader_set_skip *)
SetSkip ==
    /\ ~Begun /\ fill /\ ~skip
    /\ skip' = TRUE
    /\ UNCHANGED <<stream, size, fill, mem, data, end, src, err, edge, pos, left, last>>

(* mpack_reader_init_data *)
InitData ==
    /\ size = 0 /\ mem = Places(0, Len(stream)) /\ end = Len(stream) /\ err = "ok"

(* mpack_reader_init: the buffer may hold a part of the stream already. *)
InitBuffer ==
    /\ size \in Sizes /\ err = "ok"
    /\ end \in {0, Least(size, Least(3, Len(stream)))}
    /\ mem = [i \in 1..size |-> IF i <= end THEN i ELSE Junk]

(* mpack_reader_init_error *)
InitError == size = 0 /\ mem = <<>> /\ end = 0 /\ err = "io"

Init ==
    /\ stream \in Streams
    /\ InitData \/ InitBuffer \/ InitError
    /\ src = end /\ data = 0 /\ edge = 0
    /\ fill = FALSE /\ skip = FALSE
    /\ pos = 0 /\ left = 0
    /\ last = [call |-> "none", from |-> 0, to |-> 0, got |-> <<>>]

Counts == {n \in Pieces \cup {left} : 0 < n /\ n <= left}

Next ==
    \/ \E c \in Chunks :
          \/ ReadNextTag(c) \/ PeekTag(c) \/ DiscardElement(c)
          \/ ReadUtf8(c) \/ ReadUtf8Inplace(c)
          \/ \E n \in Counts : SkipSome(c, n) \/ ReadBytes(c, n) \/ ReadBytesInplace(c, n)
          \/ \E room \in TargetSizes : ReadCstr(c, room) \/ ReadUtf8Cstr(c, room)
    \/ Remaining \/ SetFill \/ SetSkip

Spec == Init /\ [][Next]_vars

-----------------------------------------------------------------------------
ReaderTypeOK ==
    /\ fill \in BOOLEAN /\ skip \in BOOLEAN
    /\ err \in {"ok", "io", "too_big", "invalid", "bug", "type", "unsupported", "unreachable"}
    /\ 0 <= data /\ data <= end /\ end <= Len(mem)
    /\ src \in 0..Len(stream)

(* The source is never given memory behind the end of the buffer, so no     *)
(* answer of a fill function can write there.                               *)
FillsInsideBuffer == edge <= size

(* The window and the calls agree on where the stream is: no byte is lost   *)
(* between two calls, none is read twice, whatever the fill function gave   *)
(* and whichever of the three ways of skipping or reading was taken.        *)
WindowFollowsStream ==
    err = "ok" => /\ src - (end - data) = pos
                  /\ \A i \in 1..end - data : mem[data + i] = pos + i

(* A call that succeeds hands out the bytes that come next, all of them.    *)
GivesNextBytes ==
    err = "ok" =>
        LET text == IF last.call = "cstr" THEN Text(last) ELSE last.got
        IN  text = Places(last.from, Len(text))

(* The window is where the calls are and stays inside the buffer, and the   *)
(* calls give the bytes of the stream.                                      *)
ReaderInv == ReaderTypeOK /\ FillsInsideBuffer /\ WindowFollowsStream /\ GivesNextBytes

(* A reader reports no error without a cause: the stream does not hold what *)
(* the call asks for, or what it asks for does not fit in one piece.        *)
RefusesForAReason ==
    [][err = "ok" /\ last' # last =>
          /\ err' \in {"io", "invalid"} => last'.to > IF fill THEN Len(stream) ELSE src
          /\ err' = "too_big" => /\ last'.call \in {"cstr", "inplace"}
                                /\ \E n \in TargetSizes \cup Sizes : last'.to - pos >= n]_vars

(* The comment of mpack_read_cstr: "If an error occurs, the buffer will     *)
(* contain an empty string."                                                *)
EmptyOnError == err # "ok" /\ last.call = "cstr" => last.got[1] = NUL
=============================================================================
