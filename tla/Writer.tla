-------------------------------- MODULE Writer --------------------------------
(* mpack_writer_t: a buffer that is handed to a flush function when it is   *)
(* full, or that has to hold the whole message when there is none, as in    *)
(* every serialize_* of the driver. The calls are modelled byte for byte;   *)
(* the flush function of the caller may fail at any call.                   *)
EXTENDS MsgPack, Utf8, SequencesExt

CONSTANTS
    Sizes,          \* of the buffers writers are initialised with
    MinimumSize,    \* MPACK_WRITER_MINIMUM_BUFFER_SIZE
    Tags,           \* the values written, none a str or bin
    Texts,          \* the strings written
    MaxItems        \* bound: the elements of a message

WriterAssumption ==
    /\ Sizes \subseteq Nat /\ MinimumSize \in Nat /\ MaxItems \in Nat
    /\ Tags \subseteq AllTags /\ \A t \in Tags : t.type \notin {"str", "bin"}
    /\ Texts \subseteq Seq(Byte) /\ \A d \in Texts : CanCount(Len(d))

VARIABLES
    size,    \* end - buffer
    flush,   \* a flush function is set
    buf,     \* the bytes from buffer to current
    out,     \* what the flush function has taken
    err,     \* the first error flagged, or "ok"
    open,    \* mpack_writer_destroy has not been called
    asked    \* history: the elements of the calls so far

writerVars == <<size, flush, buf, out, err, open, asked>>

(* The state an operation works on. luck: how many of its calls of the      *)
(* flush function succeed before one fails.                                 *)
Writer(luck) == [buf |-> buf, out |-> out, err |-> err, luck |-> luck]

Left(w) == size - Len(w.buf)

(* mpack_writer_flag_error *)
FlagError(w, e) == IF w.err = "ok" THEN [w EXCEPT !.err = e] ELSE w

(* The flush function takes data, or flags an error. *)
CallFlush(w, data) ==
    IF w.luck = 0 THEN FlagError(w, "io")
    ELSE [w EXCEPT !.out = @ \o data, !.luck = @ - 1]

FlushUnchecked(w) == CallFlush([w EXCEPT !.buf = <<>>], w.buf)

Ensure(w, n) ==
    IF w.err # "ok" THEN w
    ELSE IF ~flush THEN FlagError(w, "too_big")
    ELSE LET f == FlushUnchecked(w)
         IN  IF f.err = "ok" /\ Left(f) < n THEN FlagError(f, "io") ELSE f

Store(w, bytes) == [w EXCEPT !.buf = @ \o bytes]

(* MPACK_WRITE_ENCODED: bytes that fit are stored even after an error. *)
WriteEncoded(w, bytes) ==
    IF Left(w) >= Len(bytes) THEN Store(w, bytes)
    ELSE LET e == Ensure(w, Len(bytes))
         IN  IF e.err = "ok" THEN Store(e, bytes) ELSE e

(* Faulty: the error of an earlier call is not looked at. *)
WriteNativeStraddleOn(w, bytes) ==
    IF ~flush THEN FlagError(w, "too_big")
    ELSE LET f == FlushUnchecked(w)
         IN  IF Len(bytes) > Left(f) THEN CallFlush(f, bytes) ELSE Store(f, bytes)

WriteNativeStraddle(w, bytes) ==
    IF w.err # "ok" THEN w
    ELSE IF ~flush THEN FlagError(w, "too_big")
    ELSE LET f == FlushUnchecked(w)
         IN  CASE f.err # "ok"             -> f
               [] f.err = "ok" /\ Len(bytes) > Left(f)  -> CallFlush(f, bytes)
               [] f.err = "ok" /\ Len(bytes) <= Left(f) -> Store(f, bytes)

WriteNative(w, bytes) ==
    IF Left(w) < Len(bytes) THEN WriteNativeStraddle(w, bytes) ELSE Store(w, bytes)

(* mpack_write_str: a short string is one piece, a longer one a header and  *)
(* then its bytes.                                                          *)
WriteStr(w, data) ==
    LET head == EncodeStr(Word(Len(data), 4))
    IN  IF Len(data) <= 31 \/ (Len(data) <= 255 /\ Left(w) >= Len(data) + Len(head))
        THEN WriteEncoded(w, head \o data)
        ELSE WriteNative(WriteEncoded(w, head), data)

WriteBytes(w, data) == WriteNative(w, data)

-----------------------------------------------------------------------------
Becomes(w) == buf' = w.buf /\ out' = w.out /\ err' = w.err

Item(tag, data) == [tag |-> tag, data |-> data]

CanWrite == open /\ Len(asked) < MaxItems

Asks(item) == asked' = Append(asked, item) /\ UNCHANGED <<size, flush, open>>

(* mpack_write_tag and the functions it calls. *)
WriteTag(luck, t) ==
    /\ CanWrite
    /\ Becomes(WriteEncoded(Writer(luck), Encode(t)))
    /\ Asks(Item(t, <<>>))

(* mpack_write_tag of a missing value. *)
WriteMissing ==
    /\ CanWrite
    /\ Becomes(FlagError(Writer(0), "bug"))
    /\ Asks(Item(Tag("missing", <<>>), <<>>))

(* mpack_write_str; mpack_write_cstr is the same for a C string. *)
WriteText(luck, d) ==
    /\ CanWrite
    /\ Becomes(WriteStr(Writer(luck), d))
    /\ Asks(Item(Str(Word(Len(d), 4)), d))

(* mpack_write_utf8_cstr_or_nil: nil for no string, and nothing at all for  *)
(* one that is not UTF-8.                                                   *)
WriteUtf8(luck, d) ==
    /\ CanWrite
    /\ Becomes(IF Check(d, TRUE) THEN WriteStr(Writer(luck), d)
               ELSE FlagError(Writer(luck), "invalid"))
    /\ Asks(Item(Str(Word(Len(d), 4)), d))

WriteNilForNoText(luck) ==
    /\ CanWrite
    /\ Becomes(WriteEncoded(Writer(luck), Encode(Nil)))
    /\ Asks(Item(Nil, <<>>))

(* mpack_write_bin *)
WriteBin(luck, d) ==
    /\ CanWrite
    /\ Becomes(WriteBytes(WriteEncoded(Writer(luck), EncodeBin(Word(Len(d), 4))), d))
    /\ Asks(Item(Bin(Word(Len(d), 4)), d))

(* mpack_start_str, mpack_write_bytes twice, mpack_finish_str. *)
WritePieces(luck, d) ==
    /\ CanWrite
    /\ LET half == Len(d) \div 2
           head == WriteEncoded(Writer(luck), EncodeStr(Word(Len(d), 4)))
       IN  Becomes(WriteBytes(WriteBytes(head, SubSeq(d, 1, half)), SubSeq(d, half + 1, Len(d))))
    /\ Asks(Item(Str(Word(Len(d), 4)), d))

(* mpack_write_object_bytes of an element that is already encoded. *)
WriteObject(luck, d) ==
    /\ CanWrite
    /\ Becomes(WriteNative(Writer(luck), EncodeStr(Word(Len(d), 4)) \o d))
    /\ Asks(Item(Str(Word(Len(d), 4)), d))

(* mpack_writer_set_flush refuses a buffer that cannot hold any tag. *)
SetFlush ==
    /\ open /\ ~flush /\ asked = <<>>
    /\ IF size < MinimumSize
       THEN Becomes(FlagError(Writer(0), "bug")) /\ UNCHANGED flush
       ELSE flush' = TRUE /\ UNCHANGED <<buf, out, err>>
    /\ UNCHANGED <<size, open, asked>>

(* mpack_writer_flush_message *)
FlushMessage(luck) ==
    /\ open /\ err = "ok"
    /\ \/ ~flush /\ Becomes(FlagError(Writer(luck), "bug"))
       \/ flush /\ buf # <<>> /\ Becomes(FlushUnchecked(Writer(luck)))
       \/ flush /\ buf = <<>> /\ UNCHANGED <<buf, out, err>>
    /\ UNCHANGED <<size, flush, open, asked>>

(* mpack_writer_destroy hands over what is left, and leaves it where it is. *)
Destroy(luck) ==
    /\ open
    /\ IF err = "ok" /\ buf # <<>> /\ flush
       THEN Becomes(CallFlush(Writer(luck), buf))
       ELSE UNCHANGED <<buf, out, err>>
    /\ open' = FALSE
    /\ UNCHANGED <<size, flush, asked>>

WriterInit ==
    /\ size \in Sizes
    /\ flush = FALSE /\ buf = <<>> /\ out = <<>> /\ err = "ok"
    /\ open = TRUE /\ asked = <<>>

Luck == 0..3

WriterNext ==
    \/ \E luck \in Luck :
          \/ \E t \in Tags : WriteTag(luck, t)
          \/ \E d \in Texts : \/ WriteText(luck, d) \/ WriteUtf8(luck, d)
                              \/ WriteBin(luck, d) \/ WritePieces(luck, d)
                              \/ WriteObject(luck, d)
          \/ WriteNilForNoText(luck) \/ FlushMessage(luck) \/ Destroy(luck)
    \/ WriteMissing
    \/ SetFlush

WriterSpec == WriterInit /\ [][WriterNext]_writerVars

-----------------------------------------------------------------------------
(* The elements of a message, read with the table of mpack_parse_tag. *)
Lost == Item(Tag("missing", <<>>), <<>>)

Decode(bytes) ==
    LET from[i \in 1..Len(bytes) + 1] ==
          IF i > Len(bytes) THEN <<>>
          ELSE LET n == TagSize(bytes[i])
                   t == ParseTag(SubSeq(bytes, i, i + n - 1))
                   k == IF t.type \in {"str", "bin"} THEN Number(t.v) ELSE 0
               IN  IF Refusal(bytes[i]) # "ok" \/ i + n - 1 > Len(bytes) THEN <<Lost>>
                   ELSE IF i + n + k - 1 > Len(bytes) THEN <<Lost>>
                   ELSE <<Item(t, SubSeq(bytes, i + n, i + n + k - 1))>> \o from[i + n + k]
    IN  from[1]

Same(items, others) ==
    /\ Len(items) = Len(others)
    /\ \A i \in 1..Len(items) :
          TagEqual(items[i].tag, others[i].tag) /\ items[i].data = others[i].data

(* The message so far: after mpack_writer_destroy it is where the caller    *)
(* looks for it.                                                            *)
Written == IF open THEN out \o buf ELSE IF flush THEN out ELSE buf

WriterTypeOK ==
    /\ size \in Sizes /\ flush \in BOOLEAN /\ open \in BOOLEAN
    /\ err \in {"ok", "io", "too_big", "bug", "invalid"}
    /\ \A i \in 1..Len(Written) : Written[i] \in Byte

(* No call writes behind the end of the buffer, whatever has failed before. *)
InsideBuffer == Len(buf) <= size

(* Unless an error is reported, reading the message gives the elements that *)
(* were written, in order and complete, however often it was flushed.       *)
MessageIsAsked == err = "ok" => Same(Decode(Written), asked)

(* What the flush function was given is the beginning of the message, also  *)
(* after an error, when short elements are still stored in the buffer.      *)
Bytes(item) == (IF item.tag.type = "missing" THEN <<>> ELSE Encode(item.tag)) \o item.data

FlushedIsBeginning == IsPrefix(out, FlattenSeq([i \in DOMAIN asked |-> Bytes(asked[i])]))

(* The writer stays inside its buffer and gives what was written, in full,  *)
(* or an error and a part that is right.                                    *)
WriterInv == WriterTypeOK /\ InsideBuffer /\ MessageIsAsked /\ FlushedIsBeginning
=============================================================================
