---------------------------- MODULE FileStreams ----------------------------
(***************************************************************************)
(* A file of values: BufferedOutputStream in front of a FileOutputStream   *)
(* that writes it, and the FileInputStream that reads it, whose chunks end *)
(* anywhere, also inside a value.  Values are integers of variable length  *)
(* and strings behind their length; a reader may skip a string, and rewind *)
(* to read the file again.  write() may take fewer bytes than it is given, *)
(* which BufferedOutputStream does not look at.                            *)
(***************************************************************************)
EXTENDS Integers, Sequences, SequencesExt

CONSTANTS
    Values,         \* what is written: integers and strings (sequences of bytes)
    MaxNumber,      \* the largest uint64_t
    MaxValues,      \* bound: values in a file
    BufferSize,     \* capacity of the output buffer
    ChunkSize,      \* sizeof(buf_) of the input stream
    MaxRewinds      \* bound

ASSUME StreamsAssumption ==
    /\ MaxNumber \in Nat /\ BufferSize \in Nat \ {0} /\ ChunkSize \in Nat \ {0}
    /\ \A v \in Values :
         \/ v \in [string : {FALSE}, val : 0..MaxNumber, bytes : {<< >>}]
         \/ v \in [string : {TRUE}, val : {0}, bytes : Seq(Nat)] /\ Len(v.bytes) <= MaxNumber

VARIABLES
    wbuf,           \* buf_ of BufferedOutputStream
    valueFile,      \* the bytes of the file
    written,        \* history: the values that were written
    short,          \* history: a write() was short
    fpos,           \* the position of the file descriptor
    buf, buf_pos,   \* what is in the input buffer, and how far it has been read
    partial,        \* the value that is being read
    values,         \* the values read since the last rewind()
    mode, rewinds

outputVars == <<wbuf, valueFile, written, short>>
inputVars == <<fpos, buf, buf_pos, partial, values, rewinds>>
streamVars == <<outputVars, inputVars, mode>>

SkippedString == [string |-> TRUE, bytes |-> <<-1>>, val |-> 0]

\* A reader between two values.  weight is 2 to the power of 7 * i.
NoValue == [val |-> 0, weight |-> 1, length |-> -1, bytes |-> << >>]
-----------------------------------------------------------------------------
\* appendVarUInt(): seven bits to a byte, the lowest first.
VarUInt[value \in 0..MaxNumber] ==
    IF value < 128 THEN <<value>> ELSE <<128 + (value % 128)>> \o VarUInt[value \div 128]

\* appendVarUInt() and appendLenencString()
Encoded(value) ==
    IF value.string THEN VarUInt[Len(value.bytes)] \o value.bytes ELSE VarUInt[value.val]

\* What write(data) of BufferedOutputStream leaves in the buffer and hands to
\* the stream behind it: the buffer when it is full, and whole buffers of data.
Buffered(data) ==
    LET room == BufferSize - Len(wbuf)
        rest == Len(data) - room
        taken == room + ((rest - 1) \div BufferSize) * BufferSize
    IN  IF rest <= 0 THEN [wbuf |-> wbuf \o data, handed |-> << >>]
        ELSE [wbuf |-> SubSeq(data, taken + 1, Len(data)),
              handed |-> wbuf \o SubSeq(data, 1, taken)]

\* FileOutputStream::write(): the last one may be short, and the number of
\* bytes that it returns is not looked at.
WrittenOf(bytes, missing) == SubSeq(bytes, 1, Len(bytes) - missing)

Write(value) ==
    /\ mode = "write" /\ Len(written) < MaxValues
    /\ \E b \in {Buffered(Encoded(value))}, missing \in {0, 1} :
         /\ missing = 1 => b.handed # << >>
         /\ wbuf' = b.wbuf
         /\ valueFile' = valueFile \o WrittenOf(b.handed, missing)
         /\ short' = (short \/ missing = 1)
    /\ written' = Append(written, value)
    /\ UNCHANGED <<inputVars, mode>>

\* ~BufferedOutputStream() flushes.
Close ==
    /\ mode = "write" /\ mode' = "read"
    /\ wbuf' = << >>
    /\ \E missing \in IF wbuf = << >> THEN {0} ELSE {0, 1} :
         /\ valueFile' = valueFile \o WrittenOf(wbuf, missing)
         /\ short' = (short \/ missing = 1)
    /\ UNCHANGED <<written, inputVars>>
-----------------------------------------------------------------------------
\* readNextChunk(): read() returns as much as it likes, and nothing only at
\* the end of the file.
Chunks ==
    LET left == Len(valueFile) - fpos
        most == IF left < ChunkSize THEN left ELSE ChunkSize
        sizes == IF left <= 0 THEN {0} ELSE 1..most
    IN  {SubSeq(valueFile, fpos + 1, fpos + n) : n \in sizes}

\* The input stream after it has made sure that its buffer is not empty.
InputAt(b, pos, at) == [buf |-> b, pos |-> pos, fpos |-> at]
Refilled ==
    IF buf_pos < Len(buf) THEN {InputAt(buf, buf_pos, fpos)}
    ELSE {InputAt(chunk, 0, fpos + Len(chunk)) : chunk \in Chunks}

\* The byte that readVarUInt() or readNextBytes() gets, added to the value.
TakeByte(p, byte) ==
    IF p.length >= 0 THEN [p EXCEPT !.bytes = Append(@, byte)]
    ELSE [p EXCEPT !.val = @ + (byte % 128) * p.weight, !.weight = @ * 128]

\* readVarUInt() or readLenencString(), one readNextByte() at a time: it
\* raises at the end of the file.
ReadByte(string) ==
    /\ mode = "read" /\ Len(values) < Len(written)
    /\ string = written[Len(values) + 1].string
    /\ \E r \in Refilled :
         /\ fpos' = r.fpos /\ buf' = r.buf
         /\ IF r.pos >= Len(r.buf)
            THEN mode' = "raised" /\ buf_pos' = r.pos /\ UNCHANGED <<partial, values>>
            ELSE \E byte \in {r.buf[r.pos + 1]}, p \in {TakeByte(partial, r.buf[r.pos + 1])} :
                   /\ buf_pos' = r.pos + 1 /\ UNCHANGED mode
                   /\ IF partial.length < 0 /\ byte >= 128
                      THEN partial' = p /\ UNCHANGED values
                      ELSE IF partial.length < 0 /\ string /\ p.val > 0
                      THEN partial' = [p EXCEPT !.length = p.val] /\ UNCHANGED values
                      ELSE IF Len(p.bytes) < p.length
                      THEN partial' = p /\ UNCHANGED values
                      ELSE /\ partial' = NoValue
                           /\ values' = Append(values, [string |-> string, bytes |-> p.bytes,
                                                        val |-> IF string THEN 0 ELSE p.val])
    /\ UNCHANGED <<outputVars, rewinds>>

\* A skip that forgets what is left in the buffer.
SkipFromDescriptor ==
    /\ mode = "read" /\ partial.length > 0 /\ partial.bytes = << >>
    /\ IF partial.length <= Len(buf) - buf_pos
       THEN buf_pos' = buf_pos + partial.length /\ UNCHANGED <<buf, fpos>>
       ELSE buf' = << >> /\ buf_pos' = 0 /\ fpos' = fpos + partial.length
    /\ partial' = NoValue /\ values' = Append(values, SkippedString)
    /\ UNCHANGED <<outputVars, mode, rewinds>>

\* skipNextBytes() instead of the bytes of a string: in the buffer, or by a
\* seek that does not stop at the end of the file.
Skip ==
    /\ mode = "read" /\ partial.length > 0 /\ partial.bytes = << >>
    /\ IF partial.length <= Len(buf) - buf_pos
       THEN buf_pos' = buf_pos + partial.length /\ UNCHANGED <<buf, fpos>>
       ELSE /\ buf' = << >> /\ buf_pos' = 0
            /\ fpos' = fpos + partial.length - (Len(buf) - buf_pos)
    /\ partial' = NoValue /\ values' = Append(values, SkippedString)
    /\ UNCHANGED <<outputVars, mode, rewinds>>

\* eof(): nothing is left in the buffer, nor behind it.
EOF ==
    /\ mode = "read" /\ partial = NoValue /\ Len(values) = Len(written)
    /\ \E r \in Refilled :
         /\ fpos' = r.fpos /\ buf' = r.buf /\ buf_pos' = r.pos
         /\ mode' = IF r.pos >= Len(r.buf) THEN "eof" ELSE "more"
    /\ UNCHANGED <<outputVars, partial, values, rewinds>>

Rewind ==
    /\ mode \in {"read", "eof"} /\ partial = NoValue /\ rewinds < MaxRewinds
    /\ fpos' = 0 /\ buf' = << >> /\ buf_pos' = 0
    /\ values' = << >> /\ mode' = "read" /\ rewinds' = rewinds + 1
    /\ UNCHANGED <<outputVars, partial>>
-----------------------------------------------------------------------------
StreamInit ==
    /\ wbuf = << >> /\ valueFile = << >> /\ written = << >> /\ short = FALSE
    /\ fpos = 0 /\ buf = << >> /\ buf_pos = 0
    /\ partial = NoValue /\ values = << >> /\ mode = "write" /\ rewinds = 0

StreamNext ==
    \/ \E value \in Values : Write(value)
    \/ Close
    \/ \E string \in BOOLEAN : ReadByte(string)
    \/ Skip \/ EOF \/ Rewind

StreamSpec == StreamInit /\ [][StreamNext]_streamVars
-----------------------------------------------------------------------------
\* Wherever the output buffer fills up and the chunks of the input end, and
\* whichever strings are skipped: every pass over the file reads the values
\* that were written, in their order, and finds the end behind the last one,
\* unless a short write() has gone unnoticed.
FilesReadBack ==
    ~short =>
      /\ mode \notin {"raised", "more"}
      /\ \A i \in 1..Len(values) : values[i] \in {written[i], SkippedString}
=============================================================================
