------------------------------- MODULE Codec -------------------------------
(***************************************************************************)
(* The two file formats of a data directory and how they are read back     *)
(* after a fault: a segment of the log (internal/wal/format.go, reader.go) *)
(* and a snapshot (internal/snapshot/format.go).                           *)
(*                                                                         *)
(* A file is a sequence of cells.  A cell of a segment is a byte, or a     *)
(* whole checksum; one of a snapshot is a byte of a key or a value, or a   *)
(* whole field of fixed length.  A checksum is ideal: it differs for       *)
(* different contents, and keys and values do not hold one.  A byte is a   *)
(* number below 2 * Half, a group of a varint one below Half, an int one   *)
(* from -MaxInt - 1 to MaxInt, in the proportions of encoding/binary.      *)
(***************************************************************************)
EXTENDS Integers, SequencesExt

CONSTANTS
    Half,           \* values of a group of a varint: 2^7 in Go
    MaxVarintLen,   \* the longest varint: 10 in Go
    TimeBytes,      \* bytes of a time in a segment: 8 in Go
    MaxAlloc,       \* the largest slice that can be made
    Logs,           \* the sequences of records a segment is written with
    Later,          \* the sequences appended after a torn tail
    Snapshots,      \* the sequences of entries a snapshot is written with
    Tails,          \* the garbage that may follow the last record
    ChecksumBytes   \* what a checksum looks like when it is taken for a byte

VARIABLES
    format,   \* "log" or "snapshot"
    written,  \* the records or entries the file was written with
    fault,    \* what has happened to the file
    crc,      \* what a checksum looks like as a byte
    file,     \* the cells
    off,      \* how many cells have been read
    got,      \* the records or entries read
    status    \* "reading", "done", "error" or "panic"

given == <<format, written, fault, crc, file>>
codecVars == <<given, off, got, status>>

-----------------------------------------------------------------------------
(* Cells *)

Base == 2 * Half
Bytes == 0..(Base - 1)

Byte(x) == [byte |-> x, of |-> << >>]

Word(w) == [i \in DOMAIN w |-> Byte(w[i])]

\* The bytes of file cells first..last.
Read(cells, first, last) == [i \in 1..(last - first + 1) |-> cells[first + i - 1].byte]

\* A variant, in writer and reader alike, that ends one byte early.
ChecksumShort(c, cells) ==
    IF cells = << >> THEN Byte(0) ELSE [byte |-> c, of |-> Front(cells)]

\* CRC32 of nothing is 0.
Checksum(c, cells) == IF cells = << >> THEN Byte(0) ELSE [byte |-> c, of |-> cells]

-----------------------------------------------------------------------------
(* Numbers, byte by byte or group by group, and the conversions of Go        *)

Power(b, n) == LET pow[i \in 0..n] == IF i = 0 THEN 1 ELSE b * pow[i - 1] IN pow[n]

MaxInt == Power(Half, MaxVarintLen - 1) - 1

Wrap(x) == ((x + MaxInt + 1) % (2 * MaxInt + 2)) - MaxInt - 1

\* x without its last i digits, for each i.
Quotients(x, b, n) == LET q[i \in 0..n] == IF i = 0 THEN x ELSE q[i - 1] \div b IN q

\* The number with these digits, lowest first, and top above them.
Number(digits, b, top) ==
    LET num[i \in 0..Len(digits)] ==
            IF i = 0 THEN top ELSE digits[Len(digits) + 1 - i] + b * num[i - 1]
    IN  num[Len(digits)]

\* A time, in n bytes; -1 is no deadline.
PutTime(t, n) ==
    LET q == Quotients(t, Base, n) IN [i \in 1..n |-> Byte(q[i - 1] % Base)]

\* A variant that leaves out the conversion to a signed integer.
TimeUnsigned(cells) == Number(Read(cells, 1, Len(cells)), Base, 0)

Time(cells) ==
    Number(Read(cells, 1, Len(cells)), Base, IF Last(cells).byte >= Half THEN -1 ELSE 0)

Fits(t, n) == Quotients(t, Base, n)[n - 1] \in -Half..(Half - 1)

\* A variant that is off by one at the powers of the group.
uvarintSizeOff(v) == 1 + Cardinality({i \in 1..(MaxVarintLen - 1) : v > Power(Half, i)})

uvarintSize(v) == 1 + Cardinality({i \in 1..(MaxVarintLen - 1) : v >= Power(Half, i)})

PutUvarint(v) ==
    LET q == Quotients(v, Half, MaxVarintLen)
        n == Min({i \in 1..MaxVarintLen : q[i] = 0})
    IN  [i \in 1..n |-> Byte(IF i < n THEN Half + (q[i - 1] % Half) ELSE q[i - 1])]

\* The value and its length, or a length of 0: the cells have come to an end,
\* or the value is too long.
Uvarint(cells) ==
    LET last == {i \in 1..MaxVarintLen : i <= Len(cells) /\ cells[i].byte < Half}
        n == Min(last)
    IN  IF last = {} \/ (n = MaxVarintLen /\ cells[n].byte > 1) THEN [val |-> 0, n |-> 0]
        ELSE [val |-> Number([i \in 1..n |-> cells[i].byte % Half], Half, 0), n |-> n]

-----------------------------------------------------------------------------
(* A record of the log: length, type, timestamp, expiry, the lengths of key  *)
(* and value, key, value, checksum.  The length is not under the checksum.   *)

\* Type and times.
HeadLen == 1 + 2 * TimeBytes

Content(r) ==
    <<Byte(r.type)>> \o PutTime(r.ts, TimeBytes) \o PutTime(r.exp, TimeBytes)
      \o PutUvarint(Len(r.key)) \o PutUvarint(Len(r.val)) \o Word(r.key) \o Word(r.val)

payloadLen(r) ==
    LET k == Len(r.key)
        v == Len(r.val)
    IN  HeadLen + uvarintSize(k) + uvarintSize(v) + k + v + 1

EncodeWALRecord(c, r) ==
    PutUvarint(payloadLen(r)) \o Content(r) \o <<Checksum(c, Content(r))>>

Bad == [how |-> "bad"]

\* The lengths of key and value in what follows the length of the record, and
\* where key and value begin and end.
keyLen(payload) == Uvarint(SubSeq(payload, HeadLen + 1, Len(payload)))

valueLen(payload) == Uvarint(SubSeq(payload, HeadLen + keyLen(payload).n + 1, Len(payload)))

KeyOff(payload) == HeadLen + keyLen(payload).n + valueLen(payload).n

ValueOff(payload) == KeyOff(payload) + Wrap(keyLen(payload).val)

End(payload) == ValueOff(payload) + Wrap(valueLen(payload).val)

Intact(payload) ==
    payload[End(payload) + 1] = Checksum(crc, SubSeq(payload, 1, End(payload)))

RecordOf(payload) ==
    [type |-> payload[1].byte,
     ts |-> Time(SubSeq(payload, 2, TimeBytes + 1)),
     exp |-> Time(SubSeq(payload, TimeBytes + 2, HeadLen)),
     key |-> Read(payload, KeyOff(payload) + 1, ValueOff(payload)),
     val |-> Read(payload, ValueOff(payload) + 1, End(payload))]

\* The bounds of the slices are computed with integers that wrap around, and a
\* slice with bad bounds panics.  The payload may be longer than what its
\* lengths add up to.
DecodePayload(payload) ==
    CASE \/ keyLen(payload).n = 0 \/ valueLen(payload).n = 0
         \/ Len(payload) < Wrap(End(payload) + 1) -> Bad
      [] OTHER ->
           CASE \/ Wrap(keyLen(payload).val) < 0 \/ Wrap(valueLen(payload).val) < 0
                \/ Len(payload) < End(payload) + 1 -> [how |-> "panic"]
             [] OTHER -> IF Intact(payload) THEN [how |-> "ok", rec |-> RecordOf(payload)]
                         ELSE Bad

\* What DecodeWALRecord consumes of the cells, and what it makes of them.
Consumed(cells) == Wrap(Uvarint(cells).n + Uvarint(cells).val)

DecodeWALRecord(cells) ==
    LET n == Uvarint(cells).n
        end == Consumed(cells)
    IN  CASE n = 0 \/ Len(cells) < end -> Bad
          [] OTHER -> CASE end < n -> [how |-> "panic"]
                        [] OTHER -> IF end - n < HeadLen + 1 THEN Bad
                                    ELSE DecodePayload(SubSeq(cells, n + 1, end))

-----------------------------------------------------------------------------
(* A snapshot: magic, version, time and count; for each entry, in the order  *)
(* of the keys, the length and the bytes of key and value, expiry and        *)
(* creation; a checksum of the entries.  The header is not under it.         *)

Magic == 2 * Half - 1

Less(v, w) ==
    \/ Len(v) < Len(w) /\ v = SubSeq(w, 1, Len(v))
    \/ \E i \in DOMAIN v \cap DOMAIN w :
          v[i] < w[i] /\ SubSeq(v, 1, i - 1) = SubSeq(w, 1, i - 1)

\* e goes behind the entries whose key is not greater.
Insert(sorted, e) ==
    LET n == Cardinality({i \in DOMAIN sorted : ~Less(e.key, sorted[i].key)})
    IN  SubSeq(sorted, 1, n) \o <<e>> \o SubSeq(sorted, n + 1, Len(sorted))

Sorted(entries) ==
    LET sort[i \in 0..Len(entries)] ==
            IF i = 0 THEN << >> ELSE Insert(sort[i - 1], entries[i])
    IN  sort[Len(entries)]

writeEntry(e) ==
    <<Byte(Len(e.key))>> \o Word(e.key) \o <<Byte(Len(e.val))>> \o Word(e.val)
      \o PutTime(e.exp, 1) \o PutTime(e.ts, 1)

EncodeSnapshot(c, entries) ==
    LET body == FlattenSeq([i \in DOMAIN entries |-> writeEntry(Sorted(entries)[i])])
    IN  <<Byte(Magic), Byte(1), Byte(0), Byte(Len(entries))>> \o body \o <<Checksum(c, body)>>

\* A length of 8 bytes at cell i: a checksum has only 4.
IntAt(i) == i \in DOMAIN file /\ file[i].of = << >>

\* readBytes: the bytes after the length at cell i, and the cell they end at.
readBytes(i) ==
    LET end == i + file[i].byte
    IN  IF ~IntAt(i) THEN Bad
        ELSE IF file[i].byte > MaxAlloc THEN [how |-> "panic"]
        ELSE IF end > Len(file) THEN Bad
        ELSE [how |-> "ok", word |-> Read(file, i + 1, end), end |-> end]

readEntry(i) ==
    LET k == readBytes(i)
        v == readBytes(k.end + 1)
        times == v.end + 1
    IN  IF k.how # "ok" THEN k
        ELSE IF v.how # "ok" THEN v
        ELSE IF ~(IntAt(times) /\ IntAt(times + 1)) THEN Bad
        ELSE [how |-> "ok", end |-> times + 1,
              rec |-> [key |-> k.word, val |-> v.word, exp |-> Time(<<file[times]>>),
                       ts |-> Time(<<file[times + 1]>>)]]

-----------------------------------------------------------------------------
(* What the two formats can hold                                             *)

Records ==
    {r \in [type : Bytes, ts : Int, exp : Int, key : Seq(Bytes), val : Seq(Bytes)] :
        /\ Fits(r.ts, TimeBytes) /\ Fits(r.exp, TimeBytes)
        /\ uvarintSize(payloadLen(r)) + payloadLen(r) <= MaxInt}

Entries ==
    {e \in [key : Seq(Bytes), val : Seq(Bytes), exp : Int, ts : Int] :
        /\ e.key # << >> /\ Len(e.key) <= MaxAlloc /\ Len(e.val) <= MaxAlloc
        /\ Fits(e.exp, 1) /\ Fits(e.ts, 1)}

ASSUME CodecConstants ==
    /\ Half \in Nat /\ Half >= 2
    /\ MaxVarintLen \in Nat /\ MaxVarintLen >= 2
    /\ TimeBytes \in Nat \ {0}
    /\ MaxAlloc \in Bytes
    /\ ChecksumBytes \subseteq Bytes
    /\ Logs \cup Later \subseteq Seq(Records)
    /\ \A s \in Snapshots : s \in Seq(Entries) /\ Len(s) <= MaxAlloc
    /\ Tails \subseteq Seq(Bytes)

-----------------------------------------------------------------------------
(* What can happen to a file.  sound is the number of cells before it.       *)

EncodeLog(c, records) ==
    FlattenSeq([i \in DOMAIN records |-> EncodeWALRecord(c, records[i])])

\* A write that was cut off; after a restart more is appended behind it.
Cut(whole) ==
    \E n \in 0..Len(whole), s \in (IF format = "log" THEN Later ELSE {<< >>}) :
        /\ fault = [kind |-> "cut", sound |-> n, after |-> s]
        /\ file = SubSeq(whole, 1, n) \o EncodeLog(crc, s)

Damaged(whole) ==
    \E i \in DOMAIN whole, b \in Bytes :
        /\ whole[i] # Byte(b)
        /\ fault = [kind |-> "damaged", sound |-> i - 1, after |-> << >>]
        /\ file = [whole EXCEPT ![i] = Byte(b)]

\* The length of the file has reached the disk, its last blocks have not.  The
\* header of a snapshot lies in one block.
Zeroed(whole) ==
    \E n \in 0..Len(whole) :
        /\ format = "snapshot" => n \notin 1..3
        /\ fault = [kind |-> "zeroed", sound |-> n, after |-> << >>]
        /\ file = [i \in DOMAIN whole |-> IF i <= n THEN whole[i] ELSE Byte(0)]

Garbage(whole) ==
    \E g \in Tails :
        /\ fault = [kind |-> "garbage", sound |-> Len(whole), after |-> << >>]
        /\ file = whole \o Word(g)

CodecInit ==
    /\ crc \in ChecksumBytes
    /\ \/ format = "log" /\ written \in Logs
       \/ format = "snapshot" /\ written \in Snapshots
    /\ LET whole == IF format = "log" THEN EncodeLog(crc, written)
                                      ELSE EncodeSnapshot(crc, written)
       IN  Cut(whole) \/ Damaged(whole) \/ Zeroed(whole) \/ Garbage(whole)
    /\ off = 0 /\ got = << >> /\ status = "reading"

-----------------------------------------------------------------------------
(* ReadWAL *)

Reading(f) == status = "reading" /\ format = f

ReadRecord ==
    /\ Reading("log") /\ off < Len(file)
    /\ LET d == DecodeWALRecord(SubSeq(file, off + 1, Len(file)))
       IN  \/ /\ d.how = "ok"
              /\ got' = Append(got, d.rec)
              /\ off' = off + Consumed(SubSeq(file, off + 1, Len(file)))
              /\ UNCHANGED <<given, status>>
           \/ /\ d.how # "ok"
              /\ status' = IF d.how = "panic" THEN "panic" ELSE "done"
              /\ UNCHANGED <<given, off, got>>

EndOfLog ==
    /\ Reading("log") /\ off >= Len(file)
    /\ status' = "done"
    /\ UNCHANGED <<given, off, got>>

-----------------------------------------------------------------------------
(* DecodeSnapshot *)

EntryCount == file[4].byte

ReadHeader ==
    /\ Reading("snapshot") /\ off = 0
    /\ LET valid == Len(file) >= 4 /\ file[1].byte = Magic
       IN  /\ status' = CASE ~valid -> "error"
                          [] valid /\ EntryCount > MaxAlloc -> "panic"
                          [] OTHER -> status
           /\ off' = 4
    /\ UNCHANGED <<given, got>>

ReadEntry ==
    /\ Reading("snapshot") /\ off >= 4 /\ Len(got) < EntryCount
    /\ LET e == readEntry(off + 1)
       IN  \/ /\ e.how = "ok"
              /\ got' = Append(got, e.rec) /\ off' = e.end
              /\ UNCHANGED <<given, status>>
           \/ /\ e.how # "ok"
              /\ status' = IF e.how = "panic" THEN "panic" ELSE "error"
              /\ UNCHANGED <<given, off, got>>

\* A variant that reads the checksum and does not compare it.
CheckFooterBlind ==
    /\ Reading("snapshot") /\ off >= 4 /\ Len(got) = EntryCount
    /\ status' = IF off < Len(file) THEN "done" ELSE "error"
    /\ UNCHANGED <<given, off, got>>

\* What follows the checksum is not looked at.
CheckFooter ==
    /\ Reading("snapshot") /\ off >= 4 /\ Len(got) = EntryCount
    /\ status' = IF off < Len(file) /\ file[off + 1] = Checksum(crc, SubSeq(file, 5, off))
                 THEN "done" ELSE "error"
    /\ UNCHANGED <<given, off, got>>

CodecNext == ReadRecord \/ EndOfLog \/ ReadHeader \/ ReadEntry \/ CheckFooter

CodecSpec == CodecInit /\ [][CodecNext]_codecVars

-----------------------------------------------------------------------------
(* Properties *)

TypeOK ==
    /\ \A i \in DOMAIN file : file[i].byte \in Bytes
    /\ off \in 0..Len(file) \/ status = "error"
    /\ status \in {"reading", "done", "error", "panic"}
    /\ \A i \in DOMAIN got :
          /\ got[i].key \in Seq(Bytes) /\ got[i].val \in Seq(Bytes)
          /\ LET n == IF format = "log" THEN TimeBytes ELSE 1
             IN  Fits(got[i].exp, n) /\ Fits(got[i].ts, n)

\* The cells of the first n records, and how many records lie before the fault.
Prefix(n) == SubSeq(written, 1, n)

Before ==
    Max({0} \cup {n \in DOMAIN written : Len(EncodeLog(crc, Prefix(n))) <= fault.sound})

\* The fault lies in a record, and there in its length.
Torn == Len(EncodeLog(crc, Prefix(Before))) < fault.sound

LengthTorn ==
    /\ Torn
    /\ fault.sound < Len(EncodeLog(crc, Prefix(Before)))
                        + Len(PutUvarint(payloadLen(written[Before + 1])))

\* s is t with some elements left out: found[j] elements of s are found, each
\* at the first place it can be, in the first j of t.
IsPartOf(s, t) ==
    LET found[j \in 0..Len(t)] ==
            CASE j = 0 -> 0
              [] OTHER -> IF found[j - 1] < Len(s) /\ s[found[j - 1] + 1] = t[j]
                          THEN found[j - 1] + 1 ELSE found[j - 1]
    IN  found[Len(t)] = Len(s)

(***************************************************************************)
(* A segment that ends in the middle of a record is read back exactly up   *)
(* to that record, also when more records were appended behind it: the     *)
(* reader finds no record that straddles the tear, and none behind it      *)
(* (format.go:85-128, reader.go:27-38).  Without a tear all is read back.  *)
(* Two cases are left out.  Lengths taken from what was appended may make  *)
(* the reader panic (see TornTailStops); and what was appended may         *)
(* complete a length that was torn, behind which its first record lies.    *)
(***************************************************************************)
TornTail ==
    format = "log" /\ fault.kind = "cut" =>
        /\ status = "panic" => Torn /\ fault.after # << >>
        /\ status = "done" /\ ~(LengthTorn /\ fault.after # << >>) =>
             got = Prefix(Before) \o (IF Torn THEN << >> ELSE fault.after)

(***************************************************************************)
(* Whatever has happened to one place of a segment, the records read were  *)
(* written, in that order and each once, and all that lie before that      *)
(* place are among them.  The length of a record is not under its          *)
(* checksum, so this needs that no reading from a wrong place succeeds.    *)
(***************************************************************************)
NothingInvented ==
    format = "log" =>
        /\ IsPartOf(got, written \o fault.after)
        /\ status = "done" => IsPrefix(Prefix(Before), got)

(***************************************************************************)
(* A snapshot is read as a whole or not at all: the entries it was given,  *)
(* in the order of their keys, or an error, though neither the header with *)
(* the count of the entries nor their end is under the checksum.  One that *)
(* was written to its end is never refused (snapshot/format.go:79-118).    *)
(***************************************************************************)
SnapshotWhole ==
    format = "snapshot" =>
        /\ status = "done" => got = Sorted(written)
        /\ fault.kind = "cut" =>
             /\ status # "panic"
             /\ status = "error" => fault.sound < Len(EncodeSnapshot(crc, written))

-----------------------------------------------------------------------------
(* What the repository's documents say and the code does not do *)

(***************************************************************************)
(* reader.go:12-13, "Stops at the first corrupt record", and design.md:320 *)
(* "CRC32 checksum covers all fields except the checksum itself": nothing  *)
(* from the damaged record on is returned.                                 *)
(***************************************************************************)
StopsAtCorrupt ==
    format = "log" /\ fault.kind = "damaged" /\ status = "done" => got = Prefix(Before)

(***************************************************************************)
(* requirements.md:76, "IF a WAL record has an invalid checksum, THEN THE  *)
(* DB SHALL stop replay at that point and truncate the WAL": a record that *)
(* was torn by a crash ends the replay, and the process goes on.           *)
(***************************************************************************)
TornTailStops == format = "log" /\ fault.kind = "cut" => status # "panic"

=============================================================================
