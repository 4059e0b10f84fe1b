----------------------------- MODULE Fat32Entry -----------------------------
(***************************************************************************)
(* One 32-byte FAT32 directory slot and the encoders and decoders of      *)
(* fat32/src/directory_item.rs.  Bytes are integers in 0..255 and a slot  *)
(* is a function from offsets 0..31, so every offset in the model is the  *)
(* offset in the code.  Names are sequences of Unicode code points; the   *)
(* &str the code is given is their UTF-8 encoding.                        *)
(*                                                                         *)
(* The slot is written, updated and deleted the way the directory code    *)
(* of the crate (dir.rs, which is not part of this source tree) uses      *)
(* these items: build an item, serialise it with bytes(), and parse it    *)
(* back with from_buf().                                                   *)
(*                                                                         *)
(* Offsets and masks are written in decimal: 0x0B = 11, 0x0C = 12,        *)
(* 0x0D = 13, 0x0E = 14, 0x10 = 16, 0x14 = 20, 0x15 = 21, 0x1A = 26,      *)
(* 0x1B = 27, 0x1C = 28, 0xE5 = 229, 0xFF = 255, 0xFF00 = 65280.          *)
(***************************************************************************)
EXTENDS Integers, Sequences, SequencesExt, Bitwise

CONSTANTS
    ShortNames,   \* 8.3 names given to ShortDirectoryItem::new
    DotNames,     \* names given as 11 raw bytes to new_bytes ("." and "..")
    LongNames,    \* names of at most 13 UTF-16 units given to new_lfn
    Clusters,     \* first clusters (u32)
    Lengths,      \* file lengths given to set_file_length
    Ordinals,     \* LFN attribute bytes (ordinal | 0x40 on the last one)
    CheckSums     \* LFN checksum bytes

VARIABLES
    disk,   \* the 32 bytes of the slot
    last    \* ghost: what was last written to the slot

vars == <<disk, last>>

Space == 32
Dot == 46
Zero32 == [i \in 0..31 |-> 0]

-----------------------------------------------------------------------------
(* Byte helpers: copy_from_slice into a range, a slice as a sequence, and *)
(* little-endian bytes (to_be_bytes followed by reverse).                 *)
Put(buf, off, s) ==
    [i \in DOMAIN buf |-> IF off <= i /\ i < off + Len(s) THEN s[i - off + 1]
                                                       ELSE buf[i]]
Slice(buf, a, b) == [k \in 1..(b - a) |-> buf[a + k - 1]]
LeBytes(x, n) == [k \in 1..n |-> (x \div 2^(8 * (k - 1))) % 256]

(* tool.rs read_le_u32.                                                   *)
RECURSIVE LeValue(_)
LeValue(s) == IF s = <<>> THEN 0 ELSE s[1] + 256 * LeValue(Tail(s))

Upper(b) == IF b \in 97..122 THEN b - 32 ELSE b
Lower(b) == IF b \in 65..90 THEN b + 32 ELSE b

-----------------------------------------------------------------------------
(* Reference definitions from the Unicode standard: the UTF-8 and UTF-16 *)
(* encodings of a code point, and well-formed UTF-8 (str::from_utf8).    *)
Utf8Cp(cp) ==
    CASE cp < 128    -> <<cp>>
      [] cp < 2048   -> <<192 + (cp \div 64), 128 + (cp % 64)>>
      [] cp < 65536 -> <<224 + (cp \div 4096), 128 + ((cp \div 64) % 64),
                           128 + (cp % 64)>>
      [] OTHER        -> <<240 + (cp \div 262144), 128 + ((cp \div 4096) % 64),
                           128 + ((cp \div 64) % 64), 128 + (cp % 64)>>
Utf8Of(v) == FlattenSeq([k \in 1..Len(v) |-> Utf8Cp(v[k])])

Utf16Cp(cp) ==
    IF cp < 65536 THEN <<cp>>
    ELSE <<55296 + ((cp - 65536) \div 1024),
          56320 + ((cp - 65536) % 1024)>>
Utf16Of(v) == FlattenSeq([k \in 1..Len(v) |-> Utf16Cp(v[k])])

RECURSIVE Utf8Valid(_)
Utf8Valid(s) ==
    IF s = <<>> THEN TRUE
    ELSE LET b  == s[1]
             n  == CASE b < 128 -> 1 [] b \in 194..223 -> 2
                     [] b \in 224..239 -> 3 [] b \in 240..244 -> 4
                     [] OTHER -> 0
             lo == CASE b = 224 -> 160 [] b = 240 -> 144 [] OTHER -> 128
             hi == CASE b = 237 -> 159 [] b = 244 -> 143 [] OTHER -> 191
         IN /\ n > 0
            /\ Len(s) >= n
            /\ n > 1 => s[2] \in lo..hi
            /\ \A k \in 3..n : s[k] \in 128..191
            /\ Utf8Valid(SubSeq(s, n + 1, Len(s)))

(* str::eq_ignore_ascii_case on the UTF-8 bytes.                          *)
EqIgnoreAsciiCase(a, b) ==
    Len(a) = Len(b) /\ \A k \in 1..Len(a) : Lower(a[k]) = Lower(b[k])

-----------------------------------------------------------------------------
(* ItemType::from_value: the directory bit wins over the LFN value.       *)
ItemTypeFromValue(v) ==
    IF (v & 16) = 16 THEN "Dir" ELSE IF v = 15 THEN "LFN" ELSE "File"

(* The cluster's high half goes to 0x14 and its low half to 0x1A.          *)
PutCluster(buf, c) ==
    LET le == LeBytes(c, 4)
    IN Put(Put(buf, 20, <<le[3], le[4]>>), 26, <<le[1], le[2]>>)

(* new and new_bytes mark a directory in the attribute byte 0x0B, and a   *)
(* file at offset 0x10.                                                    *)
PutCreateType(buf, t) ==
    IF t = "Dir" THEN [buf EXCEPT ![11] = 16] ELSE [buf EXCEPT ![16] = 32]

(* Mutant: the cluster halves are read back swapped.                    *)
ShortFromBufSwapped(buf) ==
    [name      |-> Slice(buf, 0, 8),
     extension |-> Slice(buf, 8, 11),
     cluster   |-> buf[27] * 2^24 + buf[26] * 2^16 + buf[21] * 2^8 + buf[20],
     length    |-> LeValue(Slice(buf, 28, 32))]

ShortFromBuf(buf) ==
    [name      |-> Slice(buf, 0, 8),
     extension |-> Slice(buf, 8, 11),
     cluster   |-> buf[21] * 2^24 + buf[20] * 2^16 + buf[27] * 2^8 + buf[26],
     length    |-> LeValue(Slice(buf, 28, 32))]

(* ShortDirectoryItem::new: split at the first '.', pad with spaces,      *)
(* copy the name to 0 and the extension to 8, upper-case both ranges.     *)
ShortNew(c, value, t) ==
    LET i    == SelectInSeq(value, LAMBDA x : x = Dot)
        name == IF i = 0 THEN value ELSE SubSeq(value, 1, i - 1)
        ext  == IF i = 0 THEN <<>> ELSE SubSeq(value, i + 1, Len(value))
        raw  == Put(Put(Put(Zero32, 0, [k \in 1..11 |-> Space]), 0, name), 8, ext)
        up   == [j \in 0..31 |-> IF j < Len(name) \/ (8 <= j /\ j < 8 + Len(ext))
                                 THEN Upper(raw[j]) ELSE raw[j]]
    IN ShortFromBuf(PutCreateType(PutCluster(up, c), t))

ShortNewBytes(c, value, t) ==
    ShortFromBuf(PutCreateType(PutCluster(Put(Zero32, 0, value), c), t))

(* get_full_name_bytes: the name and extension without spaces, with a '.' *)
(* when the extension's first byte is not a space.                         *)
FullNameBytes(s) ==
    SelectSeq(s.name, LAMBDA b : b # Space)
      \o (IF s.extension[1] # Space THEN <<Dot>> ELSE <<>>)
      \o SelectSeq(s.extension, LAMBDA b : b # Space)

AttrOf == [Dir |-> 16, File |-> 32, LFN |-> 15]

ShortBytes(s, itemType) ==
    LET b == [Put(PutCluster(Put(Put(Zero32, 0, s.name), 8, s.extension),
                             s.cluster), 28, LeBytes(s.length, 4))
              EXCEPT ![12] = 24]
    IN IF itemType = "Deleted" THEN [b EXCEPT ![0] = 229]
                               ELSE [b EXCEPT ![11] = AttrOf[itemType]]

-----------------------------------------------------------------------------
UnicodeTemp(units) ==
    [k \in 0..25 |->
        IF k < 2 * Len(units)
        THEN IF k % 2 = 0 THEN units[k \div 2 + 1] & 255
                          ELSE shiftR(units[k \div 2 + 1] & 65280, 8)
        ELSE IF k < 2 * Len(units) + 2 THEN 0 ELSE 255]
TempIndex(i) ==
    CASE i \in 1..10 -> i - 1 [] i \in 14..25 -> i - 4 [] i \in 28..31 -> i - 6
      [] OTHER -> -1
WriteUnicode(value, buf) ==
    LET t == UnicodeTemp(Utf16Of(value))
    IN [i \in DOMAIN buf |-> IF TempIndex(i) >= 0 THEN t[TempIndex(i)] ELSE buf[i]]

LongFromBuf(buf) ==
    [attribute |-> buf[0], check_sum |-> buf[13],
     unicode_part1 |-> Slice(buf, 1, 11), unicode_part2 |-> Slice(buf, 14, 26),
     unicode_part3 |-> Slice(buf, 28, 32)]

LongNew(attribute, checkSum, value) ==
    LongFromBuf(WriteUnicode(value, [Zero32 EXCEPT ![0] = attribute,
                                                   ![13] = checkSum]))

(* to_utf8: one UTF-16 unit as 1, 2 or 3 bytes, with the code's masks.   *)
UnitToUtf8(u) ==
    CASE u <= 127  -> <<u>>
      [] u <= 2047 -> <<192 | (31 & shiftR(u, 6)),
                         128 | (63 & u)>>
      [] OTHER      -> <<224 | (31 & shiftR(u, 12)),
                         128 | (63 & shiftR(u, 6)),
                         128 | (63 & u)>>

(* The loop over one part stops at a 0x0000 unit or at a low byte 0xFF.   *)
RECURSIVE DecodePart(_)
DecodePart(p) ==
    IF p = <<>> \/ (p[1] = 0 /\ p[2] = 0) \/ p[1] = 255 THEN <<>>
    ELSE UnitToUtf8(p[2] * 256 + p[1]) \o DecodePart(SubSeq(p, 3, Len(p)))

ToUtf8(l) ==
    DecodePart(l.unicode_part1) \o DecodePart(l.unicode_part2)
      \o DecodePart(l.unicode_part3)

CountOfName(l) == l.attribute & 31
IsNameEnd(l) == (l.attribute & 64) = 64

LongBytes(l) ==
    [Put(Put(Put(Zero32, 1, l.unicode_part1), 14, l.unicode_part2),
         28, l.unicode_part3)
     EXCEPT ![0] = l.attribute, ![11] = 15, ![13] = l.check_sum]

-----------------------------------------------------------------------------
(* DirectoryItem: an Option is a sequence of length 0 or 1.               *)
DirFromBuf(buf) ==
    LET t == IF buf[0] = 229 THEN "Deleted" ELSE ItemTypeFromValue(buf[11])
    IN IF t = "LFN"
       THEN [item_type |-> t, sfn |-> <<>>, lfn |-> <<LongFromBuf(buf)>>]
       ELSE [item_type |-> t, sfn |-> <<ShortFromBuf(buf)>>, lfn |-> <<>>]

(* bytes(): the item type reaches only a short entry's bytes.             *)
DirBytes(d) ==
    IF d.sfn # <<>> THEN ShortBytes(d.sfn[1], d.item_type) ELSE LongBytes(d.lfn[1])

NewSfn(c, value, t) ==
    [item_type |-> t, sfn |-> <<ShortNew(c, Utf8Of(value), t)>>, lfn |-> <<>>]
NewSfnBytes(c, value, t) ==
    [item_type |-> t, sfn |-> <<ShortNewBytes(c, value, t)>>, lfn |-> <<>>]
NewLfn(attribute, checkSum, value) ==
    [item_type |-> "LFN", sfn |-> <<>>, lfn |-> <<LongNew(attribute, checkSum, value)>>]

(* The cast to u32 truncates when bytes() stores the low four bytes.     *)
SetFileLength(d, length) ==
    [d EXCEPT !.sfn = <<[d.sfn[1] EXCEPT !.length = length]>>]

SfnEqual(d, value) ==
    /\ d.item_type # "Deleted"
    /\ d.sfn # <<>>
    /\ LET res == FullNameBytes(d.sfn[1])
       IN Utf8Valid(res) /\ EqIgnoreAsciiCase(Utf8Of(value), res)

LfnEqual(d, value) ==
    /\ d.item_type # "Deleted"
    /\ d.lfn # <<>>
    /\ LET res == ToUtf8(d.lfn[1])
       IN Utf8Valid(res) /\ EqIgnoreAsciiCase(Utf8Of(value), res)

-----------------------------------------------------------------------------
(* The slot.  A fresh slot is all zeros.                                  *)
Written(kind, name, cluster, type, attr, cs) ==
    [kind |-> kind, name |-> name, cluster |-> cluster, type |-> type,
     len |-> 0, attr |-> attr, cs |-> cs, deleted |-> FALSE]

Init ==
    /\ disk = Zero32
    /\ last = Written("free", <<>>, 0, "File", 0, 0)

(* new_sfn for a file or a directory, written with bytes().               *)
CreateShort ==
    \E c \in Clusters, v \in ShortNames, t \in {"Dir", "File"} :
        /\ disk' = DirBytes(NewSfn(c, v, t))
        /\ last' = Written("short", v, c, t, 0, 0)

(* new_sfn_bytes for "." and "..": the name padded with spaces to 11.     *)
CreateDot ==
    \E c \in Clusters, v \in DotNames :
        /\ disk' = DirBytes(NewSfnBytes(c, [k \in 1..11 |->
                                   IF k <= Len(v) THEN v[k] ELSE Space], "Dir"))
        /\ last' = Written("short", v, c, "Dir", 0, 0)

(* new_lfn, written with bytes(); write_unicode has room for 13 units.    *)
CreateLong ==
    \E a \in Ordinals, cs \in CheckSums, v \in LongNames :
        /\ Len(Utf16Of(v)) <= 13
        /\ disk' = DirBytes(NewLfn(a, cs, v))
        /\ last' = Written("long", v, 0, "LFN", a, cs)

(* from_buf, set_file_length (which unwraps the short entry), bytes().    *)
UpdateLength ==
    \E n \in Lengths :
        LET d == DirFromBuf(disk) IN
        /\ d.sfn # <<>>
        /\ disk' = DirBytes(SetFileLength(d, n))
        /\ last' = [last EXCEPT !.len = n]

(* from_buf, item_type set to Deleted, bytes().                           *)
Delete ==
    LET d == DirFromBuf(disk) IN
    /\ disk' = DirBytes([d EXCEPT !.item_type = "Deleted"])
    /\ last' = [last EXCEPT !.deleted = TRUE]

Next == CreateShort \/ CreateDot \/ CreateLong \/ UpdateLength \/ Delete

Spec == Init /\ [][Next]_vars

-----------------------------------------------------------------------------
(* Properties.                                                             *)

TypeOK ==
    /\ disk \in [0..31 -> 0..255]
    /\ last.kind \in {"free", "short", "long"}
    /\ last.deleted \in BOOLEAN

(* from_buf, bytes(), new and set_file_length agree on the slot: a live   *)
(* short entry read back is found by sfn_equal under the name it was      *)
(* created with and keeps its type, first cluster and last length; a      *)
(* deleted one is found under no name; a live long entry keeps its        *)
(* attribute and checksum bytes.                                          *)
EntryRoundTrip ==
    LET d == DirFromBuf(disk) IN
    /\ (last.kind = "short" /\ ~last.deleted) =>
          /\ SfnEqual(d, last.name)
          /\ d.item_type = last.type
          /\ d.sfn[1].cluster = last.cluster
          /\ d.sfn[1].length = last.len
    /\ (last.kind = "short" /\ last.deleted) =>
          d.item_type = "Deleted" /\ ~SfnEqual(d, last.name)
    /\ (last.kind = "long" /\ ~last.deleted) =>
          /\ d.item_type = "LFN"
          /\ d.lfn[1].attribute = last.attr
          /\ d.lfn[1].check_sum = last.cs

(* A long entry read back is found by lfn_equal under the name new_lfn    *)
(* was given while it is live, and under no name once it is deleted.      *)
LongNameRoundTrip ==
    last.kind = "long" => (LfnEqual(DirFromBuf(disk), last.name) = ~last.deleted)

====
