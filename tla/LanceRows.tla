------------------------------- MODULE LanceRows -------------------------------
(***************************************************************************)
(* How a row of a Lance dataset is found and read (packages/lance/src):      *)
(* byte ranges merged into requests and sliced out of the answers (io.ts),   *)
(* stable row ids looked up in the segments of a fragment (rowids.ts), and   *)
(* the pages and encodings a cell is decoded from, in up to four reads       *)
(* (file.ts).  A file is a sequence of bytes and what its metadata says.     *)
(***************************************************************************)
EXTENDS Integers, FiniteSets, SequencesExt

CONSTANTS
  ByteBits,      \* bits of a byte: small, so that a bitmap soon needs a second
  WordBytes,     \* bytes of an offset of a binary page (8 in the code)
  FooterBytes,   \* bytes of the footer of a data file (40)
  EntryBytes,    \* bytes of an entry of the table of columns (16)
  TailBytes,     \* the most that is read of the end of a file at first (64 KiB)
  TailShare,     \* and the part of the file it is at most: one in TailShare (8)
  NumberBytes,   \* what a decoded number counts for (8)
  ItemBytes,     \* what an item of a decoded list counts for (4)
  MaxWrappers    \* bound: how many wrappers of values that may be null an encoding has

-----------------------------------------------------------------------------
(* Ranges of bytes: requested ones are joined where they touch, and then over *)
(* gaps as long as no request grows too long.                               *)
Span(offset, length) == [offset |-> offset, length |-> length]
End(range) == range.offset + range.length
Before(left, right) == left.offset < right.offset \/ (left.offset = right.offset /\ left.length < right.length)
TotalBytes(ranges) == FoldLeft(LAMBDA total, range : total + range.length, 0, ranges)

Joined(merged, range, gap, longest) ==
  LET previous == Last(merged)
      end == Max({End(previous), End(range)})
  IN IF merged # <<>> /\ range.offset - End(previous) <= gap /\ end - previous.offset <= longest
       THEN [merged EXCEPT ![Len(merged)].length = end - previous.offset]
       ELSE Append(merged, range)

mergeRanges(ranges, gap, longest) ==
  FoldLeft(LAMBDA merged, range : Joined(merged, range, gap, longest), <<>>,
           SetToSortSeq({range \in ranges : range.length > 0}, Before))

Unbounded == 1000000
Physical(ranges, gap, longest) == mergeRanges(ToSet(mergeRanges(ranges, 0, Unbounded)), gap, longest)

(* What a lease of some physical ranges of a file holds of a range.          *)
NotPlanned == <<-1>>
Slice(lease, bytes, range) ==
  LET covering == {i \in DOMAIN lease : lease[i].offset <= range.offset /\ End(range) <= End(lease[i])}
      physical == lease[Min(covering)]
      held == SubSeq(bytes, physical.offset + 1, End(physical))
      start == range.offset - physical.offset
  IN IF covering = {} THEN NotPlanned ELSE SubSeq(held, start + 1, start + range.length)

-----------------------------------------------------------------------------
(* Stable row ids.  A segment is a range of ids, with or without holes or a   *)
(* bitmap of the ids that exist, or an array of ids, sorted or not.          *)
LowerBound(values, target) ==
  LET bound[low \in 0..Len(values), high \in 0..Len(values)] ==
        LET middle == low + (high - low) \div 2
        IN IF low >= high THEN low
           ELSE IF values[middle + 1] < target THEN bound[middle + 1, high] ELSE bound[low, middle]
  IN bound[0, Len(values)]

BitmapRank(bitmap, end) == Cardinality({i \in 1..Min({end, Len(bitmap)}) : bitmap[i]})

ValidSegment(segment) ==
  CASE segment.kind = "range" -> segment.start <= segment.end
    [] segment.kind = "range_with_holes" ->
         /\ \A i \in DOMAIN segment.holes : segment.holes[i] \in segment.start..(segment.end - 1)
         /\ \A i \in 2..Len(segment.holes) : segment.holes[i - 1] < segment.holes[i]
    [] segment.kind = "range_with_bitmap" -> Len(segment.bitmap) >= segment.end - segment.start
    [] segment.kind = "sorted_array" -> \A i \in 2..Len(segment.values) : segment.values[i - 1] < segment.values[i]
    [] segment.kind = "array" -> TRUE

SegmentLength(segment) ==
  CASE segment.kind = "range" -> segment.end - segment.start
    [] segment.kind = "range_with_holes" -> segment.end - segment.start - Len(segment.holes)
    [] segment.kind = "range_with_bitmap" -> BitmapRank(segment.bitmap, segment.end - segment.start)
    [] segment.kind \in {"sorted_array", "array"} -> Len(segment.values)

NotThere == -1
findInSegment(segment, id) ==
  LET within == segment.start <= id /\ id < segment.end
      index == id - segment.start
      hole == LowerBound(segment.holes, id)
      isHole == hole < Len(segment.holes) /\ segment.holes[hole + 1] = id
      place == LowerBound(segment.values, id)
  IN CASE segment.kind = "range" -> IF within THEN index ELSE NotThere
       [] segment.kind = "range_with_holes" -> IF within /\ ~isHole THEN index - hole ELSE NotThere
       [] segment.kind = "range_with_bitmap" ->
            IF within /\ segment.bitmap[index + 1] THEN BitmapRank(segment.bitmap, index) ELSE NotThere
       [] segment.kind = "sorted_array" ->
            IF place < Len(segment.values) /\ segment.values[place + 1] = id THEN place ELSE NotThere
       [] segment.kind = "array" ->
            LET places == {i \in DOMAIN segment.values : segment.values[i] = id}
            IN IF places = {} THEN NotThere ELSE Min(places) - 1

BaseOffset(segments, i) == FoldLeft(LAMBDA rows, segment : rows + SegmentLength(segment), 0, SubSeq(segments, 1, i - 1))

(* Where the ids are among the rows of a fragment: the first segment counts.  *)
SequenceIsValid(segments, rows) ==
  (\A i \in DOMAIN segments : ValidSegment(segments[i])) /\ BaseOffset(segments, Len(segments) + 1) = rows

resolveRequestedRowIds(ids, segments) ==
  LET holding(id) == {i \in DOMAIN segments : findInSegment(segments[i], id) # NotThere}
  IN [id \in {x \in ids : holding(x) # {}} |->
        BaseOffset(segments, Min(holding(id))) + findInSegment(segments[Min(holding(id))], id)]

(* And the id of a row, the other way round.                                *)
stableRowIdAtOffset(segments, offset) ==
  LET i == CHOOSE k \in DOMAIN segments :
             BaseOffset(segments, k) <= offset /\ offset < BaseOffset(segments, k + 1)
      segment == segments[i]
      rest == offset - BaseOffset(segments, i)
  IN CASE segment.kind = "range" -> segment.start + rest
       [] segment.kind = "range_with_holes" ->
            FoldLeft(LAMBDA id, hole : IF hole > id THEN id ELSE id + 1, segment.start + rest, segment.holes)
       [] segment.kind = "range_with_bitmap" ->
            CHOOSE id \in segment.start..(segment.end - 1) :
              segment.bitmap[id - segment.start + 1] /\ BitmapRank(segment.bitmap, id - segment.start) = rest
       [] segment.kind \in {"sorted_array", "array"} -> segment.values[rest + 1]

-----------------------------------------------------------------------------
(* Encodings.  What a page's nested encoding comes down to: wrappers of values  *)
(* that may be null are taken off, and what is inside inherits the validity of  *)
(* the innermost that has one.                                              *)
NoFlat == [kind |-> "none"]
Unsupported == [kind |-> "unsupported"]

UnwrapNoNulls(encoding) ==
  IF encoding.kind = "nullable" /\ encoding.mode = "no_nulls" THEN encoding.values ELSE encoding

IsWrapped(layer) == layer.encoding.kind = "nullable" /\ layer.encoding.mode # "all_nulls"
Unwrapped(layer) ==
  [encoding |-> layer.encoding.values,
   validity |-> IF layer.encoding.mode = "some_nulls" THEN layer.encoding.validity ELSE layer.validity]
Innermost(encoding) ==
  LET layer[n \in 0..MaxWrappers] ==
        IF n = 0 THEN [encoding |-> encoding, validity |-> NoFlat]
        ELSE IF IsWrapped(layer[n - 1]) THEN Unwrapped(layer[n - 1]) ELSE layer[n - 1]
  IN layer[MaxWrappers]

resolveBinary(layer) ==
  LET binary == layer.encoding
  IN IF binary.kind # "binary" \/ layer.validity # NoFlat THEN Unsupported
     ELSE [kind |-> "binary", indices |-> UnwrapNoNulls(binary.indices), bytes |-> binary.bytes,
           nullAdjustment |-> binary.nullAdjustment, validity |-> NoFlat]

resolveCellEncoding(encoding) ==
  LET layer == Innermost(encoding)
      inner == layer.encoding
      items == resolveBinary(Innermost(inner.items))
  IN CASE inner.kind = "nullable" -> [kind |-> "all_nulls"]
       [] inner.kind = "flat" -> [kind |-> "fixed", flat |-> inner, validity |-> layer.validity]
       [] inner.kind = "fixed_size_list" ->
            [kind |-> "fixed_list", flat |-> UnwrapNoNulls(inner.items), dimension |-> inner.dimension, validity |-> layer.validity]
       [] inner.kind = "dictionary" ->
            IF items = Unsupported THEN Unsupported
            ELSE [kind |-> "dictionary", indices |-> UnwrapNoNulls(inner.indices), items |-> items,
                  numItems |-> inner.numItems, validity |-> layer.validity]
       [] OTHER -> resolveBinary(layer)

(* A plan is a cell to read: its field, its page and its place in the page.    *)
EncodingOf(plan) == resolveCellEncoding(plan.page.encoding)

flatRangeSpan(page, flat, first, count) ==
  LET buffer == page.buffers[flat.buffer]
      firstByte == (first * flat.bits) \div ByteBits
      lastByte == ((first + count) * flat.bits + ByteBits - 1) \div ByteBits
  IN Span(buffer.offset + firstByte, lastByte - firstByte)
flatRange(page, flat, at) == flatRangeSpan(page, flat, at, 1)

Fits(page, flat, last) ==
  flat.kind = "flat" /\ flat.buffer \in DOMAIN page.buffers
    /\ (last * flat.bits + ByteBits - 1) \div ByteBits <= page.buffers[flat.buffer].length

(* The width a flat encoding of a type must have.                           *)
bitsForLogicalType(type) == IF type = "bool" THEN 1 ELSE IF type = "word" THEN WordBytes * ByteBits ELSE ByteBits
validateFlat(page, flat, type, last) == Fits(page, flat, last) /\ flat.bits = bitsForLogicalType(type)

ValidPlan(plan) ==
  LET e == EncodingOf(plan)
      next == plan.at + 1
  IN /\ e.kind # "unsupported"
     /\ e.kind \in {"fixed", "fixed_list", "dictionary"} /\ e.validity # NoFlat => validateFlat(plan.page, e.validity, "bool", next)
     /\ e.kind = "fixed" => validateFlat(plan.page, e.flat, plan.type, next)
     /\ e.kind = "fixed_list" => e.dimension = plan.dimension /\ validateFlat(plan.page, e.flat, "item", next * e.dimension)
     /\ e.kind = "dictionary" =>
          plan.type = "text" /\ validateFlat(plan.page, e.indices, "index", next)
            /\ Fits(plan.page, e.items.indices, 0) /\ Fits(plan.page, e.items.bytes, 0)
     /\ e.kind = "binary" => validateFlat(plan.page, e.indices, "word", next) /\ Fits(plan.page, e.bytes, 0)

(* The first read: values, bitmaps, indices, and the ends of this and of the   *)
(* previous text.                                                          *)
ValidityRange(plan, e) == IF e.validity = NoFlat THEN {} ELSE {flatRange(plan.page, e.validity, plan.at)}
EndRanges(page, indices, at) == {flatRange(page, indices, i) : i \in {at, at - 1} \cap Nat}
PhaseOneRanges(plan) ==
  LET e == EncodingOf(plan)
  IN CASE e.kind = "all_nulls" -> {}
       [] e.kind = "fixed" -> {flatRange(plan.page, e.flat, plan.at)} \cup ValidityRange(plan, e)
       [] e.kind = "fixed_list" ->
            {flatRangeSpan(plan.page, e.flat, plan.at * e.dimension, e.dimension)} \cup ValidityRange(plan, e)
       [] e.kind = "dictionary" -> {flatRange(plan.page, e.indices, plan.at)} \cup ValidityRange(plan, e)
       [] e.kind = "binary" -> EndRanges(plan.page, e.indices, plan.at)

-----------------------------------------------------------------------------
(* Decoding.  A cell is done, or has bytes or an entry of a dictionary to wait  *)
(* for; Lost stands for a range that was never planned.                      *)
Null == [null |-> TRUE]
Value(v) == [is |-> v]
Done(value) == [step |-> "done", value |-> value]
Bytes(step, range) == [step |-> step, range |-> range]
Item(index) == [step |-> "item", index |-> index]
Invalid == [step |-> "invalid"]
Lost == [step |-> "lost"]

LittleEndian(bytes) == FoldRight(LAMBDA byte, n : n * 2^ByteBits + byte, bytes, 0)
readBit(byte, at) == (byte \div 2^(at % ByteBits)) % 2 = 1
(* A defect: the mark of a null stays in the offset.                         *)
markedOffset(raw, nullAdjustment) == raw
binaryOffset(raw, nullAdjustment) == IF nullAdjustment > 0 THEN raw % nullAdjustment ELSE raw

(* The text between two ends, the range of its bytes, empty if it has none.    *)
TextRange(page, binary, start, end) ==
  LET buffer == page.buffers[binary.bytes.buffer]
  IN IF end < start \/ end > buffer.length THEN Invalid
     ELSE Bytes("bytes", Span(buffer.offset + start, end - start))

Ends(page, indices, at, lease, bytes) ==
  <<IF at = 0 THEN <<0>> ELSE Slice(lease, bytes, flatRange(page, indices, at - 1)),
    Slice(lease, bytes, flatRange(page, indices, at))>>

decodeFixedValue(plan, e, lease, bytes) ==
  LET slice == Slice(lease, bytes, flatRange(plan.page, e.flat, plan.at))
  IN IF slice = NotPlanned THEN Lost
     ELSE IF plan.type = "bool" THEN Done(Value(readBit(slice[1], plan.at))) ELSE Done(Value(LittleEndian(slice)))

decodeFixedList(plan, e, lease, bytes) ==
  LET slice == Slice(lease, bytes, flatRangeSpan(plan.page, e.flat, plan.at * e.dimension, e.dimension))
  IN IF slice = NotPlanned THEN Lost ELSE Done(Value(slice))

decodeIndex(plan, e, lease, bytes) ==
  LET slice == Slice(lease, bytes, flatRange(plan.page, e.indices, plan.at))
      stored == LittleEndian(slice)
  IN IF slice = NotPlanned THEN Lost
     ELSE IF stored > e.numItems THEN Invalid
     ELSE IF stored = 0 THEN Done(Null)
     ELSE Item(stored - 1)

decodeBinary(plan, e, lease, bytes) ==
  LET ends == Ends(plan.page, e.indices, plan.at, lease, bytes)
      raw == LittleEndian(ends[2])
      text == TextRange(plan.page, e, binaryOffset(LittleEndian(ends[1]), e.nullAdjustment), binaryOffset(raw, e.nullAdjustment))
  IN IF NotPlanned \in ToSet(ends) THEN Lost
     ELSE IF text = Invalid THEN Invalid
     ELSE IF e.nullAdjustment > 0 /\ raw >= e.nullAdjustment THEN Done(Null)
     ELSE IF text.range.length = 0 THEN Done(Value(<<>>))
     ELSE text

PhaseOne(plan, lease, bytes) ==
  LET e == EncodingOf(plan)
      bitmap == Slice(lease, bytes, flatRange(plan.page, e.validity, plan.at))
  IN IF e.kind = "all_nulls" THEN Done(Null)
     ELSE IF e.validity # NoFlat /\ bitmap = NotPlanned THEN Lost
     ELSE IF e.validity # NoFlat /\ ~readBit(bitmap[1], plan.at) THEN Done(Null)
     ELSE CASE e.kind = "fixed" -> decodeFixedValue(plan, e, lease, bytes)
            [] e.kind = "fixed_list" -> decodeFixedList(plan, e, lease, bytes)
            [] e.kind = "dictionary" -> decodeIndex(plan, e, lease, bytes)
            [] e.kind = "binary" -> decodeBinary(plan, e, lease, bytes)

(* The entry of a dictionary: its ends, and then its bytes, which are asked for  *)
(* even if there are none.                                                 *)
ItemRanges(plan, cell) == EndRanges(plan.page, EncodingOf(plan).items.indices, cell.index)
ItemCell(plan, cell, lease, bytes) ==
  LET items == EncodingOf(plan).items
      ends == Ends(plan.page, items.indices, cell.index, lease, bytes)
      end(i) == binaryOffset(LittleEndian(ends[i]), items.nullAdjustment)
      text == TextRange(plan.page, items, end(1), end(2))
  IN IF NotPlanned \in ToSet(ends) THEN Lost
     ELSE IF text = Invalid THEN Invalid
     ELSE Bytes("text", text.range)

TextCell(cell, lease, bytes) ==
  LET slice == Slice(lease, bytes, cell.range)
  IN IF slice = NotPlanned THEN Lost ELSE Done(Value(slice))

(* What a decoded cell counts for, nulls nothing.                            *)
estimateDecodedValueBytes(plan, cell) ==
  IF cell.step # "done" \/ cell.value = Null THEN 0
  ELSE CASE plan.type = "bool" -> 1
         [] plan.type = "number" -> NumberBytes
         [] plan.type = "list" -> plan.dimension * ItemBytes
         [] plan.type = "text" -> Len(cell.value.is)

-----------------------------------------------------------------------------
(* A data file: which of its columns has a field, the page a row is in, and    *)
(* what is read to find out.                                               *)
readTail(size) ==
  LET length == Max({FooterBytes, Min({TailBytes, size \div TailShare})})
  IN Span(size - length, length)
rangesCoveredBy(outer, ranges) == \A range \in ranges : outer.offset <= range.offset /\ End(range) <= End(outer)

(* The footer is believed if the tables it speaks of end before it, and an    *)
(* entry of the table if the metadata it speaks of ends before the table.      *)
TableIsInside(file) == file.tableAt + Len(file.metadata) * EntryBytes + FooterBytes <= file.size
validateContainedRange(range, file) == End(range) <= file.tableAt

TableRanges(file, columns) == {Span(file.tableAt + (c - 1) * EntryBytes, EntryBytes) : c \in columns}
MetadataRanges(file, columns) == {file.metadata[c] : c \in columns}

(* Where a fragment has a field: the files that list it, with a column; 0       *)
(* stands for a negative one, of a field that has moved to another file.       *)
ListedAt(file, field) ==
  {i \in DOMAIN file.fields \cap DOMAIN file.columns : file.fields[i] = field /\ file.columns[i] > 0}
Places(fragment, field) == UNION {{k} \X ListedAt(fragment.files[k], field) : k \in DOMAIN fragment.files}
IsLocated(fragment, field) ==
  /\ \A k \in DOMAIN fragment.files : Len(fragment.files[k].fields) = Len(fragment.files[k].columns)
  /\ Cardinality(Places(fragment, field)) <= 1
ColumnOf(fragment, file, field) ==
  LET place == CHOOSE p \in Places(fragment, field) : p[1] = file
  IN fragment.files[file].columns[place[2]]

PagesOf(pages, row) == {i \in DOMAIN pages : row \in pages[i].rowStart..(pages[i].rowStart + pages[i].length - 1)}
findPage(pages, row) == pages[Min(PagesOf(pages, row))]
=============================================================================
