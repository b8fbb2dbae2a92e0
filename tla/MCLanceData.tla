------------------------------ MODULE MCLanceData ------------------------------
(***************************************************************************)
(* Lance datasets as the writer (pylance, outside the repository) makes them: *)
(* columns become pages, pages become buffers, and a file is its buffers with *)
(* the metadata of its columns, the table of them and a footer at the end.    *)
(* Bytes have two bits, numbers are a byte, offsets are two.  A dataset is     *)
(* given with the cells that were written to it.                            *)
(***************************************************************************)
EXTENDS Integers, FiniteSets, SequencesExt

Null == [null |-> TRUE]
Is(x) == [is |-> x]
Or(cell, other) == IF cell = Null THEN other ELSE cell.is
Page(how, cells) == [how |-> how, cells |-> cells]
CellsOf(column) == FlattenSeq([i \in DOMAIN column |-> column[i].cells])

Flat(buffer, bits) == [kind |-> "flat", buffer |-> buffer, bits |-> bits]
Nullable(mode, values, validity) == [kind |-> "nullable", mode |-> mode, values |-> values, validity |-> validity]
BitBytes(bits) ==
  [b \in 1..((Len(bits) + 1) \div 2) |->
     (IF bits[2 * b - 1] THEN 1 ELSE 0) + (IF 2 * b <= Len(bits) /\ bits[2 * b] THEN 2 ELSE 0)]
Words(ns) == FlattenSeq([i \in DOMAIN ns |-> <<ns[i] % 4, ns[i] \div 4>>])

(* Texts: where each ends, more than the adjustment for a null.              *)
Adjustment == 8
Ends(texts) == [i \in DOMAIN texts |-> Len(FlattenSeq(SubSeq(texts, 1, i)))]
Binary(n) ==
  [kind |-> "binary", indices |-> Nullable("no_nulls", Flat(n, 4), Flat(n, 4)), bytes |-> Flat(n + 1, 2), nullAdjustment |-> Adjustment]

Encoded(how, cells) ==
  LET texts == [i \in DOMAIN cells |-> Or(cells[i], <<>>)]
      items == SetToSortSeq({cell.is : cell \in ToSet(cells) \ {Null}}, LAMBDA a, b : Len(a) > Len(b))
      valid == BitBytes([i \in DOMAIN cells |-> cells[i] # Null])
      ends == [i \in DOMAIN cells |-> Ends(texts)[i] + IF cells[i] = Null THEN Adjustment ELSE 0]
      entry(i) == IF cells[i] = Null THEN 0 ELSE CHOOSE k \in DOMAIN items : items[k] = cells[i].is
      Buffers(buffers, encoding) == [buffers |-> buffers, encoding |-> encoding]
  IN CASE how = "nulls" -> Buffers(<<>>, Nullable("all_nulls", Flat(1, 2), Flat(1, 2)))
       [] how = "number" -> Buffers(<<[i \in DOMAIN cells |-> cells[i].is]>>, Nullable("no_nulls", Flat(1, 2), Flat(1, 2)))
       [] how = "nullable" ->
            Buffers(<<valid, [i \in DOMAIN cells |-> Or(cells[i], 3)]>>, Nullable("some_nulls", Flat(2, 2), Flat(1, 1)))
       [] how = "bool" -> Buffers(<<BitBytes([i \in DOMAIN cells |-> cells[i].is])>>, Flat(1, 1))
       [] how = "list" ->
            Buffers(<<valid, FlattenSeq([i \in DOMAIN cells |-> Or(cells[i], <<0, 0>>)])>>,
                    Nullable("some_nulls", [kind |-> "fixed_size_list", items |-> Flat(2, 2), dimension |-> 2], Flat(1, 1)))
       [] how = "binary" -> Buffers(<<Words(ends), FlattenSeq(texts)>>, Binary(1))
       [] how = "dictionary" ->
            Buffers(<<[i \in DOMAIN cells |-> entry(i)], Words(Ends(items)), FlattenSeq(items)>>,
                    [kind |-> "dictionary", indices |-> Flat(1, 2), items |-> Binary(2), numItems |-> Len(items)])

Placed(column, page, encoded) ==
  LET at(i) == Len(column.bytes) + Len(FlattenSeq(SubSeq(encoded.buffers, 1, i - 1)))
      added == [rowStart |-> column.rows, length |-> Len(page.cells), encoding |-> encoded.encoding,
                buffers |-> [i \in DOMAIN encoded.buffers |-> [offset |-> at(i), length |-> Len(encoded.buffers[i])]]]
  IN [bytes |-> column.bytes \o FlattenSeq(encoded.buffers), rows |-> column.rows + Len(page.cells),
      pages |-> Append(column.pages, added)]
WithPage(column, page) == Placed(column, page, Encoded(page.how, page.cells))
Appended(pages, column) == [bytes |-> column.bytes, pages |-> Append(pages, column.pages)]
WithColumn(file, column) == Appended(file.pages, FoldLeft(WithPage, [bytes |-> file.bytes, rows |-> 0, pages |-> <<>>], column))

Closed(data, fields, n, end, sizeKnown) ==
  [bytes |-> data.bytes \o [i \in 1..(2 * n + 1) |-> 0], pages |-> data.pages, fields |-> fields,
   columns |-> [i \in DOMAIN fields |-> IF i <= n THEN i ELSE 0], metadata |-> [i \in 1..n |-> [offset |-> end + i - 1, length |-> 1]],
   tableAt |-> end + n, size |-> end + 2 * n + 1, sizeKnown |-> sizeKnown]
File(written) ==
  LET data == FoldLeft(WithColumn, [bytes |-> <<>>, pages |-> <<>>], written.columns)
  IN Closed(data, written.fields, Len(written.columns), Len(data.bytes), written.sizeKnown)

-----------------------------------------------------------------------------
(* A fragment of three rows in two files, one row deleted, of which the first   *)
(* still lists a field that has moved to the second; and a fragment of two rows *)
(* with other columns and its row ids in a file of its own, where an id stands *)
(* again that the first one has a hole for.                                  *)
Segment(kind, start, end, holes, bitmap, values) ==
  [kind |-> kind, start |-> start, end |-> end, holes |-> holes, bitmap |-> bitmap, values |-> values]
Holed == <<Segment("range_with_holes", 10, 14, <<11>>, <<>>, <<>>)>>
Arrays == <<Segment("array", 0, 0, <<>>, <<>>, <<20>>), Segment("range_with_bitmap", 10, 13, <<>>, <<FALSE, TRUE, FALSE, TRUE>>, <<>>)>>

Extent(offset, length) == [offset |-> offset, length |-> length]
NoDeletion == [size |-> 0, rows |-> <<>>, isRoaring |-> FALSE]
Deletion(rows, expected, hasNulls) ==
  [size |-> 8, rows |-> rows, expected |-> expected, numRows |-> Len(rows), isRoaring |-> FALSE, hasNulls |-> hasNulls, decompressed |-> 2,
   footer |-> Extent(5, 2), metadata |-> Extent(1, 1), validity |-> Extent(2, IF hasNulls THEN 1 ELSE 0), values |-> Extent(3, Len(rows))]

A == <<1, 2>>
B == <<3>>
Numbers == <<Page("nullable", <<Is(1), Null, Is(2)>>)>>
Texts == <<Page("binary", <<Is(A), Null, Is(B)>>)>>
TextsWithEmpty == <<Page("binary", <<Is(<<>>), Is(B), Is(A)>>)>>
Words3 == <<Page("dictionary", <<Is(B), Is(A), Null>>)>>
WordsWithEmpty == <<Page("dictionary", <<Is(B), Is(<<>>), Null>>)>>
TwoPages == <<Page("nulls", <<Null>>), Page("number", <<Is(3)>>)>>
Flags == <<Page("bool", <<Is(TRUE), Is(FALSE)>>)>>
Lists == <<Page("list", <<Null, Is(<<1, 2>>)>>)>>

Field(name, id, type, dimension) == [name |-> name, id |-> id, type |-> type, dimension |-> dimension]
Fields == {Field("n", 1, "number", 0), Field("t", 2, "text", 0), Field("d", 3, "text", 0), Field("b", 4, "bool", 0), Field("l", 5, "list", 2)}

Written(fields, columns, sizeKnown) == [fields |-> fields, columns |-> columns, sizeKnown |-> sizeKnown]
First(texts, words, deletion) ==
  [rows |-> 3, segments |-> Holed, ids |-> <<10, 12, 13>>, external |-> Extent(0, 0), idsSize |-> 0, deletion |-> deletion,
   files |-> <<Written(<<1, 2, 3>>, <<Numbers, texts>>, TRUE), Written(<<3>>, <<words>>, FALSE)>>,
   cells |-> [n |-> CellsOf(Numbers), t |-> CellsOf(texts), d |-> CellsOf(words)]]
Second ==
  [rows |-> 2, segments |-> Arrays, ids |-> <<20, 11>>, external |-> Extent(0, 2), idsSize |-> 2, deletion |-> NoDeletion,
   files |-> <<Written(<<1, 4, 5>>, <<TwoPages, Flags, Lists>>, TRUE)>>,
   cells |-> [n |-> CellsOf(TwoPages), b |-> CellsOf(Flags), l |-> CellsOf(Lists)]]

Ample == [memory |-> 1000, requests |-> 1000, bytes |-> 1000, rows |-> 10, output |-> 10]
Kind(isCorrupt, hasEmptyItem) == [isCorrupt |-> isCorrupt, hasEmptyItem |-> hasEmptyItem]
Sound == Kind(FALSE, FALSE)

(* Corrupt ones: a deletion file that has another number of rows, more than     *)
(* there are, a null or a row that does not exist; too few row ids, or ids that *)
(* end after their file; a buffer that is too short, a table of columns that    *)
(* ends in the footer, metadata that ends in the table; a field in two files,   *)
(* or with no column.  And deletions that are a bitmap, which is not read.      *)
Intact == <<First(Texts, Words3, NoDeletion), Second, Kind(TRUE, FALSE)>>
Fragments ==
  [plain |-> <<First(Texts, Words3, Deletion(<<1>>, 1, FALSE)), Second, Sound>>,
   empty |-> <<First(TextsWithEmpty, Words3, NoDeletion), Second, Sound>>,
   emptyItem |-> <<First(Texts, WordsWithEmpty, NoDeletion), Second, Kind(FALSE, TRUE)>>,
   wrongCount |-> <<First(Texts, Words3, Deletion(<<1>>, 2, FALSE)), Second, Kind(TRUE, FALSE)>>,
   nullRow |-> <<First(Texts, Words3, Deletion(<<1>>, 1, TRUE)), Second, Kind(TRUE, FALSE)>>,
   wrongRow |-> <<First(Texts, Words3, Deletion(<<3>>, 1, FALSE)), Second, Kind(TRUE, FALSE)>>,
   fewIds |-> <<[Second EXCEPT !.segments = <<Arrays[1]>>], First(Texts, Words3, NoDeletion), Kind(TRUE, FALSE)>>,
   tooMany |-> <<First(Texts, Words3, Deletion(<<1>>, 4, FALSE)), Second, Kind(TRUE, FALSE)>>,
   longIds |-> <<First(Texts, Words3, NoDeletion), [Second EXCEPT !.idsSize = 1], Kind(TRUE, FALSE)>>,
   roaring |-> <<First(Texts, Words3, [Deletion(<<1>>, 1, FALSE) EXCEPT !.isRoaring = TRUE]), Second, Sound>>,
   shortBuffer |-> Intact, longTable |-> Intact, longMetadata |-> Intact, twice |-> Intact, uneven |-> Intact]
Corrupt ==
  {"wrongCount", "nullRow", "wrongRow", "fewIds", "tooMany", "longIds", "roaring", "shortBuffer", "longTable", "longMetadata",
   "twice", "uneven"}

Files(fragment) == [fragment EXCEPT !.files = [i \in DOMAIN @ |-> File(@[i])]]
Cut(name, fragments) ==
  CASE name = "shortBuffer" -> [fragments EXCEPT ![1].files[1].pages[1][1].buffers[2].length = 1]
    [] name = "longTable" -> [fragments EXCEPT ![1].files[1].size = @ - 1]
    [] name = "longMetadata" -> [fragments EXCEPT ![1].files[1].metadata[1].length = 3]
    [] name = "twice" -> [fragments EXCEPT ![1].files[2].fields = <<3, 1>>, ![1].files[2].columns = <<1, 1>>]
    [] name = "uneven" -> [fragments EXCEPT ![1].files[1].columns = <<1, 2>>]
    [] OTHER -> fragments
Dataset(name, of) ==
  [fragments |-> Cut(name, [i \in 1..2 |-> Files(of[i])]), fields |-> Fields, isCorrupt |-> of[3].isCorrupt,
   hasEmptyItem |-> of[3].hasEmptyItem, ample |-> Ample]

-----------------------------------------------------------------------------
Calls(datasets, ids, selects, nulls, budgets, expiring) ==
  {[dataset |-> d, ids |-> i, select |-> s, orNull |-> o, budget |-> b, mayExpire |-> e, isSnapshot |-> TRUE] :
     d \in datasets, i \in ids, s \in selects, o \in nulls, b \in budgets, e \in expiring}
Budgets ==
  {[Ample EXCEPT !.memory = m] : m \in 4..20} \cup {[Ample EXCEPT !.requests = n] : n \in {8, 16}}
    \cup {[Ample EXCEPT !.bytes = 18], [Ample EXCEPT !.rows = 1], [Ample EXCEPT !.output = 1]}

NamedTakes ==
  Calls({"plain"}, {<<13, 20, 10, 13>>, <<11, 12, 99>>, <<99>>}, {<<"n", "d">>, <<"t", "b">>, <<"l">>, <<"t", "z">>}, BOOLEAN, {Ample}, {FALSE})
    \cup Calls({"plain"}, {<<13, 20>>}, {<<"n", "d">>}, {TRUE}, Budgets, {FALSE})
    \cup Calls({"plain"}, {<<13, 20>>}, {<<"n", "d">>}, {TRUE}, {Ample}, {TRUE})
    \cup Calls({"empty"}, {<<10, 12, 13>>, <<12>>, <<13>>}, {<<"t">>}, {FALSE}, {Ample}, {FALSE})
    \cup Calls({"emptyItem"}, {<<10, 12>>, <<12>>}, {<<"d">>}, {TRUE}, {Ample}, {FALSE})
    \cup Calls(Corrupt, {<<10, 12, 11>>}, {<<"n">>, <<"d">>}, {TRUE}, {Ample}, {FALSE})
    \cup {[call EXCEPT !.isSnapshot = FALSE] : call \in Calls({"plain"}, {<<13>>}, {<<"n">>}, {TRUE}, {Ample}, {FALSE})}

TakesOf(datasets) == {[call EXCEPT !.dataset = datasets[@]] : call \in NamedTakes}
AllDatasets(fragments) == [name \in DOMAIN fragments |-> Dataset(name, fragments[name])]

(* And no ids, of a dataset that has no rows yet.                            *)
NoRows == [fragments |-> <<>>, fields |-> {Field("n", 1, "number", 0)}, isCorrupt |-> FALSE, hasEmptyItem |-> FALSE, ample |-> Ample]
NoIds ==
  [dataset |-> NoRows, ids |-> <<>>, select |-> <<"n">>, orNull |-> FALSE, budget |-> Ample, mayExpire |-> FALSE, isSnapshot |-> TRUE]

AllTakes == TakesOf(AllDatasets(Fragments)) \cup {NoIds}
=============================================================================
