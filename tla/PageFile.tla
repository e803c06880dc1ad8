------------------------------ MODULE PageFile -------------------------------
(* The document container that travels from the Pi (or a phone's browser) to *)
(* the device: where its writers put the pages, and how the reader finds a   *)
(* page again and copies it into the frame, piece by piece from the card.    *)
(*                                                                           *)
(* A byte of a page is <<page, row, column>>; the eight pixels in it are left*)
(* out.  Of the card's file a first part may be all there is.                *)
EXTENDS Integers, Sequences, FiniteSets, Functions

CONSTANTS
  HeaderBytes, MetadataBytes, EntryBytes, PageHeaderBytes,  \* sizes of the format
  Documents,     \* shapes of the pages of the documents written
  PanelWidth, PanelHeight,
  BulkChunk,     \* kBulkChunkBytes
  MaxRow,        \* kMaxRowBytes
  Cuts           \* bytes that may be missing at the end of the file

ASSUME PageFileAssumption ==
  /\ {HeaderBytes, MetadataBytes, EntryBytes, PageHeaderBytes, BulkChunk} \subseteq Nat \ {0}
  /\ PanelWidth \in Nat \ {0} /\ PanelHeight \in Nat \ {0} /\ MaxRow \in Nat /\ Cuts \subseteq Nat
  /\ Documents \subseteq Seq([width : Nat, height : Nat]) \ {<<>>}

VARIABLES
  file,    \* what was written: length, header, entries, page headers, bytes
  stored,  \* how much of it is on the card
  frame8,  \* the framebuffer, by byte
  work,    \* the copy under way: page, kind, done (bytes or rows)
  result   \* RenderResult of the last page, "none" while there is none

pageVars == <<file, stored, frame8, work, result>>

RowBytes(width) == (width + 7) \div 8
PageBytes(s) == RowBytes(s.width) * s.height
XtgBytes(s) == PageHeaderBytes + PageBytes(s)
Toward0(a, b) == IF a >= 0 THEN a \div b ELSE -((-a) \div b)
PanelRow == RowBytes(PanelWidth)
PanelBytes == PanelRow * PanelHeight
White == <<"white">>

-----------------------------------------------------------------------------
(* The writers *)

\* Where the page's bytes lie when its XTG file begins at this offset.
DataAt(page, shape, offset) ==
  [k \in (offset + PageHeaderBytes)..(offset + XtgBytes(shape) - 1) |->
     LET i == k - offset - PageHeaderBytes
     IN <<page, i \div RowBytes(shape.width), i % RowBytes(shape.width)>>]

\* One file of these pages: its page offsets, and everything at its place.
Container(shapes, index, offsets) ==
  [length  |-> offsets[Len(shapes)] + XtgBytes(shapes[Len(shapes)]),
   header  |-> [pageCount |-> Len(shapes), indexOffset |-> index],
   entries |-> [o \in {index + (p - 1) * EntryBytes : p \in DOMAIN shapes} |->
                  offsets[((o - index) \div EntryBytes) + 1]],
   heads   |-> [o \in Range(offsets) |-> shapes[CHOOSE p \in DOMAIN shapes : offsets[p] = o]],
   bytes   |-> [k \in UNION {DOMAIN DataAt(p, shapes[p], offsets[p]) : p \in DOMAIN shapes} |->
                  LET p == CHOOSE p \in DOMAIN shapes : k \in DOMAIN DataAt(p, shapes[p], offsets[p])
                  IN DataAt(p, shapes[p], offsets[p])[k]]]

\* encode_xtc: header, metadata, index, then page after page.
EncodeXtc(shapes) ==
  LET index == HeaderBytes + MetadataBytes
      offset[p \in DOMAIN shapes] ==
        IF p = 1 THEN index + Len(shapes) * EntryBytes ELSE offset[p - 1] + XtgBytes(shapes[p - 1])
  IN Container(shapes, index, offset)

\* xtc_encode_single_page, in the browser.
EncodeSinglePage(shape) ==
  LET index == HeaderBytes + MetadataBytes
  IN Container(<<shape>>, index, <<index + EntryBytes>>)

-----------------------------------------------------------------------------
(* The reader *)

PageInit ==
  /\ \/ \E shapes \in Documents : file = EncodeXtc(shapes)
     \/ \E shapes \in Documents : file = EncodeSinglePage(shapes[1])
  /\ \E cut \in Cuts : stored = IF cut > file.length THEN 0 ELSE file.length - cut
  /\ frame8 = [k \in 0..(PanelBytes - 1) |-> <<"old">>]
  /\ work = [page |-> 0, kind |-> "none", done |-> 0] /\ result = "none"

\* readAt: all of it or nothing.
CanRead(offset, length) == offset + length <= stored

\* getPageInfo; 0 stands for no entry.
OffsetOf(page) ==
  LET o == file.header.indexOffset + (page - 1) * EntryBytes
  IN IF CanRead(0, HeaderBytes) /\ page <= file.header.pageCount /\ CanRead(o, EntryBytes) /\ o \in DOMAIN file.entries
     THEN file.entries[o] ELSE 0

Refuses(page) ==
  CASE ~CanRead(0, HeaderBytes) -> "IoError"
    [] CanRead(0, HeaderBytes) /\ OffsetOf(page) = 0 -> "BadPageIndex"
    [] OffsetOf(page) # 0 /\ (~CanRead(OffsetOf(page), PageHeaderBytes) \/ OffsetOf(page) \notin DOMAIN file.heads) ->
         "IoError"
    [] OTHER -> "no"
ShapeOf(page) == file.heads[OffsetOf(page)]
DataOffset_AtThePage(page) == OffsetOf(page)
DataOffset(page) == OffsetOf(page) + PageHeaderBytes
PanelSized(s) == s.width = PanelWidth /\ s.height = PanelHeight

\* renderPageToFramebuffer up to its loops.
BeginPage ==
  /\ work.kind = "none"
  /\ \E page \in 1..(file.header.pageCount + 1) :
       IF Refuses(page) # "no" THEN result' = Refuses(page) /\ UNCHANGED <<frame8, work>>
       ELSE IF PanelSized(ShapeOf(page))
            THEN work' = [page |-> page, kind |-> "bulk", done |-> 0] /\ result' = "none" /\ UNCHANGED frame8
       ELSE IF RowBytes(ShapeOf(page).width) > MaxRow THEN result' = "UnsupportedFormat" /\ UNCHANGED <<frame8, work>>
       ELSE /\ work' = [page |-> page, kind |-> "rows", done |-> 0] /\ result' = "none"
            /\ frame8' = [k \in DOMAIN frame8 |-> White]
  /\ UNCHANGED <<file, stored>>

Ends(with) == result' = with /\ work' = [work EXCEPT !.kind = "none"]
Content(offset) == IF offset \in DOMAIN file.bytes THEN file.bytes[offset] ELSE <<"header">>
Written(old, writes) == [k \in DOMAIN old \union DOMAIN writes |-> IF k \in DOMAIN writes THEN writes[k] ELSE old[k]]

ChunkBytes_Whole(remaining) == BulkChunk
ChunkBytes(remaining) == IF remaining < BulkChunk THEN remaining ELSE BulkChunk
\* n bytes of the file, or none, copied into the frame.
Copied(from, to, n) == Written(frame8, [k \in to..(to + n - 1) |-> Content(from + k - to)])
\* A page of the panel's size goes straight into the frame, a short read too.
CopyChunk ==
  /\ work.kind = "bulk"
  /\ LET remaining == PageBytes(ShapeOf(work.page)) - work.done
         n == ChunkBytes(remaining)
         from == DataOffset(work.page) + work.done
     IN IF remaining <= 0 THEN Ends("Ok") /\ UNCHANGED frame8
        ELSE IF ~CanRead(from, n) THEN Ends("IoError") /\ frame8' = Copied(from, work.done, stored - from)
        ELSE /\ frame8' = Copied(from, work.done, n)
             /\ work' = [work EXCEPT !.done = @ + n] /\ UNCHANGED result
  /\ UNCHANGED <<file, stored>>

\* Any other page goes row by row onto white, by whole bytes to the middle.
CopyRow ==
  /\ work.kind = "rows"
  /\ LET s == ShapeOf(work.page)
         row == RowBytes(s.width)
         y == Toward0(PanelHeight - s.height, 2) + work.done
         shift == Toward0(Toward0(PanelWidth - s.width, 2), 8)
         from == DataOffset(work.page) + work.done * row
         columns == {c \in 0..(row - 1) : c + shift \in 0..(PanelRow - 1)}
     IN IF work.done >= s.height THEN Ends("Ok") /\ UNCHANGED frame8
        ELSE IF y \notin 0..(PanelHeight - 1) THEN work' = [work EXCEPT !.done = @ + 1] /\ UNCHANGED <<frame8, result>>
        ELSE IF ~CanRead(from, row) THEN Ends("IoError") /\ UNCHANGED frame8
        ELSE /\ frame8' = Written(frame8, [k \in {y * PanelRow + c + shift : c \in columns} |->
                                             Content(from + k - y * PanelRow - shift)])
             /\ work' = [work EXCEPT !.done = @ + 1] /\ UNCHANGED result
  /\ UNCHANGED <<file, stored>>

PageNext == BeginPage \/ CopyChunk \/ CopyRow

PageSpec == PageInit /\ [][PageNext]_pageVars

\* xtc_decode_page: the preview's bytes of a page of the whole file, or none.
Preview(page) ==
  IF Refuses(page) # "no" \/ ~CanRead(DataOffset(page), PageBytes(ShapeOf(page))) THEN <<>>
  ELSE [k \in 0..(PageBytes(ShapeOf(page)) - 1) |-> Content(DataOffset(page) + k)]

-----------------------------------------------------------------------------
\* A page reported rendered is the page asked for and nothing else, moved as
\* one piece over white, inside the frame; the browser's preview of it holds
\* the same bytes.  However short the file on the card, no frame mixed from two
\* pages, or from a page and what was there before, is reported good.
RenderedPageIsThePage ==
  /\ DOMAIN frame8 = 0..(PanelBytes - 1)
  /\ result = "Ok" =>
       LET s == ShapeOf(work.page)
           At(y, x) == frame8[y * PanelRow + x]
           Of(y, x) == IF y \in 0..(s.height - 1) /\ x \in 0..(RowBytes(s.width) - 1)
                       THEN <<work.page, y, x>> ELSE White
           farthest == PanelHeight + PanelRow + s.height + RowBytes(s.width)
           Reach == -farthest..farthest
       IN /\ \E dy \in Reach, dx \in Reach :
               \A y \in 0..(PanelHeight - 1), x \in 0..(PanelRow - 1) : At(y, x) = Of(y - dy, x - dx)
          /\ \A k \in DOMAIN frame8 :
               frame8[k] # White /\ Preview(work.page) # <<>> => frame8[k] \in Range(Preview(work.page))
          /\ PanelSized(s) => (\A k \in DOMAIN frame8 : Preview(work.page)[k] = frame8[k])
=============================================================================
