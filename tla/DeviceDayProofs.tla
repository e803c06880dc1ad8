--------------------------- MODULE DeviceDayProofs ---------------------------
(***************************************************************************)
(* Theorems about the device's parts beside the sync pass.                 *)
(*   PageFile: for every size of the format's parts, of the panel and of   *)
(*     the chunks, and every document of pages of any shape.               *)
(*   MCDeviceDay: the parts side by side.                                  *)
(* WakeDay and InboxScreens have proof modules of their own.               *)
(***************************************************************************)
EXTENDS MCDeviceDay, WakeDayProofs, InboxScreensProofs, FiniteSetTheorems, TLAPS

USE PageFileAssumption

-----------------------------------------------------------------------------
(* Rows and columns                                                          *)

LEMMA ProductGrows ==
  ASSUME NEW a \in Nat, NEW b \in Nat, NEW c \in Nat, a <= b
  PROVE  a * c <= b * c /\ a * c \in Nat
OBVIOUS

LEMMA OneMore == \A a, c \in Int : a * c \in Int /\ (a + 1) * c = a * c + c
OBVIOUS

LEMMA Divides ==
  ASSUME NEW k \in Nat, NEW row \in Nat \ {0}
  PROVE  /\ k \div row \in Nat /\ k % row \in 0..(row - 1)
         /\ k = (k \div row) * row + (k % row)
OBVIOUS

\* A byte has one row and one column.
LEMMA PlaceIsUnique ==
  ASSUME NEW row \in Nat \ {0}, NEW y \in Nat, NEW v \in Nat, NEW x \in 0..(row - 1), NEW u \in 0..(row - 1),
         y * row + x = v * row + u
  PROVE  y = v /\ x = u
<1>1. CASE y < v
  <2>1. (y + 1) * row <= v * row /\ (y + 1) * row = y * row + row
    BY <1>1, ProductGrows, OneMore
  <2>2. QED
    BY <2>1, ProductGrows
<1>2. CASE v < y
  <2>1. (v + 1) * row <= y * row /\ (v + 1) * row = v * row + row
    BY <1>2, ProductGrows, OneMore
  <2>2. QED
    BY <2>1, ProductGrows
<1>3. CASE v = y
  BY <1>3, ProductGrows
<1>4. QED
  BY <1>1, <1>2, <1>3

LEMMA PlaceOf ==
  ASSUME NEW row \in Nat \ {0}, NEW y \in Nat, NEW x \in 0..(row - 1)
  PROVE  (y * row + x) \div row = y /\ (y * row + x) % row = x
<1> DEFINE k == y * row + x
<1>1. k \in Nat
  BY ProductGrows
<1>2. k \div row \in Nat /\ k % row \in 0..(row - 1) /\ k = (k \div row) * row + (k % row)
  BY <1>1, Divides
<1>3. QED
  BY <1>2, PlaceIsUnique

LEMMA RowsWithin ==
  ASSUME NEW row \in Nat, NEW h \in Nat, NEW y \in 0..(h - 1), NEW x \in 0..(row - 1)
  PROVE  y * row + x \in 0..(row * h - 1)
<1>1. (y + 1) * row <= h * row /\ (y + 1) * row = y * row + row /\ y * row \in Nat
  BY ProductGrows, OneMore
<1>2. h * row = row * h
  OBVIOUS
<1>3. QED
  BY <1>1, <1>2

LEMMA RowOf ==
  ASSUME NEW row \in Nat, NEW h \in Nat, NEW k \in 0..(row * h - 1)
  PROVE  /\ row # 0 /\ k \in Nat /\ k \div row \in 0..(h - 1) /\ k % row \in 0..(row - 1)
         /\ k = (k \div row) * row + (k % row)
<1>1. row # 0
  OBVIOUS
<1>2. k \in Nat /\ row * h \in Nat
  BY ProductGrows
<1>3. k \div row \in Nat /\ k % row \in 0..(row - 1) /\ k = (k \div row) * row + (k % row)
  BY <1>1, <1>2, Divides
<1>4. CASE h <= k \div row
  <2>1. h * row <= (k \div row) * row /\ h * row = row * h
    BY <1>3, <1>4, ProductGrows
  <2>2. QED
    BY <1>2, <1>3, <2>1
<1>5. QED
  BY <1>1, <1>2, <1>3, <1>4

-----------------------------------------------------------------------------
(* The writers                                                               *)

Shapes == [width : Nat, height : Nat]

LEMMA ShapeFacts ==
  ASSUME NEW s \in Shapes
  PROVE  /\ s.width \in Nat /\ s.height \in Nat /\ RowBytes(s.width) \in Nat
         /\ PageBytes(s) \in Nat /\ PageBytes(s) = RowBytes(s.width) * s.height
         /\ XtgBytes(s) \in Nat /\ XtgBytes(s) = PageHeaderBytes + PageBytes(s) /\ XtgBytes(s) > 0
<1>1. s.width \in Nat /\ s.height \in Nat
  BY DEF Shapes
<1>2. RowBytes(s.width) \in Nat
  BY <1>1 DEF RowBytes
<1>3. PageBytes(s) \in Nat
  BY <1>1, <1>2, ProductGrows DEF PageBytes
<1>4. QED
  BY <1>1, <1>2, <1>3 DEF PageBytes, XtgBytes

\* A file in which every page of the index is found whole: its offset, its
\* header and its bytes.
Place(s, offset, y, x) == offset + PageHeaderBytes + (y * RowBytes(s.width) + x)
EntryOf(f, p) == f.header.indexOffset + (p - 1) * EntryBytes
PageOffset(f, p) == f.entries[EntryOf(f, p)]
PageShape(f, p) == f.heads[PageOffset(f, p)]

WellWritten(f) ==
  /\ f.length \in Int /\ f.header.pageCount \in Nat \ {0}
  /\ \A p \in 1..f.header.pageCount :
       /\ EntryOf(f, p) \in DOMAIN f.entries /\ PageOffset(f, p) \in Nat \ {0}
       /\ PageOffset(f, p) \in DOMAIN f.heads /\ PageShape(f, p) \in Shapes
       /\ \A y \in 0..(PageShape(f, p).height - 1), x \in 0..(RowBytes(PageShape(f, p).width) - 1) :
            /\ Place(PageShape(f, p), PageOffset(f, p), y, x) \in DOMAIN f.bytes
            /\ f.bytes[Place(PageShape(f, p), PageOffset(f, p), y, x)] = <<p, y, x>>

\* Pages that do not overlap.
Spaced(shapes, offsets) ==
  /\ DOMAIN offsets = 1..Len(shapes)
  /\ \A p \in 1..Len(shapes) : offsets[p] \in Nat \ {0}
  /\ \A p, q \in 1..Len(shapes) : p < q => offsets[p] + XtgBytes(shapes[p]) <= offsets[q]

LEMMA SpacedApart ==
  ASSUME NEW shapes \in Seq(Shapes), NEW offsets, Spaced(shapes, offsets),
         NEW p \in 1..Len(shapes), NEW q \in 1..Len(shapes), NEW k \in Int,
         offsets[p] <= k, k < offsets[p] + XtgBytes(shapes[p]),
         offsets[q] <= k, k < offsets[q] + XtgBytes(shapes[q])
  PROVE  p = q
<1>1. /\ Len(shapes) \in Nat /\ offsets[p] \in Nat /\ offsets[q] \in Nat
      /\ XtgBytes(shapes[p]) \in Nat /\ XtgBytes(shapes[q]) \in Nat
  BY ShapeFacts, LenProperties, ElementOfSeq DEF Spaced
<1>2. ~(p < q) /\ ~(q < p)
  BY <1>1 DEF Spaced
<1>3. QED
  BY <1>1, <1>2

LEMMA DataAtPlace ==
  ASSUME NEW p, NEW s \in Shapes, NEW offset \in Nat,
         NEW y \in 0..(s.height - 1), NEW x \in 0..(RowBytes(s.width) - 1)
  PROVE  /\ Place(s, offset, y, x) \in DOMAIN DataAt(p, s, offset)
         /\ DataAt(p, s, offset)[Place(s, offset, y, x)] = <<p, y, x>>
         /\ offset <= Place(s, offset, y, x) /\ Place(s, offset, y, x) < offset + XtgBytes(s)
<1> DEFINE row == RowBytes(s.width)
           i == y * row + x
           k == Place(s, offset, y, x)
<1>1. row \in Nat /\ s.height \in Nat /\ XtgBytes(s) = PageHeaderBytes + row * s.height
  BY ShapeFacts
<1> HIDE DEF row
<1>2. row \in Nat \ {0} /\ row * s.height \in Nat /\ x \in 0..(row - 1)
  BY <1>1, ProductGrows DEF row
<1>3. i \in 0..(row * s.height - 1)
  BY <1>1, <1>2, RowsWithin
<1>4. i \div row = y /\ i % row = x
  BY <1>1, <1>2, PlaceOf
<1>9. k = offset + PageHeaderBytes + i
  BY DEF row, i, Place
<1> HIDE DEF i, k
<1>5. k \in Int /\ offset + PageHeaderBytes <= k /\ k <= offset + XtgBytes(s) - 1 /\ XtgBytes(s) \in Nat
  <2> DEFINE bytes == row * s.height
  <2>1. bytes \in Nat /\ i \in 0..(bytes - 1) /\ XtgBytes(s) = PageHeaderBytes + bytes
    BY <1>1, <1>2, <1>3
  <2> HIDE DEF bytes
  <2>2. QED
    BY <1>9, <2>1
<1>6. k - offset - PageHeaderBytes = i
  BY <1>2, <1>3, <1>9
<1>7. k \in DOMAIN DataAt(p, s, offset) /\ DataAt(p, s, offset)[k] = <<p, i \div row, i % row>>
  BY <1>5, <1>6 DEF DataAt, row
<1>8. QED
  BY <1>4, <1>5, <1>7 DEF k

\* Whatever lays out its pages without overlap writes a file of them.
LEMMA ContainerIsWellWritten ==
  ASSUME NEW shapes \in Seq(Shapes), shapes # <<>>, NEW index \in Nat, NEW offsets, Spaced(shapes, offsets)
  PROVE  /\ WellWritten(Container(shapes, index, offsets))
         /\ Container(shapes, index, offsets).header.pageCount = Len(shapes)
<1> DEFINE f == Container(shapes, index, offsets)
           n == Len(shapes)
<1>1. /\ n \in Nat \ {0} /\ DOMAIN shapes = 1..n /\ DOMAIN offsets = 1..n
      /\ \A p \in 1..n : shapes[p] \in Shapes /\ offsets[p] \in Nat \ {0}
  BY LenProperties, ElementOfSeq, EmptySeq DEF Spaced
<1>2. /\ f.header.pageCount = n /\ f.header.indexOffset = index
      /\ f.length = offsets[n] + XtgBytes(shapes[n])
      /\ f.entries = [o \in {index + (p - 1) * EntryBytes : p \in 1..n} |->
                        offsets[((o - index) \div EntryBytes) + 1]]
      /\ f.heads = [o \in Range(offsets) |-> shapes[CHOOSE p \in 1..n : offsets[p] = o]]
      /\ f.bytes = [k \in UNION {DOMAIN DataAt(p, shapes[p], offsets[p]) : p \in 1..n} |->
                      LET p == CHOOSE p \in 1..n : k \in DOMAIN DataAt(p, shapes[p], offsets[p])
                      IN DataAt(p, shapes[p], offsets[p])[k]]
  BY <1>1 DEF Container
<1> HIDE DEF f, n
<1>3. f.length \in Int
  BY <1>1, <1>2, ShapeFacts
<1>4. ASSUME NEW p \in 1..n
      PROVE  /\ EntryOf(f, p) \in DOMAIN f.entries /\ PageOffset(f, p) = offsets[p]
             /\ offsets[p] \in DOMAIN f.heads /\ f.heads[offsets[p]] = shapes[p]
             /\ \A y \in 0..(shapes[p].height - 1), x \in 0..(RowBytes(shapes[p].width) - 1) :
                  /\ Place(shapes[p], offsets[p], y, x) \in DOMAIN f.bytes
                  /\ f.bytes[Place(shapes[p], offsets[p], y, x)] = <<p, y, x>>
  <2>1. p - 1 \in Nat /\ EntryBytes \in Nat \ {0} /\ (p - 1) * EntryBytes \in Nat
    BY <1>1, ProductGrows
  <2>2. ((p - 1) * EntryBytes) \div EntryBytes = p - 1
    <3>1. ((p - 1) * EntryBytes + 0) \div EntryBytes = p - 1
      BY <2>1, PlaceOf
    <3>2. QED
      BY <2>1, <3>1
  <2> DEFINE o == index + (p - 1) * EntryBytes
  <2>3. EntryOf(f, p) = o /\ o \in {index + (q - 1) * EntryBytes : q \in 1..n}
    BY <1>2 DEF EntryOf
  <2>4. o - index = (p - 1) * EntryBytes
    BY <2>1
  <2>5. ((o - index) \div EntryBytes) + 1 = p
    BY <1>1, <2>2, <2>4
  <2> HIDE DEF o
  <2>6. EntryOf(f, p) \in DOMAIN f.entries /\ PageOffset(f, p) = offsets[p]
    BY <1>2, <2>3, <2>5 DEF PageOffset
  <2>7. \A q \in 1..n : offsets[q] = offsets[p] => q = p
    <3> SUFFICES ASSUME NEW q \in 1..n, offsets[q] = offsets[p] PROVE q = p
      OBVIOUS
    <3>1. shapes[p] \in Shapes /\ shapes[q] \in Shapes /\ offsets[p] \in Nat
      BY <1>1
    <3>2. XtgBytes(shapes[p]) \in Nat /\ XtgBytes(shapes[p]) > 0
      BY <3>1, ShapeFacts
    <3>3. XtgBytes(shapes[q]) \in Nat /\ XtgBytes(shapes[q]) > 0
      BY <3>1, ShapeFacts
    <3>4. p \in 1..Len(shapes) /\ q \in 1..Len(shapes)
      BY DEF n
    <3>5. offsets[p] <= offsets[p] /\ offsets[p] < offsets[p] + XtgBytes(shapes[p])
      BY <3>1, <3>2
    <3>6. offsets[q] <= offsets[p] /\ offsets[p] < offsets[q] + XtgBytes(shapes[q])
      BY <3>1, <3>3
    <3>7. QED
      BY <3>1, <3>4, <3>5, <3>6, SpacedApart
  <2>8. (CHOOSE q \in 1..n : offsets[q] = offsets[p]) = p
    BY <2>7
  <2>9. offsets[p] \in DOMAIN f.heads /\ f.heads[offsets[p]] = shapes[p]
    <3>1. offsets[p] \in Range(offsets)
      BY <1>1 DEF Range
    <3>2. \A pos \in Range(offsets) : f.heads[pos] = shapes[CHOOSE q \in 1..n : offsets[q] = pos]
      BY <1>2
    <3>3. f.heads[offsets[p]] = shapes[CHOOSE q \in 1..n : offsets[q] = offsets[p]]
      BY <3>1, <3>2
    <3>4. DOMAIN f.heads = Range(offsets)
      BY <1>2
    <3>5. QED
      BY <2>8, <3>1, <3>3, <3>4
  <2>10. ASSUME NEW y \in 0..(shapes[p].height - 1), NEW x \in 0..(RowBytes(shapes[p].width) - 1)
         PROVE  /\ Place(shapes[p], offsets[p], y, x) \in DOMAIN f.bytes
                /\ f.bytes[Place(shapes[p], offsets[p], y, x)] = <<p, y, x>>
    <3> DEFINE k == Place(shapes[p], offsets[p], y, x)
    <3>1. /\ k \in DOMAIN DataAt(p, shapes[p], offsets[p])
          /\ DataAt(p, shapes[p], offsets[p])[k] = <<p, y, x>>
          /\ offsets[p] <= k /\ k < offsets[p] + XtgBytes(shapes[p])
      <4>1. shapes[p] \in Shapes /\ offsets[p] \in Nat
        BY <1>1
      <4>2. QED
        BY <4>1, DataAtPlace
    <3> HIDE DEF k
    <3>2. ASSUME NEW q \in 1..n, k \in DOMAIN DataAt(q, shapes[q], offsets[q]) PROVE q = p
      <4>1. k \in (offsets[q] + PageHeaderBytes)..(offsets[q] + XtgBytes(shapes[q]) - 1)
        BY <3>2 DEF DataAt
      <4>2. XtgBytes(shapes[q]) \in Nat /\ offsets[q] \in Nat
        BY <1>1, ShapeFacts
      <4>3. k \in Int /\ offsets[q] <= k /\ k < offsets[q] + XtgBytes(shapes[q])
        <5> DEFINE pos == offsets[q]
                   size == XtgBytes(shapes[q])
        <5>1. pos \in Nat /\ size \in Nat /\ PageHeaderBytes \in Nat /\ k \in (pos + PageHeaderBytes)..(pos + size - 1)
          BY <4>1, <4>2
        <5> HIDE DEF pos, size
        <5>2. k \in Int /\ pos <= k /\ k < pos + size
          BY <5>1
        <5>3. QED
          BY <5>2 DEF pos, size
      <4>4. p \in 1..Len(shapes) /\ q \in 1..Len(shapes)
        BY DEF n
      <4>5. QED
        BY <3>1, <4>3, <4>4, SpacedApart
    <3>3. (CHOOSE q \in 1..n : k \in DOMAIN DataAt(q, shapes[q], offsets[q])) = p
      BY <3>1, <3>2
    <3>4. k \in DOMAIN f.bytes
      BY <1>2, <3>1
    <3>5. f.bytes[k] = DataAt(p, shapes[p], offsets[p])[k]
      BY <1>2, <3>3, <3>4
    <3>6. QED
      BY <3>1, <3>4, <3>5 DEF k
  <2>11. QED
    BY <2>6, <2>9, <2>10
<1>5. WellWritten(f)
  <2>1. \A p \in 1..n : PageShape(f, p) = shapes[p]
    BY <1>4 DEF PageShape
  <2>2. ASSUME NEW p \in 1..f.header.pageCount
        PROVE  /\ EntryOf(f, p) \in DOMAIN f.entries /\ PageOffset(f, p) \in Nat \ {0}
               /\ PageOffset(f, p) \in DOMAIN f.heads /\ PageShape(f, p) \in Shapes
               /\ \A y \in 0..(PageShape(f, p).height - 1), x \in 0..(RowBytes(PageShape(f, p).width) - 1) :
                    /\ Place(PageShape(f, p), PageOffset(f, p), y, x) \in DOMAIN f.bytes
                    /\ f.bytes[Place(PageShape(f, p), PageOffset(f, p), y, x)] = <<p, y, x>>
    <3>1. p \in 1..n
      BY <1>2
    <3>2. PageShape(f, p) = shapes[p] /\ PageOffset(f, p) = offsets[p]
      BY <1>4, <2>1, <3>1
    <3>3. EntryOf(f, p) \in DOMAIN f.entries /\ offsets[p] \in Nat \ {0} /\ offsets[p] \in DOMAIN f.heads
          /\ shapes[p] \in Shapes
      BY <1>1, <1>4, <3>1
    <3>4. ASSUME NEW y \in 0..(shapes[p].height - 1), NEW x \in 0..(RowBytes(shapes[p].width) - 1)
          PROVE  /\ Place(shapes[p], offsets[p], y, x) \in DOMAIN f.bytes
                 /\ f.bytes[Place(shapes[p], offsets[p], y, x)] = <<p, y, x>>
      BY <1>4, <3>1
    <3>5. QED
      BY <3>2, <3>3, <3>4
  <2>3. QED
    BY <1>1, <1>2, <1>3, <2>2 DEF WellWritten
<1>6. QED
  BY <1>2, <1>5 DEF f, n

\* One page after another: what encode_xtc's loop leaves in the index.
Laid(f, shapes, first, most) ==
  f = [p \in 1..most |-> IF p = 1 THEN first ELSE f[p - 1] + XtgBytes(shapes[p - 1])]

LEMMA OffsetsDefined ==
  ASSUME NEW shapes, NEW first, NEW most \in Nat
  PROVE  \E f : Laid(f, shapes, first, most)
<1> DEFINE Rounds(f, k) == Laid(f, shapes, first, k)
           Undefined == {k \in 0..most : ~ \E f : Rounds(f, k)}
<1> SUFFICES ASSUME Undefined # {} PROVE FALSE
  <2>1. most \in 0..most
    OBVIOUS
  <2>2. most \notin Undefined => \E f : Rounds(f, most)
    BY <2>1
  <2>3. QED
    BY <2>2, Zenon
<1> USE DEF Laid
<1>0. Undefined \in SUBSET Nat
  OBVIOUS
<1> HIDE DEF Undefined
<1>1. PICK k \in Undefined : \A m \in Undefined : k <= m
  BY <1>0, LeastElement
<1> USE DEF Undefined
<1>2. k # 0
  <2> DEFINE f == [i \in 1..0 |-> first]
  <2>1. Rounds(f, 0)
    OBVIOUS
  <2>2. QED
    BY <2>1, <1>1
<1>3. k \in Nat \ {0} /\ k - 1 \in 0..most /\ k - 1 \notin Undefined
  <2>1. k \in 0..most
    BY <1>1
  <2>2. k \in Nat \ {0} /\ k - 1 \in 0..most /\ ~(k <= k - 1)
    BY <1>2, <2>1
  <2> HIDE DEF Undefined
  <2>3. QED
    BY <1>1, <2>2
<1>4. PICK g : Rounds(g, k - 1)
  BY <1>3
<1> DEFINE New == IF k = 1 THEN first ELSE g[k - 1] + XtgBytes(shapes[k - 1])
           h == [i \in 1..k |-> IF i = k THEN New ELSE g[i]]
<1>5. \A i \in 1..(k - 1) : h[i] = g[i]
  BY <1>3
<1>6. \A i \in 1..k : h[i] = IF i = 1 THEN first ELSE h[i - 1] + XtgBytes(shapes[i - 1])
  <2> SUFFICES ASSUME NEW i \in 1..k
               PROVE  h[i] = IF i = 1 THEN first ELSE h[i - 1] + XtgBytes(shapes[i - 1])
    OBVIOUS
  <2>1. CASE i = k
    <3>1. h[k] = New
      BY <1>3
    <3>2. k # 1 => h[k - 1] = g[k - 1]
      BY <1>3, <1>5
    <3> HIDE DEF h
    <3>3. QED
      BY <2>1, <3>1, <3>2
  <2>2. CASE i # k
    <3>1. i \in 1..(k - 1) /\ h[i] = g[i]
      BY <2>2, <1>3, <1>5
    <3>2. i # 1 => i - 1 \in 1..(k - 1) /\ h[i - 1] = g[i - 1]
      BY <3>1, <1>3, <1>5
    <3>3. g[i] = IF i = 1 THEN first ELSE g[i - 1] + XtgBytes(shapes[i - 1])
      BY <1>4, <3>1
    <3> HIDE DEF h
    <3>4. QED
      BY <3>1, <3>2, <3>3
  <2>3. QED
    BY <2>1, <2>2
<1>7. Rounds(h, k)
  BY <1>6
<1>8. QED
  BY <1>7, <1>1

LEMMA LaidIsSpaced ==
  ASSUME NEW shapes \in Seq(Shapes), NEW first \in Nat \ {0}, NEW f, Laid(f, shapes, first, Len(shapes))
  PROVE  Spaced(shapes, f)
<1> DEFINE n == Len(shapes)
           Size(p) == XtgBytes(shapes[p])
           Placed(q) == f[q] \in Nat \ {0} /\ \A p \in 1..n : p < q => f[p] + Size(p) <= f[q]
           Bad == {q \in 1..n : ~Placed(q)}
<1>1. n \in Nat /\ \A p \in 1..n : Size(p) \in Nat
  BY ShapeFacts, LenProperties, ElementOfSeq
<1>2. DOMAIN f = 1..n /\ \A q \in 1..n : f[q] = IF q = 1 THEN first ELSE f[q - 1] + Size(q - 1)
  BY DEF Laid
<1> HIDE DEF n, Size
<1>3. Bad = {}
  <2> SUFFICES ASSUME Bad # {} PROVE FALSE
    OBVIOUS
  <2>0. Bad \in SUBSET Nat
    BY <1>1
  <2> HIDE DEF Bad
  <2>1. PICK q \in Bad : \A m \in Bad : q <= m
    BY <2>0, LeastElement
  <2> USE DEF Bad
  <2>2. q \in 1..n /\ ~Placed(q)
    BY <2>1
  <2>3. q # 1
    <3>1. SUFFICES ASSUME q = 1 PROVE FALSE
      OBVIOUS
    <3>2. f[1] = first
      BY <1>2, <2>2, <3>1
    <3>3. QED
      BY <1>1, <2>2, <3>1, <3>2
  <2>4. q - 1 \in 1..n /\ q - 1 < q
    BY <1>1, <2>2, <2>3
  <2>5. Placed(q - 1)
    BY <2>1, <2>4
  <2>6. f[q] = f[q - 1] + Size(q - 1) /\ Size(q - 1) \in Nat /\ f[q - 1] \in Nat \ {0}
    BY <1>1, <1>2, <2>2, <2>3, <2>4, <2>5
  <2>7. f[q] \in Nat \ {0} /\ f[q - 1] <= f[q]
    BY <2>6
  <2>8. ASSUME NEW p \in 1..n, p < q PROVE f[p] + Size(p) <= f[q]
    <3>1. CASE p = q - 1
      BY <2>6, <2>7, <3>1
    <3>2. CASE p # q - 1
      <4>1. p \in 1..n /\ p < q - 1 /\ q \in Int
        BY <1>1, <2>2, <2>8, <3>2
      <4>2. f[p] + Size(p) <= f[q - 1]
        BY <2>5, <4>1
      <4>3. ~(p \in Bad)
        BY <2>1, <2>2, <2>8, <1>1
      <4>4. f[p] \in Nat /\ Size(p) \in Nat
        BY <1>1, <4>3
      <4> DEFINE a == f[p]
                 b == f[q - 1]
                 z == Size(p)
      <4>5. a \in Nat /\ b \in Nat /\ z \in Nat /\ f[q] \in Nat /\ a + z <= b /\ b <= f[q]
        BY <2>6, <2>7, <4>2, <4>4
      <4> HIDE DEF a, b, z
      <4>6. a + z <= f[q]
        BY <4>5
      <4>7. QED
        BY <4>6 DEF a, z
    <3>3. QED
      BY <3>1, <3>2
  <2>9. QED
    BY <2>2, <2>7, <2>8
<1>4. QED
  BY <1>2, <1>3 DEF Spaced, n, Size
LEMMA EncodeXtcIsWellWritten ==
  ASSUME NEW shapes \in Documents
  PROVE  WellWritten(EncodeXtc(shapes))
<1> DEFINE index == HeaderBytes + MetadataBytes
           first == index + Len(shapes) * EntryBytes
           offset == CHOOSE f : f = [p \in DOMAIN shapes |->
                       IF p = 1 THEN index + Len(shapes) * EntryBytes ELSE f[p - 1] + XtgBytes(shapes[p - 1])]
<1>1. shapes \in Seq(Shapes) /\ shapes # <<>>
  BY DEF Shapes
<1>2. Len(shapes) \in Nat /\ DOMAIN shapes = 1..Len(shapes)
  BY <1>1, LenProperties
<1>3. index \in Nat \ {0} /\ first \in Nat \ {0}
  <2>1. Len(shapes) * EntryBytes \in Nat /\ HeaderBytes \in Nat \ {0} /\ MetadataBytes \in Nat
    BY <1>2, ProductGrows
  <2>2. QED
    BY <2>1
<1>4. Laid(offset, shapes, first, Len(shapes))
  <2> DEFINE Rounds(f) == Laid(f, shapes, first, Len(shapes))
  <2>1. offset = CHOOSE f : Rounds(f)
    BY <1>2, Zenon DEF Laid
  <2>2. \E f : Rounds(f)
    BY <1>2, OffsetsDefined
  <2> HIDE DEF Rounds, offset
  <2>3. Rounds(CHOOSE f : Rounds(f))
    BY <2>2
  <2>4. QED
    BY <2>1, <2>3 DEF Rounds
<1>5. EncodeXtc(shapes) = Container(shapes, index, offset)
  BY DEF EncodeXtc
<1> HIDE DEF offset, first, index
<1>6. Spaced(shapes, offset)
  BY <1>1, <1>3, <1>4, LaidIsSpaced
<1>7. QED
  BY <1>1, <1>3, <1>5, <1>6, ContainerIsWellWritten

LEMMA EncodeSinglePageIsWellWritten ==
  ASSUME NEW shapes \in Documents
  PROVE  WellWritten(EncodeSinglePage(shapes[1]))
<1> DEFINE index == HeaderBytes + MetadataBytes
           shape == shapes[1]
           one == <<shape>>
           offsets == <<index + EntryBytes>>
<1>1. shapes \in Seq(Shapes) /\ shapes # <<>>
  BY DEF Shapes
<1>2. shape \in Shapes
  BY <1>1, LenProperties, ElementOfSeq, EmptySeq
<1>3. index \in Nat \ {0} /\ index + EntryBytes \in Nat \ {0}
  OBVIOUS
<1> HIDE DEF shape
<1>4. one \in Seq(Shapes) /\ one # <<>> /\ Len(one) = 1
  BY <1>2
<1>5. Spaced(one, offsets)
  BY <1>3, <1>4 DEF Spaced
<1>6. EncodeSinglePage(shape) = Container(one, index, offsets)
  BY DEF EncodeSinglePage
<1> HIDE DEF one, offsets, index
<1>7. WellWritten(EncodeSinglePage(shape))
  BY <1>3, <1>4, <1>5, <1>6, ContainerIsWellWritten
<1>8. QED
  BY <1>7 DEF shape

-----------------------------------------------------------------------------
(* The reader                                                                *)

\* A page that getPageInfo finds.
Open(page) == page \in 1..file.header.pageCount /\ Refuses(page) = "no"

LEMMA OnlyPagesOpen ==
  ASSUME WellWritten(file), NEW page \in 1..(file.header.pageCount + 1), Refuses(page) = "no"
  PROVE  Open(page)
<1>1. CanRead(0, HeaderBytes) /\ OffsetOf(page) # 0
  BY DEF Refuses
<1>2. page <= file.header.pageCount
  BY <1>1 DEF OffsetOf
<1>3. QED
  BY <1>2 DEF Open, WellWritten

LEMMA OpenFacts ==
  ASSUME WellWritten(file), NEW page, Open(page)
  PROVE  /\ ShapeOf(page) \in Shapes /\ OffsetOf(page) \in Nat /\ DataOffset(page) \in Nat
         /\ \A y \in 0..(ShapeOf(page).height - 1), x \in 0..(RowBytes(ShapeOf(page).width) - 1) :
              Content(DataOffset(page) + (y * RowBytes(ShapeOf(page).width) + x)) = <<page, y, x>>
<1>1. page \in 1..file.header.pageCount /\ OffsetOf(page) # 0
  BY DEF Open, Refuses
<1>2. OffsetOf(page) = PageOffset(file, page)
  BY <1>1 DEF OffsetOf, PageOffset, EntryOf
<1>3. ShapeOf(page) = PageShape(file, page)
  BY <1>2 DEF ShapeOf, PageShape
<1>4. /\ PageOffset(file, page) \in Nat \ {0} /\ PageShape(file, page) \in Shapes
      /\ \A y \in 0..(PageShape(file, page).height - 1), x \in 0..(RowBytes(PageShape(file, page).width) - 1) :
           /\ Place(PageShape(file, page), PageOffset(file, page), y, x) \in DOMAIN file.bytes
           /\ file.bytes[Place(PageShape(file, page), PageOffset(file, page), y, x)] = <<page, y, x>>
  BY <1>1 DEF WellWritten
<1>5. DataOffset(page) = OffsetOf(page) + PageHeaderBytes /\ DataOffset(page) \in Nat
  BY <1>2, <1>4 DEF DataOffset
<1>6. ASSUME NEW y \in 0..(ShapeOf(page).height - 1), NEW x \in 0..(RowBytes(ShapeOf(page).width) - 1)
      PROVE  Content(DataOffset(page) + (y * RowBytes(ShapeOf(page).width) + x)) = <<page, y, x>>
  <2>1. DataOffset(page) + (y * RowBytes(ShapeOf(page).width) + x) = Place(ShapeOf(page), OffsetOf(page), y, x)
    BY <1>5 DEF Place
  <2>2. /\ Place(ShapeOf(page), OffsetOf(page), y, x) \in DOMAIN file.bytes
        /\ file.bytes[Place(ShapeOf(page), OffsetOf(page), y, x)] = <<page, y, x>>
    BY <1>2, <1>3, <1>4, <1>6
  <2>3. QED
    BY <2>1, <2>2 DEF Content
<1>7. QED
  BY <1>2, <1>3, <1>4, <1>5, <1>6

\* The preview of a page holds its bytes, row after row.
LEMMA PreviewIs ==
  ASSUME WellWritten(file), NEW page, Open(page)
  PROVE  LET s == ShapeOf(page) IN
         /\ CanRead(DataOffset(page), PageBytes(s)) =>
              Preview(page) = [k \in 0..(PageBytes(s) - 1) |-> Content(DataOffset(page) + k)]
         /\ Preview(page) # <<>> =>
              \A y \in 0..(s.height - 1), x \in 0..(RowBytes(s.width) - 1) : <<page, y, x>> \in Range(Preview(page))
<1> DEFINE s == ShapeOf(page)
           row == RowBytes(s.width)
           whole == [k \in 0..(PageBytes(s) - 1) |-> Content(DataOffset(page) + k)]
<1>1. /\ s \in Shapes
      /\ \A y \in 0..(s.height - 1), x \in 0..(row - 1) : Content(DataOffset(page) + (y * row + x)) = <<page, y, x>>
  BY OpenFacts
<1>2. row \in Nat /\ s.height \in Nat /\ PageBytes(s) = row * s.height
  BY <1>1, ShapeFacts
<1>3. Preview(page) = IF ~CanRead(DataOffset(page), PageBytes(s)) THEN <<>> ELSE whole
  BY DEF Preview, Open
<1> HIDE DEF s, row
<1>4. ASSUME Preview(page) # <<>>, NEW y \in 0..(s.height - 1), NEW x \in 0..(row - 1)
      PROVE  <<page, y, x>> \in Range(Preview(page))
  <2> DEFINE i == y * row + x
  <2>1. i \in 0..(PageBytes(s) - 1)
    BY <1>2, RowsWithin
  <2>2. Content(DataOffset(page) + i) = <<page, y, x>>
    BY <1>1
  <2> HIDE DEF i
  <2>3. Preview(page) = whole
    BY <1>3, <1>4
  <2>4. i \in DOMAIN Preview(page) /\ Preview(page)[i] = <<page, y, x>>
    BY <2>1, <2>2, <2>3
  <2>5. QED
    BY <2>4 DEF Range
<1>5. QED
  BY <1>3, <1>4 DEF s, row

LEMMA PanelFacts ==
  /\ PanelRow \in Nat \ {0} /\ PanelHeight \in Nat \ {0}
  /\ PanelBytes \in Nat \ {0} /\ PanelBytes = PanelRow * PanelHeight
<1>1. PanelWidth \in Nat \ {0} /\ PanelHeight \in Nat \ {0}
  OBVIOUS
<1>2. PanelRow \in Nat \ {0}
  BY <1>1 DEF PanelRow, RowBytes
<1>3. 1 * PanelRow <= PanelHeight * PanelRow /\ PanelHeight * PanelRow \in Nat /\ 1 * PanelRow = PanelRow
  BY <1>1, <1>2, ProductGrows
<1>4. QED
  BY <1>1, <1>2, <1>3 DEF PanelBytes

\* How far down and to the right a page lies: to the middle, by whole bytes.
Down(s) == Toward0(PanelHeight - s.height, 2)
Right(s) == Toward0(Toward0(PanelWidth - s.width, 2), 8)
Farthest(s) == PanelHeight + PanelRow + s.height + RowBytes(s.width)

LEMMA Shifts ==
  ASSUME NEW s \in Shapes
  PROVE  Farthest(s) \in Nat /\ Down(s) \in -Farthest(s)..Farthest(s) /\ Right(s) \in -Farthest(s)..Farthest(s)
<1> DEFINE h == s.height
           w == s.width
           panelRow == PanelRow
           row == RowBytes(w)
<1>1. h \in Nat /\ w \in Nat /\ row \in Nat /\ panelRow \in Nat /\ PanelWidth \in Nat /\ PanelHeight \in Nat
  BY ShapeFacts, PanelFacts
<1>2. w <= 8 * row /\ PanelWidth <= 8 * panelRow
  BY <1>1 DEF PanelRow, RowBytes
<1>3. Farthest(s) = PanelHeight + panelRow + h + row
  BY DEF Farthest
<1>4. Down(s) = Toward0(PanelHeight - h, 2) /\ Right(s) = Toward0(Toward0(PanelWidth - w, 2), 8)
  BY DEF Down, Right
<1> HIDE DEF h, w, panelRow, row
<1>5. \A a \in Int : Toward0(a, 2) \in Int /\ (a >= 0 => Toward0(a, 2) \in 0..a) /\ (a < 0 => -Toward0(a, 2) \in 0..(-a))
  BY DEF Toward0
<1>6. \A a \in Int, b \in Nat : a <= 8 * b /\ -a <= 8 * b => Toward0(a, 8) \in Int /\ Toward0(a, 8) <= b /\ -Toward0(a, 8) <= b
  BY DEF Toward0
<1>7. Down(s) \in -Farthest(s)..Farthest(s)
  <2>1. PanelHeight - h \in Int
    BY <1>1
  <2>2. /\ Down(s) \in Int /\ (PanelHeight - h >= 0 => Down(s) \in 0..(PanelHeight - h))
        /\ (PanelHeight - h < 0 => -Down(s) \in 0..(-(PanelHeight - h)))
    BY <1>4, <1>5, <2>1
  <2>3. QED
    BY <1>1, <1>3, <2>2
<1>8. Right(s) \in -Farthest(s)..Farthest(s)
  <2> DEFINE half == Toward0(PanelWidth - w, 2)
  <2>1. PanelWidth - w \in Int
    BY <1>1
  <2>2. /\ half \in Int /\ (PanelWidth - w >= 0 => half \in 0..(PanelWidth - w))
        /\ (PanelWidth - w < 0 => -half \in 0..(-(PanelWidth - w)))
    BY <1>5, <2>1
  <2>3. Right(s) = Toward0(half, 8)
    BY <1>4
  <2> HIDE DEF half
  <2>4. half <= 8 * (panelRow + row) /\ -half <= 8 * (panelRow + row) /\ panelRow + row \in Nat
    BY <1>1, <1>2, <2>2
  <2>5. Right(s) \in Int /\ Right(s) <= panelRow + row /\ -Right(s) <= panelRow + row
    BY <1>6, <2>2, <2>3, <2>4
  <2>6. QED
    BY <1>1, <1>3, <2>5
<1>9. Farthest(s) \in Nat
  BY <1>1, <1>3
<1>10. QED
  BY <1>7, <1>8, <1>9

-----------------------------------------------------------------------------
(* The frame                                                                 *)

\* The frame holds this page, moved as one piece over white, and so does the
\* preview: what RenderedPageIsThePage says of a page reported rendered.
ShowsIn(shown, preview, s, page) ==
  LET At(y, x) == shown[y * PanelRow + x]
      Of(y, x) == IF y \in 0..(s.height - 1) /\ x \in 0..(RowBytes(s.width) - 1)
                  THEN <<page, y, x>> ELSE White
      farthest == PanelHeight + PanelRow + s.height + RowBytes(s.width)
      Reach == -farthest..farthest
  IN /\ \E dy \in Reach, dx \in Reach :
          \A y \in 0..(PanelHeight - 1), x \in 0..(PanelRow - 1) : At(y, x) = Of(y - dy, x - dx)
     /\ \A k \in DOMAIN shown : shown[k] # White /\ preview # <<>> => shown[k] \in Range(preview)
     /\ PanelSized(s) => (\A k \in DOMAIN shown : preview[k] = shown[k])
Shows(page) == ShowsIn(frame8, Preview(page), ShapeOf(page), page)

FrameFits == DOMAIN frame8 = 0..(PanelBytes - 1)

LEMMA RenderedIsShown == RenderedPageIsThePage <=> FrameFits /\ (result = "Ok" => Shows(work.page))
BY DEF RenderedPageIsThePage, FrameFits, Shows, ShowsIn

\* The byte at this row and column of a page of which so many rows are copied.
Piece(page, s, lines, y, x) ==
  IF y \in 0..(lines - 1) /\ x \in 0..(RowBytes(s.width) - 1) THEN <<page, y, x>> ELSE White

\* So many rows of the page lie in the frame, moved by dy and dx.
Lies(page, s, lines, dy, dx) ==
  \A y \in 0..(PanelHeight - 1), x \in 0..(PanelRow - 1) :
    frame8[y * PanelRow + x] = Piece(page, s, lines, y - dy, x - dx)

OnPage(byte, page, s) ==
  \E y \in 0..(s.height - 1), x \in 0..(RowBytes(s.width) - 1) : byte = <<page, y, x>>

LEMMA PieceIsOfThePage ==
  ASSUME NEW dy \in Int, NEW dx \in Int, NEW page, NEW s \in Shapes, Lies(page, s, s.height, dy, dx),
         NEW k \in 0..(PanelBytes - 1), frame8[k] # White
  PROVE  OnPage(frame8[k], page, s)
<1> DEFINE y == k \div PanelRow
           x == k % PanelRow
<1>1. /\ y \in 0..(PanelHeight - 1) /\ x \in 0..(PanelRow - 1) /\ k = y * PanelRow + x
  BY PanelFacts, RowOf
<1> HIDE DEF y, x
<1>2. frame8[k] = Piece(page, s, s.height, y - dy, x - dx)
  BY <1>1 DEF Lies
<1>3. QED
  BY <1>2 DEF Piece, OnPage

LEMMA RowsShow ==
  ASSUME WellWritten(file), FrameFits, NEW page, Open(page), ~PanelSized(ShapeOf(page)),
         Lies(page, ShapeOf(page), ShapeOf(page).height, Down(ShapeOf(page)), Right(ShapeOf(page)))
  PROVE  Shows(page)
<1> DEFINE s == ShapeOf(page)
           Reach == -Farthest(s)..Farthest(s)
<1>1. s \in Shapes
  BY OpenFacts
<1>2. Down(s) \in Reach /\ Right(s) \in Reach
  BY <1>1, Shifts
<1>3. Farthest(s) \in Int /\ Down(s) \in Int /\ Right(s) \in Int
  <2>1. Farthest(s) \in Int
    BY <1>1, Shifts
  <2>2. QED
    BY <1>2, <2>1
<1>4. \E dy \in Reach, dx \in Reach : Lies(page, s, s.height, dy, dx)
  <2> HIDE DEF Reach
  <2>1. QED
    BY <1>2
<1>5. ASSUME NEW k \in DOMAIN frame8, frame8[k] # White, Preview(page) # <<>>
      PROVE  frame8[k] \in Range(Preview(page))
  <2>1. k \in 0..(PanelBytes - 1)
    BY DEF FrameFits
  <2> DEFINE dy == Down(s)
             dx == Right(s)
  <2>4. dy \in Int /\ dx \in Int /\ Lies(page, s, s.height, dy, dx)
    BY <1>3
  <2>5. OnPage(frame8[k], page, s)
    <3> HIDE DEF s, dy, dx
    <3>1. QED
      BY <1>1, <1>5, <2>1, <2>4, PieceIsOfThePage
  <2>2. PICK y \in 0..(s.height - 1), x \in 0..(RowBytes(s.width) - 1) : frame8[k] = <<page, y, x>>
    BY <2>5 DEF OnPage
  <2>3. QED
    BY <1>5, <2>2, PreviewIs
<1>6. QED
  BY <1>4, <1>5 DEF Shows, ShowsIn, Farthest, Piece, Lies

LEMMA BulkShows ==
  ASSUME WellWritten(file), FrameFits, NEW page, Open(page), PanelSized(ShapeOf(page)),
         CanRead(DataOffset(page), PanelBytes),
         \A k \in 0..(PanelBytes - 1) : frame8[k] = <<page, k \div PanelRow, k % PanelRow>>
  PROVE  Shows(page)
<1> DEFINE s == ShapeOf(page)
           Reach == -Farthest(s)..Farthest(s)
<1>1. s \in Shapes /\ DataOffset(page) \in Nat
  BY OpenFacts
<1>2. s.height = PanelHeight /\ RowBytes(s.width) = PanelRow /\ PageBytes(s) = PanelBytes
  BY DEF PanelSized, PanelRow, PageBytes, PanelBytes
<1>3. 0 \in Reach
  <2>1. Farthest(s) \in Nat
    BY <1>1, Shifts
  <2>2. QED
    BY <2>1
<1>4. ASSUME NEW y \in 0..(PanelHeight - 1), NEW x \in 0..(PanelRow - 1)
      PROVE  frame8[y * PanelRow + x] = Piece(page, s, s.height, y - 0, x - 0)
  <2>1. y * PanelRow + x \in 0..(PanelBytes - 1)
    BY PanelFacts, RowsWithin
  <2>2. (y * PanelRow + x) \div PanelRow = y /\ (y * PanelRow + x) % PanelRow = x
    <3>1. PanelRow \in Nat \ {0} /\ y \in Nat
      BY PanelFacts
    <3>2. QED
      BY <3>1, PlaceOf
  <2>3. frame8[y * PanelRow + x] = <<page, y, x>>
    BY <2>1, <2>2
  <2>4. y - 0 = y /\ x - 0 = x
    BY PanelFacts
  <2>5. QED
    BY <1>2, <2>3, <2>4 DEF Piece
<1>5. \E dy \in Reach, dx \in Reach : Lies(page, s, s.height, dy, dx)
  <2>1. Lies(page, s, s.height, 0, 0)
    BY <1>4 DEF Lies
  <2> HIDE DEF Reach
  <2>2. QED
    BY <1>3, <2>1
<1>6. ASSUME NEW k \in DOMAIN frame8
      PROVE  Preview(page)[k] = frame8[k] /\ (Preview(page) # <<>> => frame8[k] \in Range(Preview(page)))
  <2>1. k \in 0..(PanelBytes - 1)
    BY DEF FrameFits
  <2> DEFINE y == k \div PanelRow
             x == k % PanelRow
  <2>2. y \in 0..(PanelHeight - 1) /\ x \in 0..(PanelRow - 1) /\ k = y * PanelRow + x
    BY <2>1, PanelFacts, RowOf
  <2>3. frame8[k] = <<page, y, x>>
    BY <2>1
  <2> HIDE DEF y, x
  <2>4. Content(DataOffset(page) + (y * PanelRow + x)) = <<page, y, x>>
    BY <1>2, <2>2, OpenFacts
  <2>5. Preview(page) = [i \in 0..(PanelBytes - 1) |-> Content(DataOffset(page) + i)]
    BY <1>2, PreviewIs
  <2>6. k \in DOMAIN Preview(page) /\ Preview(page)[k] = <<page, y, x>>
    BY <2>1, <2>2, <2>4, <2>5
  <2>7. QED
    BY <2>3, <2>6 DEF Range
<1>7. QED
  BY <1>5, <1>6 DEF Shows, ShowsIn, Farthest, Piece, Lies

-----------------------------------------------------------------------------
(* The invariant: how far the copy under way has come                        *)

PageTypeOK ==
  /\ WellWritten(file) /\ stored \in Int /\ FrameFits
  /\ work \in [page : Nat, kind : {"none", "bulk", "rows"}, done : Nat]

BulkCopied ==
  work.kind = "bulk" =>
    /\ Open(work.page) /\ PanelSized(ShapeOf(work.page)) /\ result = "none"
    /\ work.done \in 0..PanelBytes /\ (work.done > 0 => CanRead(DataOffset(work.page), work.done))
    /\ \A k \in 0..(work.done - 1) : frame8[k] = <<work.page, k \div PanelRow, k % PanelRow>>

RowsCopied ==
  work.kind = "rows" =>
    /\ Open(work.page) /\ ~PanelSized(ShapeOf(work.page)) /\ result = "none"
    /\ work.done \in 0..ShapeOf(work.page).height
    /\ Lies(work.page, ShapeOf(work.page), work.done, Down(ShapeOf(work.page)), Right(ShapeOf(work.page)))

PageInv == PageTypeOK /\ BulkCopied /\ RowsCopied /\ RenderedPageIsThePage

LEMMA InvInit == PageInit => PageInv
<1> SUFFICES ASSUME PageInit PROVE PageInv
  OBVIOUS
<1>1. WellWritten(file)
  BY EncodeXtcIsWellWritten, EncodeSinglePageIsWellWritten DEF PageInit
<1>2. stored \in Int
  <2>1. file.length \in Int
    BY <1>1 DEF WellWritten
  <2>2. PICK cut \in Cuts : stored = IF cut > file.length THEN 0 ELSE file.length - cut
    BY DEF PageInit
  <2>3. cut \in Nat
    OBVIOUS
  <2>4. QED
    BY <2>1, <2>2, <2>3
<1>3. FrameFits
  BY DEF PageInit, FrameFits
<1>4. work = [page |-> 0, kind |-> "none", done |-> 0] /\ result = "none"
  BY DEF PageInit
<1>5. RenderedPageIsThePage
  BY <1>3, <1>4, RenderedIsShown
<1>6. QED
  BY <1>1, <1>2, <1>3, <1>4, <1>5 DEF PageInv, PageTypeOK, BulkCopied, RowsCopied

LEMMA SameFile ==
  ASSUME file' = file, stored' = stored, NEW p
  PROVE  /\ Open(p)' = Open(p) /\ ShapeOf(p)' = ShapeOf(p) /\ DataOffset(p)' = DataOffset(p)
         /\ Preview(p)' = Preview(p)
         /\ \A n : CanRead(DataOffset(p), n)' = CanRead(DataOffset(p), n)
<1>1. OffsetOf(p)' = OffsetOf(p)
  BY DEF OffsetOf, CanRead
<1>2. ShapeOf(p)' = ShapeOf(p) /\ DataOffset(p)' = DataOffset(p)
  BY <1>1 DEF ShapeOf, DataOffset
<1>3. Refuses(p)' = Refuses(p)
  BY <1>1 DEF Refuses, CanRead
<1>4. \A n : CanRead(DataOffset(p), n)' = CanRead(DataOffset(p), n)
  BY <1>2 DEF CanRead
<1>5. \A k : Content(k)' = Content(k)
  BY DEF Content
<1>6. Preview(p)' = Preview(p)
  <2>1. CanRead(DataOffset(p), PageBytes(ShapeOf(p)))' = CanRead(DataOffset(p), PageBytes(ShapeOf(p)))
    BY <1>2 DEF CanRead, PageBytes, RowBytes
  <2>2. PageBytes(ShapeOf(p))' = PageBytes(ShapeOf(p))
    BY <1>2 DEF PageBytes, RowBytes
  <2>3. [k \in 0..(PageBytes(ShapeOf(p)) - 1) |-> Content(DataOffset(p) + k)]'
          = [k \in 0..(PageBytes(ShapeOf(p)) - 1) |-> Content(DataOffset(p) + k)]
    BY <1>2, <2>2 DEF Content
  <2>4. QED
    BY <1>3, <2>1, <2>3 DEF Preview
<1>7. QED
  BY <1>2, <1>3, <1>4, <1>6 DEF Open

\* A copy that ends without a page, or that only begins, shows nothing yet.
LEMMA NothingShown ==
  ASSUME FrameFits', result' # "Ok"
  PROVE  RenderedPageIsThePage'
<1>1. FrameFits' = (DOMAIN frame8' = 0..(PanelBytes - 1))
  BY DEF FrameFits, PanelBytes, PanelRow, RowBytes
<1>2. QED
  BY DEF RenderedPageIsThePage, FrameFits

LEMMA ShownStays ==
  ASSUME FrameFits, file' = file, stored' = stored, frame8' = frame8, work'.page = work.page, Shows(work.page)
  PROVE  RenderedPageIsThePage'
<1>1. OffsetOf(work.page)' = OffsetOf(work.page)
  BY DEF OffsetOf, CanRead
<1>2. ShapeOf(work.page)' = ShapeOf(work.page) /\ DataOffset(work.page)' = DataOffset(work.page)
  BY <1>1 DEF ShapeOf, DataOffset
<1>3. Refuses(work.page)' = Refuses(work.page)
  BY <1>1 DEF Refuses, CanRead
<1>4. Preview(work.page)' = Preview(work.page)
  <2>1. CanRead(DataOffset(work.page), PageBytes(ShapeOf(work.page)))'
          = CanRead(DataOffset(work.page), PageBytes(ShapeOf(work.page)))
    BY <1>2 DEF CanRead, PageBytes, RowBytes
  <2>2. PageBytes(ShapeOf(work.page))' = PageBytes(ShapeOf(work.page))
    BY <1>2 DEF PageBytes, RowBytes
  <2>3. [k \in 0..(PageBytes(ShapeOf(work.page)) - 1) |-> Content(DataOffset(work.page) + k)]'
          = [k \in 0..(PageBytes(ShapeOf(work.page)) - 1) |-> Content(DataOffset(work.page) + k)]
    BY <1>2, <2>2 DEF Content
  <2>4. QED
    BY <1>3, <2>1, <2>3 DEF Preview
<1>5. ShowsIn(frame8', Preview(work.page)', ShapeOf(work.page)', work'.page)
  BY <1>2, <1>4 DEF Shows
<1>6. DOMAIN frame8' = 0..(PanelBytes - 1)
  BY DEF FrameFits
<1>7. QED
  BY <1>5, <1>6 DEF RenderedPageIsThePage, ShowsIn, PanelSized, PanelBytes, PanelRow, PageBytes, RowBytes, White

-----------------------------------------------------------------------------
(* One step                                                                  *)

LEMMA TypeStays ==
  ASSUME PageTypeOK, file' = file, stored' = stored, FrameFits',
         work' \in [page : Nat, kind : {"none", "bulk", "rows"}, done : Nat]
  PROVE  PageTypeOK'
BY DEF PageTypeOK

\* A step that ends a copy, or begins none, leaves the invariant to its frame.
LEMMA Idle ==
  ASSUME PageTypeOK, file' = file, stored' = stored, FrameFits', RenderedPageIsThePage',
         work' \in [page : Nat, kind : {"none"}, done : Nat]
  PROVE  PageInv'
<1>1. work'.kind = "none" /\ work' \in [page : Nat, kind : {"none", "bulk", "rows"}, done : Nat]
  OBVIOUS
<1>2. PageTypeOK'
  BY <1>1, TypeStays
<1>3. BulkCopied' /\ RowsCopied'
  BY <1>1 DEF BulkCopied, RowsCopied
<1>4. QED
  BY <1>2, <1>3 DEF PageInv

\* The page under way, before the step and after.
LEMMA SamePage ==
  ASSUME file' = file, stored' = stored, NEW p, work'.page = p
  PROVE  /\ Open(work.page)' = Open(p) /\ ShapeOf(work.page)' = ShapeOf(p)
         /\ DataOffset(work.page)' = DataOffset(p)
<1>1. OffsetOf(work.page)' = OffsetOf(p)
  BY DEF OffsetOf, CanRead
<1>2. ShapeOf(work.page)' = ShapeOf(p) /\ DataOffset(work.page)' = DataOffset(p)
  BY <1>1 DEF ShapeOf, DataOffset
<1>3. Refuses(work.page)' = Refuses(p)
  BY <1>1 DEF Refuses, CanRead
<1>4. QED
  BY <1>2, <1>3 DEF Open

LEMMA BulkGoesOn ==
  ASSUME PageTypeOK, file' = file, stored' = stored, FrameFits',
         NEW p \in Nat, Open(p), PanelSized(ShapeOf(p)), NEW d \in 0..PanelBytes,
         d > 0 => CanRead(DataOffset(p), d), \A k \in 0..(d - 1) : frame8'[k] = <<p, k \div PanelRow, k % PanelRow>>,
         result' = "none", work' = [page |-> p, kind |-> "bulk", done |-> d]
  PROVE  PageInv'
<1>1. work'.page = p /\ work'.kind = "bulk" /\ work'.done = d /\ d \in Nat
  BY PanelFacts
<1>2. PageTypeOK'
  BY <1>1, TypeStays
<1>3. RenderedPageIsThePage'
  BY NothingShown
<1>4. /\ Open(work.page)' = Open(p) /\ ShapeOf(work.page)' = ShapeOf(p)
      /\ DataOffset(work.page)' = DataOffset(p)
  BY <1>1, SamePage
<1>5. CanRead(DataOffset(work.page), work.done)' = CanRead(DataOffset(p), d)
  BY <1>1, <1>4 DEF CanRead
<1>6. Open(work.page)' /\ PanelSized(ShapeOf(work.page))'
  BY <1>4 DEF PanelSized
<1>7. /\ work'.done \in 0..PanelBytes /\ (work'.done > 0 => CanRead(DataOffset(work.page), work.done)')
      /\ \A k \in 0..(work'.done - 1) : frame8'[k] = <<work'.page, k \div PanelRow, k % PanelRow>>
  BY <1>1, <1>5
<1>8. BulkCopied'
  BY <1>6, <1>7 DEF BulkCopied
<1>9. RowsCopied'
  BY <1>1 DEF RowsCopied
<1>10. QED
  BY <1>2, <1>3, <1>8, <1>9 DEF PageInv

LEMMA RowsGoOn ==
  ASSUME PageTypeOK, file' = file, stored' = stored, FrameFits',
         NEW p \in Nat, Open(p), ~PanelSized(ShapeOf(p)), NEW d \in 0..ShapeOf(p).height,
         \A y \in 0..(PanelHeight - 1), x \in 0..(PanelRow - 1) :
           frame8'[y * PanelRow + x] = Piece(p, ShapeOf(p), d, y - Down(ShapeOf(p)), x - Right(ShapeOf(p))),
         result' = "none", work' = [page |-> p, kind |-> "rows", done |-> d]
  PROVE  PageInv'
<1>0. ShapeOf(p) \in Shapes
  BY OpenFacts DEF PageTypeOK
<1>1. work'.page = p /\ work'.kind = "rows" /\ work'.done = d /\ d \in Nat
  BY <1>0, ShapeFacts
<1>2. PageTypeOK'
  BY <1>1, TypeStays
<1>3. RenderedPageIsThePage'
  BY NothingShown
<1>4. Open(work.page)' = Open(p) /\ ShapeOf(work.page)' = ShapeOf(p)
  BY <1>1, SamePage
<1>5. Open(work.page)' /\ ~PanelSized(ShapeOf(work.page))'
  BY <1>4 DEF PanelSized
<1>6. work'.done \in 0..ShapeOf(work.page)'.height
  BY <1>1, <1>4
<1>7. Lies(work.page, ShapeOf(work.page), work.done, Down(ShapeOf(work.page)), Right(ShapeOf(work.page)))'
  <2> DEFINE s == ShapeOf(p)
             dy == Down(s)
             dx == Right(s)
  <2>1. \A y \in 0..(PanelHeight - 1), x \in 0..(PanelRow - 1) :
          frame8'[y * PanelRow + x] = Piece(p, s, d, y - dy, x - dx)
    OBVIOUS
  <2>2. Down(ShapeOf(work.page))' = dy /\ Right(ShapeOf(work.page))' = dx /\ ShapeOf(work.page)' = s
    BY <1>4 DEF Down, Right, Toward0
  <2> HIDE DEF s, dy, dx
  <2>3. QED
    BY <1>1, <2>1, <2>2 DEF Lies, PanelRow, RowBytes
<1>8. RowsCopied'
  BY <1>5, <1>6, <1>7 DEF RowsCopied
<1>9. BulkCopied'
  BY <1>1 DEF BulkCopied
<1>10. QED
  BY <1>2, <1>3, <1>8, <1>9 DEF PageInv

LEMMA WrittenFacts ==
  ASSUME NEW old, NEW writes
  PROVE  /\ DOMAIN Written(old, writes) = DOMAIN old \union DOMAIN writes
         /\ \A k \in DOMAIN old \union DOMAIN writes :
              Written(old, writes)[k] = IF k \in DOMAIN writes THEN writes[k] ELSE old[k]
BY DEF Written

LEMMA InvBegin ==
  ASSUME PageInv, BeginPage
  PROVE  PageInv'
<1>1. PICK page \in 1..(file.header.pageCount + 1) :
        IF Refuses(page) # "no" THEN result' = Refuses(page) /\ UNCHANGED <<frame8, work>>
        ELSE IF PanelSized(ShapeOf(page))
             THEN work' = [page |-> page, kind |-> "bulk", done |-> 0] /\ result' = "none" /\ UNCHANGED frame8
        ELSE IF RowBytes(ShapeOf(page).width) > MaxRow THEN result' = "UnsupportedFormat" /\ UNCHANGED <<frame8, work>>
        ELSE /\ work' = [page |-> page, kind |-> "rows", done |-> 0] /\ result' = "none"
             /\ frame8' = [k \in DOMAIN frame8 |-> White]
  BY DEF BeginPage
<1>2. /\ file' = file /\ stored' = stored /\ work.kind = "none" /\ WellWritten(file) /\ FrameFits
      /\ work \in [page : Nat, kind : {"none", "bulk", "rows"}, done : Nat] /\ PageTypeOK
  BY DEF BeginPage, PageInv, PageTypeOK
<1>3. page \in Nat
  BY <1>2 DEF WellWritten
<1>4. DOMAIN frame8' = DOMAIN frame8 => FrameFits'
  BY <1>2 DEF FrameFits
<1>5. ASSUME frame8' = frame8, work' = work, result' # "Ok" PROVE PageInv'
  <2>1. work' \in [page : Nat, kind : {"none"}, done : Nat]
    BY <1>2, <1>5
  <2>2. QED
    BY <1>2, <1>4, <1>5, <2>1, NothingShown, Idle
<1>6. CASE Refuses(page) # "no"
  <2>1. Refuses(page) # "Ok"
    BY DEF Refuses
  <2>2. QED
    BY <1>1, <1>5, <1>6, <2>1
<1>7. CASE Refuses(page) = "no" /\ PanelSized(ShapeOf(page))
  <2>1. work' = [page |-> page, kind |-> "bulk", done |-> 0] /\ result' = "none" /\ frame8' = frame8
    BY <1>1, <1>7
  <2>2. Open(page)
    BY <1>2, <1>7, OnlyPagesOpen
  <2>3. 0 \in 0..PanelBytes /\ ~(0 > 0) /\ 0..(0 - 1) = {}
    BY PanelFacts
  <2>4. QED
    BY <1>2, <1>3, <1>4, <1>7, <2>1, <2>2, <2>3, BulkGoesOn
<1>8. CASE Refuses(page) = "no" /\ ~PanelSized(ShapeOf(page)) /\ RowBytes(ShapeOf(page).width) > MaxRow
  BY <1>1, <1>5, <1>8
<1>9. CASE Refuses(page) = "no" /\ ~PanelSized(ShapeOf(page)) /\ ~(RowBytes(ShapeOf(page).width) > MaxRow)
  <2>1. work' = [page |-> page, kind |-> "rows", done |-> 0] /\ result' = "none"
        /\ frame8' = [k \in DOMAIN frame8 |-> White]
    BY <1>1, <1>9
  <2>2. Open(page)
    BY <1>2, <1>9, OnlyPagesOpen
  <2>3. 0 \in 0..ShapeOf(page).height
    BY <1>2, <2>2, OpenFacts, ShapeFacts
  <2>4. ASSUME NEW y \in 0..(PanelHeight - 1), NEW x \in 0..(PanelRow - 1)
        PROVE  frame8'[y * PanelRow + x] =
                 Piece(page, ShapeOf(page), 0, y - Down(ShapeOf(page)), x - Right(ShapeOf(page)))
    <3>1. y * PanelRow + x \in 0..(PanelBytes - 1)
      BY PanelFacts, RowsWithin
    <3>2. frame8'[y * PanelRow + x] = White
      BY <1>2, <2>1, <3>1 DEF FrameFits
    <3>3. QED
      BY <3>2 DEF Piece
  <2>5. FrameFits'
    BY <1>4, <2>1
  <2>6. QED
    BY <1>2, <1>3, <1>9, <2>1, <2>2, <2>3, <2>4, <2>5, RowsGoOn
<1>10. QED
  BY <1>6, <1>7, <1>8, <1>9

LEMMA CopiedDomain ==
  ASSUME NEW from, NEW to, NEW n
  PROVE  DOMAIN Copied(from, to, n) = DOMAIN frame8 \union to..(to + n - 1)
BY DEF Copied, Written

LEMMA CopiedByte ==
  ASSUME NEW from, NEW to, NEW n, NEW k \in DOMAIN frame8
  PROVE  /\ k \in to..(to + n - 1) => Copied(from, to, n)[k] = Content(from + k - to)
         /\ k \notin to..(to + n - 1) => Copied(from, to, n)[k] = frame8[k]
<1> DEFINE writes == [i \in to..(to + n - 1) |-> Content(from + i - to)]
<1>1. DOMAIN writes = to..(to + n - 1) /\ (k \in to..(to + n - 1) => writes[k] = Content(from + k - to))
  OBVIOUS
<1>2. Copied(from, to, n) = Written(frame8, writes)
  BY DEF Copied
<1> HIDE DEF writes
<1>3. Written(frame8, writes)[k] = IF k \in DOMAIN writes THEN writes[k] ELSE frame8[k]
  <2>1. k \in DOMAIN frame8 \union DOMAIN writes
    OBVIOUS
  <2>2. QED
    BY <2>1 DEF Written
<1>4. QED
  BY <1>1, <1>2, <1>3

LEMMA InvChunk ==
  ASSUME PageInv, CopyChunk
  PROVE  PageInv'
<1> DEFINE p == work.page
           done == work.done
           s == ShapeOf(p)
           remaining == PageBytes(s) - done
           n == ChunkBytes(remaining)
           from == DataOffset(p) + done
<1>1. /\ file' = file /\ stored' = stored /\ work.kind = "bulk" /\ WellWritten(file) /\ FrameFits /\ stored \in Int
      /\ work \in [page : Nat, kind : {"none", "bulk", "rows"}, done : Nat] /\ PageTypeOK
  BY DEF CopyChunk, PageInv, PageTypeOK
<1>2. IF remaining <= 0 THEN Ends("Ok") /\ UNCHANGED frame8
      ELSE IF ~CanRead(from, n) THEN Ends("IoError") /\ frame8' = Copied(from, done, stored - from)
      ELSE /\ frame8' = Copied(from, done, n)
           /\ work' = [work EXCEPT !.done = @ + n] /\ UNCHANGED result
  BY DEF CopyChunk
<1>3. /\ Open(p) /\ PanelSized(s) /\ result = "none" /\ done \in 0..PanelBytes
      /\ (done > 0 => CanRead(DataOffset(p), done))
      /\ \A k \in 0..(done - 1) : frame8[k] = <<p, k \div PanelRow, k % PanelRow>>
  BY <1>1 DEF PageInv, BulkCopied
<1>4. PageBytes(s) = PanelBytes /\ s.height = PanelHeight /\ RowBytes(s.width) = PanelRow
  BY <1>3 DEF PanelSized, PanelRow, PageBytes, PanelBytes
<1>5. DataOffset(p) \in Nat /\ PanelBytes \in Nat \ {0} /\ p \in Nat /\ done \in Nat
  BY <1>1, <1>3, OpenFacts, PanelFacts
<1>6. remaining = PanelBytes - done /\ remaining \in Int
  BY <1>4, <1>5
<1>7. ~(remaining <= 0) => n \in 1..remaining
  BY <1>6 DEF ChunkBytes
<1>8. \A with : Ends(with) => /\ result' = with /\ work' \in [page : Nat, kind : {"none"}, done : Nat]
                              /\ work'.page = work.page
  BY <1>1 DEF Ends
<1>9. \A m : DOMAIN Copied(from, done, m) = DOMAIN frame8 \union done..(done + m - 1)
  BY CopiedDomain
<1> HIDE DEF n, remaining, s, from, p, done
<1>10. CASE remaining <= 0
  <2>1. Ends("Ok") /\ frame8' = frame8
    BY <1>2, <1>10
  <2>2. done = PanelBytes
    BY <1>3, <1>5, <1>6, <1>10
  <2>3. Shows(p)
    BY <1>1, <1>3, <1>5, <2>2, BulkShows DEF s
  <2>4. FrameFits' /\ RenderedPageIsThePage'
    BY <1>1, <1>8, <2>1, <2>3, ShownStays DEF FrameFits, p
  <2>5. QED
    BY <1>1, <1>8, <2>1, <2>4, Idle
<1>11. CASE ~(remaining <= 0) /\ ~CanRead(from, n)
  <2>1. Ends("IoError") /\ frame8' = Copied(from, done, stored - from)
    BY <1>2, <1>11
  <2>2. from \in Nat /\ n \in 1..remaining
    BY <1>5, <1>7, <1>11 DEF from
  <2>3. stored - from < n
    BY <1>1, <1>11, <2>2, <1>6 DEF CanRead
  <2>4. done..(done + (stored - from) - 1) \subseteq 0..(PanelBytes - 1)
    BY <1>1, <1>5, <1>6, <2>2, <2>3
  <2>5. FrameFits'
    BY <1>1, <1>9, <2>1, <2>4 DEF FrameFits
  <2>6. QED
    BY <1>1, <1>8, <2>1, <2>5, NothingShown, Idle
<1>12. CASE ~(remaining <= 0) /\ CanRead(from, n)
  <2>1. frame8' = Copied(from, done, n) /\ work' = [work EXCEPT !.done = @ + n] /\ result' = "none"
    BY <1>2, <1>3, <1>12
  <2>2. n \in 1..remaining /\ done + n \in 0..PanelBytes
    BY <1>5, <1>6, <1>7, <1>12
  <2>3. FrameFits'
    <3>1. done..(done + n - 1) \subseteq 0..(PanelBytes - 1)
      BY <1>5, <2>2
    <3>2. QED
      BY <1>1, <1>9, <2>1, <3>1 DEF FrameFits
  <2>4. CanRead(DataOffset(p), done + n)
    BY <1>5, <1>6, <1>12, <2>2 DEF CanRead, from
  <2> DEFINE d == done + n
  <2>5. ASSUME NEW k \in 0..(d - 1)
        PROVE  frame8'[k] = <<p, k \div PanelRow, k % PanelRow>>
    <3>1. k \in 0..(PanelBytes - 1) /\ k \in DOMAIN frame8
      BY <1>1, <1>5, <2>2 DEF FrameFits
    <3>2. /\ k \in done..(done + n - 1) => frame8'[k] = Content(from + k - done)
          /\ k \notin done..(done + n - 1) => frame8'[k] = frame8[k]
      <4>1. /\ k \in done..(done + n - 1) => Copied(from, done, n)[k] = Content(from + k - done)
            /\ k \notin done..(done + n - 1) => Copied(from, done, n)[k] = frame8[k]
        BY <3>1, CopiedByte
      <4>2. frame8' = Copied(from, done, n)
        BY <2>1
      <4>3. QED
        BY <4>1, <4>2
    <3>3. CASE k < done
      BY <1>3, <1>5, <3>2, <3>3
    <3>4. CASE ~(k < done)
      <4> DEFINE y == k \div PanelRow
                 x == k % PanelRow
      <4>1. y \in 0..(PanelHeight - 1) /\ x \in 0..(PanelRow - 1) /\ k = y * PanelRow + x
        BY <3>1, PanelFacts, RowOf
      <4> HIDE DEF y, x
      <4>2. k \in done..(done + n - 1) /\ from + k - done = DataOffset(p) + k
        BY <1>5, <1>6, <2>2, <2>5, <3>4 DEF from
      <4>3. Content(DataOffset(p) + (y * PanelRow + x)) = <<p, y, x>>
        BY <1>1, <1>3, <1>4, <4>1, OpenFacts DEF s
      <4>4. QED
        BY <3>2, <4>1, <4>2, <4>3 DEF y, x
    <3>5. QED
      BY <3>3, <3>4
  <2>6. work' = [page |-> p, kind |-> "bulk", done |-> done + n]
    BY <1>1, <2>1 DEF p, done
  <2>7. QED
    <3>1. PanelSized(ShapeOf(p)) /\ Open(p) /\ p \in Nat
      BY <1>3, <1>5 DEF s
    <3>2. d \in 0..PanelBytes /\ CanRead(DataOffset(p), d) /\ work' = [page |-> p, kind |-> "bulk", done |-> d]
      BY <2>2, <2>4, <2>6
    <3> HIDE DEF d
    <3>3. QED
      BY <1>1, <2>1, <2>3, <2>5, <3>1, <3>2, BulkGoesOn
<1>13. QED
  BY <1>10, <1>11, <1>12

LEMMA PieceHere ==
  ASSUME NEW page, NEW s, NEW lines, NEW y \in 0..(lines - 1), NEW x \in 0..(RowBytes(s.width) - 1)
  PROVE  Piece(page, s, lines, y, x) = <<page, y, x>>
BY DEF Piece

\* One row more changes nothing elsewhere.
LEMMA PieceElsewhere ==
  ASSUME NEW page, NEW s, NEW few \in Nat, NEW y \in Int, NEW x, y # few \/ x \notin 0..(RowBytes(s.width) - 1)
  PROVE  Piece(page, s, few + 1, y, x) = Piece(page, s, few, y, x)
<1>1. CASE x \notin 0..(RowBytes(s.width) - 1)
  BY <1>1 DEF Piece
<1>2. CASE y # few
  <2> DEFINE more == few + 1
  <2>1. y \in 0..(more - 1) <=> y \in 0..(few - 1)
    BY <1>2
  <2> HIDE DEF more
  <2>2. CASE y \in 0..(few - 1) /\ x \in 0..(RowBytes(s.width) - 1)
    BY <2>1, <2>2, PieceHere
  <2>3. CASE ~(y \in 0..(few - 1) /\ x \in 0..(RowBytes(s.width) - 1))
    BY <2>1, <2>3 DEF Piece
  <2>4. QED
    BY <2>2, <2>3
<1>3. QED
  BY <1>1, <1>2

LEMMA InvRow ==
  ASSUME PageInv, CopyRow
  PROVE  PageInv'
<1> DEFINE p == work.page
           done == work.done
           s == ShapeOf(p)
           row == RowBytes(s.width)
           dy == Down(s)
           dx == Right(s)
           pos == dy + done
           from == DataOffset(p) + done * row
           columns == {c \in 0..(row - 1) : c + dx \in 0..(PanelRow - 1)}
           writes == [k \in {pos * PanelRow + c + dx : c \in columns} |-> Content(from + k - pos * PanelRow - dx)]
<1>1. /\ file' = file /\ stored' = stored /\ work.kind = "rows" /\ WellWritten(file) /\ FrameFits /\ stored \in Int
      /\ work \in [page : Nat, kind : {"none", "bulk", "rows"}, done : Nat] /\ PageTypeOK
  BY DEF CopyRow, PageInv, PageTypeOK
<1>2. IF done >= s.height THEN Ends("Ok") /\ UNCHANGED frame8
      ELSE IF pos \notin 0..(PanelHeight - 1) THEN work' = [work EXCEPT !.done = @ + 1] /\ UNCHANGED <<frame8, result>>
      ELSE IF ~CanRead(from, row) THEN Ends("IoError") /\ UNCHANGED frame8
      ELSE /\ frame8' = Written(frame8, writes)
           /\ work' = [work EXCEPT !.done = @ + 1] /\ UNCHANGED result
  BY DEF CopyRow, Down, Right
<1>3. /\ Open(p) /\ ~PanelSized(s) /\ result = "none" /\ done \in 0..s.height /\ Lies(p, s, done, dy, dx)
  BY <1>1 DEF PageInv, RowsCopied
<1>4. s \in Shapes /\ DataOffset(p) \in Nat /\ p \in Nat /\ done \in Nat
  BY <1>1, <1>3, OpenFacts
<1>5. s.height \in Nat /\ row \in Nat /\ dy \in Int /\ dx \in Int
  <2>1. s.height \in Nat /\ row \in Nat
    BY <1>4, ShapeFacts
  <2>2. Farthest(s) \in Nat /\ dy \in -Farthest(s)..Farthest(s) /\ dx \in -Farthest(s)..Farthest(s)
    BY <1>4, Shifts
  <2> HIDE DEF s, row, dy, dx
  <2>3. QED
    BY <2>1, <2>2
<1>6. \A with : Ends(with) => /\ result' = with /\ work' \in [page : Nat, kind : {"none"}, done : Nat]
                              /\ work'.page = work.page
  BY <1>1 DEF Ends
<1>7. work' = [work EXCEPT !.done = @ + 1] => work' = [page |-> p, kind |-> "rows", done |-> done + 1]
  BY <1>1
<1> HIDE DEF pos, from, columns, writes, row, dy, dx, s, p, done
\* What the next step does not write stays, and it writes this row only.
<1>8. ASSUME frame8' = frame8, FrameFits, result' # "Ok", work' \in [page : Nat, kind : {"none"}, done : Nat]
      PROVE  PageInv'
  <2>1. FrameFits'
    BY <1>8 DEF FrameFits
  <2>2. QED
    BY <1>1, <1>8, <2>1, NothingShown, Idle
<1>9. ASSUME done < s.height, FrameFits', result' = result, work' = [work EXCEPT !.done = @ + 1],
             \A y \in 0..(PanelHeight - 1), x \in 0..(PanelRow - 1) :
               frame8'[y * PanelRow + x] = Piece(p, s, done + 1, y - dy, x - dx)
      PROVE  PageInv'
  <2> DEFINE d == done + 1
  <2>1. d \in 0..s.height
    BY <1>4, <1>5, <1>9
  <2>2. work' = [page |-> p, kind |-> "rows", done |-> d] /\ result' = "none"
    BY <1>3, <1>7, <1>9
  <2>3. \A y \in 0..(PanelHeight - 1), x \in 0..(PanelRow - 1) :
          frame8'[y * PanelRow + x] = Piece(p, s, d, y - dy, x - dx)
    BY <1>9
  <2> HIDE DEF d
  <2>4. /\ ~PanelSized(ShapeOf(p)) /\ d \in 0..ShapeOf(p).height
        /\ \A y \in 0..(PanelHeight - 1), x \in 0..(PanelRow - 1) :
             frame8'[y * PanelRow + x] = Piece(p, ShapeOf(p), d, y - Down(ShapeOf(p)), x - Right(ShapeOf(p)))
    BY <1>3, <2>1, <2>3 DEF s, dy, dx
  <2>5. QED
    BY <1>1, <1>3, <1>4, <1>9, <2>2, <2>4, RowsGoOn
<1>10. CASE done >= s.height
  <2>1. Ends("Ok") /\ frame8' = frame8
    BY <1>2, <1>10
  <2>2. done = s.height
    BY <1>3, <1>4, <1>5, <1>10
  <2>3. Shows(p)
    BY <1>1, <1>3, <2>2, RowsShow DEF s, dy, dx
  <2>4. FrameFits' /\ RenderedPageIsThePage'
    BY <1>1, <1>6, <2>1, <2>3, ShownStays DEF FrameFits, p
  <2>5. QED
    BY <1>1, <1>6, <2>1, <2>4, Idle
<1>11. CASE done < s.height /\ pos \notin 0..(PanelHeight - 1)
  <2>1. work' = [work EXCEPT !.done = @ + 1] /\ frame8' = frame8 /\ result' = result
    BY <1>2, <1>4, <1>5, <1>11
  <2>2. ASSUME NEW y \in 0..(PanelHeight - 1), NEW x \in 0..(PanelRow - 1)
        PROVE  frame8'[y * PanelRow + x] = Piece(p, s, done + 1, y - dy, x - dx)
    <3>1. frame8[y * PanelRow + x] = Piece(p, s, done, y - dy, x - dx)
      BY <1>3 DEF Lies
    <3>2. y - dy # done
      BY <1>4, <1>5, <1>11, PanelFacts DEF pos
    <3>3. y - dy \in Int
      BY <1>5, PanelFacts
    <3>4. QED
      BY <1>4, <2>1, <3>1, <3>2, <3>3, PieceElsewhere
  <2>3. FrameFits'
    BY <1>1, <2>1 DEF FrameFits
  <2>4. QED
    BY <1>9, <1>11, <2>1, <2>2, <2>3
<1>12. CASE done < s.height /\ pos \in 0..(PanelHeight - 1) /\ ~CanRead(from, row)
  <2>1. Ends("IoError") /\ frame8' = frame8
    BY <1>2, <1>4, <1>5, <1>12
  <2>2. QED
    BY <1>1, <1>6, <1>8, <2>1
<1>13. CASE done < s.height /\ pos \in 0..(PanelHeight - 1) /\ CanRead(from, row)
  <2>1. work' = [work EXCEPT !.done = @ + 1] /\ frame8' = Written(frame8, writes) /\ result' = result
    BY <1>2, <1>4, <1>5, <1>13
  <2>2. DOMAIN writes = {pos * PanelRow + c + dx : c \in columns}
    BY DEF writes
  <2>3. ASSUME NEW c \in columns
        PROVE  /\ c \in 0..(row - 1) /\ c + dx \in 0..(PanelRow - 1)
               /\ pos * PanelRow + c + dx = pos * PanelRow + (c + dx)
               /\ pos * PanelRow + c + dx \in 0..(PanelBytes - 1)
    <3>1. c \in 0..(row - 1) /\ c + dx \in 0..(PanelRow - 1)
      BY DEF columns
    <3>2. pos * PanelRow + (c + dx) \in 0..(PanelBytes - 1)
      BY <1>13, <3>1, PanelFacts, RowsWithin
    <3>3. pos * PanelRow \in Int /\ c \in Int /\ dx \in Int
      BY <1>5, <1>13, <3>1, PanelFacts, ProductGrows
    <3>4. pos * PanelRow + c + dx = pos * PanelRow + (c + dx)
      BY <3>3
    <3>5. QED
      BY <3>1, <3>2, <3>4
  <2>4. FrameFits'
    <3>1. DOMAIN writes \subseteq 0..(PanelBytes - 1)
      BY <2>2, <2>3
    <3>2. DOMAIN frame8' = DOMAIN frame8 \union DOMAIN writes
      BY <2>1, WrittenFacts
    <3>3. QED
      BY <1>1, <3>1, <3>2 DEF FrameFits
  <2>5. ASSUME NEW y \in 0..(PanelHeight - 1), NEW x \in 0..(PanelRow - 1)
        PROVE  frame8'[y * PanelRow + x] = Piece(p, s, done + 1, y - dy, x - dx)
    <3> DEFINE k == y * PanelRow + x
    <3>1. k \in 0..(PanelBytes - 1) /\ k \in DOMAIN frame8
      BY <1>1, PanelFacts, RowsWithin DEF FrameFits
    <3>2. frame8[k] = Piece(p, s, done, y - dy, x - dx)
      BY <1>3 DEF Lies
    <3>3. (k \in DOMAIN writes) <=> (y = pos /\ x - dx \in 0..(row - 1))
      <4>1. ASSUME k \in DOMAIN writes PROVE y = pos /\ x - dx \in 0..(row - 1)
        <5>1. PICK c \in columns : k = pos * PanelRow + c + dx
          BY <2>2, <4>1
        <5>2. c \in 0..(row - 1) /\ c + dx \in 0..(PanelRow - 1) /\ y * PanelRow + x = pos * PanelRow + (c + dx)
          BY <2>3, <5>1
        <5>3. y \in Nat /\ pos \in Nat /\ PanelRow \in Nat \ {0}
          BY <1>13, PanelFacts
        <5> DEFINE u == c + dx
        <5>4. u \in 0..(PanelRow - 1) /\ y * PanelRow + x = pos * PanelRow + u
          BY <5>2
        <5> HIDE DEF u
        <5>6. y = pos /\ x = u
          BY <5>3, <5>4, PlaceIsUnique
        <5>7. y = pos /\ x = c + dx
          BY <5>6 DEF u
        <5>5. QED
          BY <1>5, <5>2, <5>7
      <4>2. ASSUME y = pos, x - dx \in 0..(row - 1) PROVE k \in DOMAIN writes
        <5> DEFINE c == x - dx
        <5>1. c + dx = x /\ c \in Int /\ x \in Int
          BY <1>5, PanelFacts
        <5>2. c \in columns
          BY <4>2, <5>1 DEF columns
        <5> HIDE DEF c
        <5>3. k = pos * PanelRow + c + dx
          BY <2>3, <4>2, <5>1, <5>2
        <5>4. QED
          BY <2>2, <5>2, <5>3
      <4>3. QED
        BY <4>1, <4>2
    <3>4. frame8'[k] = IF k \in DOMAIN writes THEN writes[k] ELSE frame8[k]
      <4>1. k \in DOMAIN frame8 \union DOMAIN writes
        BY <3>1
      <4> HIDE DEF k
      <4>2. QED
        BY <2>1, <4>1, WrittenFacts
    <3>5. CASE y = pos /\ x - dx \in 0..(row - 1)
      <4>1. writes[k] = Content(from + k - pos * PanelRow - dx)
        BY <3>3, <3>5 DEF writes
      <4>2. from + k - pos * PanelRow - dx = DataOffset(p) + (done * row + (x - dx))
        <5> DEFINE b == pos * PanelRow
                   a == done * row
        <5>1. b \in Int /\ a \in Int
          BY <1>4, <1>5, <1>13, PanelFacts, ProductGrows
        <5>2. k = b + x /\ from = DataOffset(p) + a
          BY <3>5 DEF from
        <5>3. x \in Int /\ dx \in Int /\ DataOffset(p) \in Int
          BY <1>4, <1>5, PanelFacts
        <5> HIDE DEF a, b, k
        <5>4. from + k - b - dx = DataOffset(p) + (a + (x - dx))
          BY <5>1, <5>2, <5>3
        <5>5. QED
          BY <5>4 DEF a, b
      <4>3. done \in 0..(s.height - 1)
        BY <1>4, <1>5, <1>13
      <4>4. Content(DataOffset(p) + (done * row + (x - dx))) = <<p, done, x - dx>>
        BY <1>1, <1>3, <3>5, <4>3, OpenFacts DEF s, row
      <4>5. y - dy = done
        BY <1>4, <1>5, <3>5, PanelFacts DEF pos
      <4>6. frame8'[k] = <<p, y - dy, x - dx>>
        BY <3>3, <3>4, <3>5, <4>1, <4>2, <4>4, <4>5
      <4>7. Piece(p, s, done + 1, y - dy, x - dx) = <<p, y - dy, x - dx>>
        <5> DEFINE more == done + 1
                   v == y - dy
                   u == x - dx
        <5>1. v \in 0..(more - 1)
          BY <1>4, <4>5
        <5>2. u \in 0..(RowBytes(s.width) - 1)
          BY <3>5 DEF row
        <5> HIDE DEF more, v, u
        <5>3. Piece(p, s, more, v, u) = <<p, v, u>>
          BY <5>1, <5>2, PieceHere
        <5>4. QED
          BY <5>3 DEF more, v, u
      <4>8. QED
        BY <4>6, <4>7
    <3>6. CASE ~(y = pos /\ x - dx \in 0..(row - 1))
      <4>1. frame8'[k] = Piece(p, s, done, y - dy, x - dx)
        BY <3>2, <3>3, <3>4, <3>6
      <4>2. y # pos => y - dy # done
        BY <1>4, <1>5, PanelFacts DEF pos
      <4>3. y - dy # done \/ x - dx \notin 0..(RowBytes(s.width) - 1)
        BY <3>6, <4>2 DEF row
      <4>4. y - dy \in Int
        BY <1>5, PanelFacts
      <4>5. QED
        BY <1>4, <4>1, <4>3, <4>4, PieceElsewhere
    <3>7. QED
      BY <3>5, <3>6
  <2>6. QED
    BY <1>9, <1>13, <2>1, <2>4, <2>5
<1>14. QED
  BY <1>4, <1>5, <1>10, <1>11, <1>12, <1>13

LEMMA InvStep == PageInv /\ [PageNext]_pageVars => PageInv'
<1> SUFFICES ASSUME PageInv, [PageNext]_pageVars PROVE PageInv'
  OBVIOUS
<1>1. CASE BeginPage
  BY <1>1, InvBegin
<1>2. CASE CopyChunk
  BY <1>2, InvChunk
<1>3. CASE CopyRow
  BY <1>3, InvRow
<1>4. CASE UNCHANGED pageVars
  <2>1. file' = file /\ stored' = stored /\ frame8' = frame8 /\ work' = work /\ result' = result
    BY <1>4 DEF pageVars
  <2>2. PageTypeOK'
    BY <2>1 DEF PageInv, PageTypeOK, FrameFits
  <2>3. RenderedPageIsThePage'
    <3>1. CASE result = "Ok"
      <4>1. Shows(work.page) /\ FrameFits
        BY <3>1, RenderedIsShown DEF PageInv
      <4>2. QED
        BY <2>1, <4>1, ShownStays
    <3>2. CASE result # "Ok"
      BY <2>1, <2>2, <3>2, NothingShown DEF PageTypeOK
    <3>3. QED
      BY <3>1, <3>2
  <2>4. CASE work.kind = "none"
    BY <2>1, <2>2, <2>3, <2>4 DEF PageInv, BulkCopied, RowsCopied
  <2>5. CASE work.kind = "bulk"
    <3> DEFINE p == work.page
               d == work.done
    <3>1. /\ Open(p) /\ PanelSized(ShapeOf(p)) /\ result = "none" /\ d \in 0..PanelBytes
          /\ (d > 0 => CanRead(DataOffset(p), d))
          /\ \A k \in 0..(d - 1) : frame8[k] = <<p, k \div PanelRow, k % PanelRow>>
      BY <2>5 DEF PageInv, BulkCopied
    <3>2. p \in Nat /\ work' = [page |-> p, kind |-> "bulk", done |-> d] /\ PageTypeOK /\ FrameFits'
      BY <2>1, <2>2, <2>5 DEF PageInv, PageTypeOK
    <3> HIDE DEF p, d
    <3>3. QED
      BY <2>1, <3>1, <3>2, BulkGoesOn
  <2>6. CASE work.kind = "rows"
    <3> DEFINE p == work.page
               d == work.done
    <3>1. /\ Open(p) /\ ~PanelSized(ShapeOf(p)) /\ result = "none" /\ d \in 0..ShapeOf(p).height
          /\ Lies(p, ShapeOf(p), d, Down(ShapeOf(p)), Right(ShapeOf(p)))
      BY <2>6 DEF PageInv, RowsCopied
    <3>2. p \in Nat /\ work' = [page |-> p, kind |-> "rows", done |-> d] /\ PageTypeOK /\ FrameFits'
      BY <2>1, <2>2, <2>6 DEF PageInv, PageTypeOK
    <3> HIDE DEF p, d
    <3>3. \A y \in 0..(PanelHeight - 1), x \in 0..(PanelRow - 1) :
            frame8'[y * PanelRow + x] = Piece(p, ShapeOf(p), d, y - Down(ShapeOf(p)), x - Right(ShapeOf(p)))
      BY <2>1, <3>1 DEF Lies
    <3>4. QED
      BY <2>1, <3>1, <3>2, <3>3, RowsGoOn
  <2>7. QED
    BY <2>4, <2>5, <2>6 DEF PageInv, PageTypeOK
<1>5. QED
  BY <1>1, <1>2, <1>3, <1>4 DEF PageNext

\* Whatever the pages' shapes, the panel's, the chunks' and the bytes missing
\* at the end of the card's file: a frame that renderPageToFramebuffer reports
\* good holds the page asked for and nothing else, moved as one piece over
\* white, and the browser's preview holds the same bytes.
THEOREM RenderedPageIsThePageHolds == PageSpec => []RenderedPageIsThePage
<1>1. PageInv => RenderedPageIsThePage
  BY DEF PageInv
<1>2. QED
  BY InvInit, InvStep, <1>1, PTL DEF PageSpec

-----------------------------------------------------------------------------
(* The parts side by side                                                    *)

HIDE PageFileAssumption

\* In every behaviour of the parts side by side each part begins and steps as
\* it does alone, so what is proved of it alone holds beside the others.
THEOREM PartsAlone ==
  MCSpec => WakeSpec /\ ScreensSpec /\ FeedInit /\ [][FeedNext]_feedVars /\ PageSpec
<1>1. MCInit => WakeInit /\ ScreensInit /\ FeedInit /\ PageInit
  BY DEF MCInit
<1> DEFINE all == <<subject, wakeVars, screenVars, webVars, feedVars, pageVars>>
<1>2. ASSUME [DayNext]_all
      PROVE  /\ [WakeNext]_wakeVars /\ [ScreensNext]_<<screenVars, webVars>>
             /\ [FeedNext]_feedVars /\ [PageNext]_pageVars
  <2>1. CASE DayNext
    BY <2>1 DEF DayNext
  <2>2. CASE UNCHANGED all
    BY <2>2
  <2>3. QED
    BY <1>2, <2>1, <2>2
<1>3. QED
  BY <1>1, <1>2, PTL DEF MCSpec, WakeSpec, ScreensSpec, PageSpec

\* Each part's state is what its code can hold, beside the others too.
THEOREM DayTypeCorrect == MCSpec => []DayTypeOK
<1>1. WakeTypeOK /\ ScreensTypeOK => DayTypeOK
  BY DEF DayTypeOK
<1>2. QED
  BY <1>1, PartsAlone, WakeTypeCorrect, ScreensTypeCorrect, PTL
=============================================================================
