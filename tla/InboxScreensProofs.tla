-------------------------- MODULE InboxScreensProofs --------------------------
(***************************************************************************)
(* Theorems about InboxScreens and the web session it serves, for every    *)
(* set of documents, every capacity of the index and the outbox, and every *)
(* number of sessions.                                                     *)
(***************************************************************************)
EXTENDS InboxScreens, FiniteSetTheorems, SequenceTheorems, WellFoundedInduction, TLAPS

Entries == [id : Docs, status : Statuses]
Inboxes == {index \in Seq(Entries) : Len(index) <= MaxInbox}

\* Every document keeps the position it has; others may come after it.
Extends(new, old) == Len(old) <= Len(new) /\ \A i \in 1 .. Len(old) : new[i].id = old[i].id

LEMMA IndexFacts ==
  ASSUME NEW index \in Inboxes
  PROVE  /\ index \in Seq(Entries) /\ Len(index) \in Nat /\ DOMAIN index = 1..Len(index)
         /\ Len(index) <= MaxInbox
         /\ \A i \in 1..Len(index) : /\ index[i] \in Entries /\ index[i].id \in Docs
                                     /\ index[i].status \in Statuses
<1>1. index \in Seq(Entries) /\ Len(index) <= MaxInbox
  BY DEF Inboxes
<1>2. Len(index) \in Nat /\ DOMAIN index = 1..Len(index)
  BY <1>1, LenProperties
<1>3. \A i \in 1..Len(index) : index[i] \in Entries
  BY <1>1, ElementOfSeq
<1>4. QED
  BY <1>1, <1>2, <1>3 DEF Entries

LEMMA ExtendsSelf == ASSUME NEW index \in Inboxes PROVE Extends(index, index)
BY IndexFacts DEF Extends

LEMMA ExtendsChain ==
  ASSUME NEW a \in Inboxes, NEW b \in Inboxes, NEW c \in Inboxes, Extends(b, a), Extends(c, b)
  PROVE  Extends(c, a)
<1>1. Len(a) \in Nat /\ Len(b) \in Nat /\ Len(c) \in Nat
  BY IndexFacts
<1>2. QED
  BY <1>1 DEF Extends

LEMMA PositionDoes ==
  ASSUME NEW index \in Inboxes, NEW id
  PROVE  /\ Position(index, id) \in 0..Len(index)
         /\ Position(index, id) # 0 =>
              Position(index, id) \in 1..Len(index) /\ index[Position(index, id)].id = id
<1>1. Len(index) \in Nat /\ DOMAIN index = 1..Len(index)
  BY IndexFacts
<1>2. CASE \E i \in DOMAIN index : index[i].id = id
  <2> DEFINE p == CHOOSE i \in DOMAIN index : index[i].id = id
  <2>1. p \in DOMAIN index /\ index[p].id = id
    BY <1>2
  <2>2. Position(index, id) = p
    BY <1>2 DEF Position
  <2> HIDE DEF p
  <2>3. QED
    BY <1>1, <2>1, <2>2
<1>3. CASE ~ \E i \in DOMAIN index : index[i].id = id
  <2>1. Position(index, id) = 0
    BY <1>3 DEF Position
  <2>2. QED
    BY <1>1, <2>1
<1>4. QED
  BY <1>2, <1>3

\* Only an entry with the same document may change in place.
LEMMA ReplacedKeeps ==
  ASSUME NEW index \in Inboxes, NEW p \in 1..Len(index), NEW entry \in Entries, entry.id = index[p].id
  PROVE  [index EXCEPT ![p] = entry] \in Inboxes /\ Extends([index EXCEPT ![p] = entry], index)
<1> DEFINE new == [index EXCEPT ![p] = entry]
<1>1. /\ index \in Seq(Entries) /\ Len(index) \in Nat /\ DOMAIN index = 1..Len(index)
      /\ Len(index) <= MaxInbox /\ \A i \in 1..Len(index) : index[i] \in Entries
  BY IndexFacts
<1>2. /\ \A i \in 1..Len(index) : new[i] = IF i = p THEN entry ELSE index[i]
      /\ DOMAIN new = 1..Len(index)
  BY <1>1
<1>3. new \in [1..Len(index) -> Entries]
  BY <1>1
<1> HIDE DEF new
<1>4. new \in Seq(Entries)
  BY <1>1, <1>3, SeqDef
<1>5. Len(new) = Len(index)
  BY <1>1, <1>2, <1>4, LenProperties
<1>6. \A i \in 1..Len(index) : new[i].id = index[i].id
  BY <1>2
<1>7. QED
  BY <1>1, <1>4, <1>5, <1>6 DEF new, Inboxes, Extends

LEMMA UpsertedKeeps ==
  ASSUME ScreensAssumption, NEW index \in Inboxes, NEW entry \in Entries
  PROVE  Upserted(index, entry) \in Inboxes /\ Extends(Upserted(index, entry), index)
<1>1. /\ index \in Seq(Entries) /\ Len(index) \in Nat /\ DOMAIN index = 1..Len(index)
      /\ Len(index) <= MaxInbox /\ MaxInbox \in Nat
  BY IndexFacts DEF ScreensAssumption
<1> DEFINE p == Position(index, entry.id)
<1>2. p # 0 => p \in 1..Len(index) /\ index[p].id = entry.id
  BY PositionDoes
<1>3. CASE p # 0
  <2>1. Upserted(index, entry) = [index EXCEPT ![p] = entry]
    BY <1>3 DEF Upserted
  <2> HIDE DEF p
  <2>2. p \in 1..Len(index) /\ entry.id = index[p].id
    BY <1>2, <1>3
  <2> DEFINE new == [index EXCEPT ![p] = entry]
  <2>3. new \in Inboxes /\ Extends(new, index)
    BY <2>2, ReplacedKeeps
  <2> HIDE DEF new
  <2>4. Upserted(index, entry) = new
    BY <2>1 DEF new
  <2>5. QED
    BY <2>3, <2>4
<1>4. CASE p = 0 /\ Len(index) < MaxInbox
  <2> DEFINE new == Append(index, entry)
  <2>1. Upserted(index, entry) = new
    BY <1>4 DEF Upserted
  <2>2. /\ new \in Seq(Entries) /\ Len(new) = Len(index) + 1
        /\ \A i \in 1..Len(index) : new[i] = index[i]
    BY <1>1, AppendProperties
  <2> HIDE DEF new, p
  <2>3. Len(new) <= MaxInbox
    BY <1>1, <1>4, <2>2
  <2>4. QED
    BY <1>1, <2>1, <2>2, <2>3 DEF Inboxes, Extends
<1>5. CASE p = 0 /\ ~(Len(index) < MaxInbox)
  <2>1. Upserted(index, entry) = index
    BY <1>5 DEF Upserted
  <2>2. QED
    BY <2>1, ExtendsSelf
<1>6. QED
  BY <1>3, <1>4, <1>5

LEMMA DecidedKeeps ==
  ASSUME NEW index \in Inboxes, NEW id, Position(index, id) # 0, NEW status \in Statuses
  PROVE  LET new == [index EXCEPT ![Position(index, id)].status = status]
         IN  new \in Inboxes /\ Extends(new, index) /\ id \in Docs
<1> DEFINE p == Position(index, id)
           entry == [index[p] EXCEPT !.status = status]
<1>1. p \in 1..Len(index) /\ index[p].id = id
  BY PositionDoes
<1> HIDE DEF p
<1>2. index[p] \in Entries /\ id \in Docs
  BY <1>1, IndexFacts
<1>3. entry \in Entries /\ entry.id = index[p].id
  BY <1>2 DEF Entries
<1>4. [index EXCEPT ![p].status = status] = [index EXCEPT ![p] = entry]
  OBVIOUS
<1> HIDE DEF entry
<1>5. [index EXCEPT ![p] = entry] \in Inboxes /\ Extends([index EXCEPT ![p] = entry], index)
  BY <1>1, <1>3, ReplacedKeeps
<1>6. QED
  BY <1>2, <1>4, <1>5 DEF p

-----------------------------------------------------------------------------
(* The two loops: a pass's downloads, and a section's rows.  Each defines a  *)
(* function by its rounds; what a round keeps, the least round that did not  *)
(* keep it shows.                                                            *)

\* A set of numbers that is not empty has a least one.
LEMMA LeastRound ==
  ASSUME NEW T \in SUBSET Nat, T # {}
  PROVE  \E n \in T : \A m \in T : n <= m
<1>1. \E n \in T : \A m \in T : <<m, n>> \notin OpToRel(<, Nat)
  BY WFMin, NatLessThanWellFounded
<1>2. OpToRel(<, Nat) = {p \in Nat \X Nat : p[1] < p[2]}
  BY Zenon DEF OpToRel
<1>3. \E n \in T : \A m \in T : <<m, n>> \notin {p \in Nat \X Nat : p[1] < p[2]}
  BY <1>1, <1>2, Zenon
<1>4. PICK n \in T : \A m \in T : <<m, n>> \notin {p \in Nat \X Nat : p[1] < p[2]}
  BY <1>3
<1>5. ASSUME NEW m \in T PROVE n <= m
  <2>1. m \in Nat /\ n \in Nat /\ <<m, n>> \notin {p \in Nat \X Nat : p[1] < p[2]}
    BY <1>4
  <2>2. QED
    BY <2>1
<1>6. QED
  BY <1>5

Download(id) == [id |-> id, status |-> "Downloaded"]

Downloads(f, index, order, most) ==
  f = [i \in 0..most |-> IF i = 0 THEN index ELSE Upserted(f[i - 1], Download(order[i]))]

LEMMA ArrivedDefined ==
  ASSUME NEW index, NEW order, NEW most \in Nat
  PROVE  \E f : Downloads(f, index, order, most)
<1> USE DEF Downloads
<1> DEFINE Rounds(f, k) == Downloads(f, index, order, k)
           Undefined == {k \in 0..most : ~ \E f : Rounds(f, k)}
<1> SUFFICES ASSUME Undefined # {} PROVE FALSE
  OBVIOUS
<1>0. Undefined \in SUBSET Nat
  OBVIOUS
<1> HIDE DEF Undefined
<1>1. PICK k \in Undefined : \A m \in Undefined : k <= m
  BY <1>0, LeastRound
<1> USE DEF Undefined
<1>2. k # 0
  <2> DEFINE f == [i \in 0..0 |-> index]
  <2>1. Rounds(f, 0)
    OBVIOUS
  <2>2. QED
    BY <2>1, <1>1
<1>3. k \in Nat \ {0} /\ k - 1 \in 0..most /\ k - 1 \notin Undefined
  BY <1>1, <1>2
<1>4. PICK g : Rounds(g, k - 1)
  BY <1>3
<1> DEFINE h == [i \in 0..k |-> IF i = k THEN Upserted(g[k - 1], Download(order[k])) ELSE g[i]]
<1>5. \A i \in 0..(k - 1) : h[i] = g[i]
  BY <1>3
<1>6. \A i \in 0..k : h[i] = IF i = 0 THEN index ELSE Upserted(h[i - 1], Download(order[i]))
  <2> SUFFICES ASSUME NEW i \in 0..k
               PROVE  h[i] = IF i = 0 THEN index ELSE Upserted(h[i - 1], Download(order[i]))
    OBVIOUS
  <2>1. CASE i = k
    BY <2>1, <1>3, <1>5
  <2>2. CASE i # k
    <3>1. i \in 0..(k - 1) /\ h[i] = g[i]
      BY <2>2, <1>3, <1>5
    <3>2. i # 0 => i - 1 \in 0..(k - 1) /\ h[i - 1] = g[i - 1]
      BY <3>1, <1>3, <1>5
    <3>3. g[i] = IF i = 0 THEN index ELSE Upserted(g[i - 1], Download(order[i]))
      BY <1>4, <3>1
    <3>4. QED
      BY <3>1, <3>2, <3>3
  <2>3. QED
    BY <2>1, <2>2
<1>7. Rounds(h, k)
  BY <1>6
<1>8. QED
  BY <1>7, <1>1

LEMMA ArrivedKeeps ==
  ASSUME ScreensAssumption, NEW index \in Inboxes, NEW order \in Seq(Docs)
  PROVE  Arrived(index, order) \in Inboxes /\ Extends(Arrived(index, order), index)
<1> DEFINE most == Len(order)
           after == CHOOSE f : f = [i \in 0..most |->
                      IF i = 0 THEN index ELSE Upserted(f[i - 1], Download(order[i]))]
           S == {new \in Inboxes : Extends(new, index)}
<1>0. most \in Nat /\ \A i \in 1..most : order[i] \in Docs
  BY LenProperties, ElementOfSeq
<1>1. after = [i \in 0..most |-> IF i = 0 THEN index ELSE Upserted(after[i - 1], Download(order[i]))]
  <2> DEFINE Rounds(f) == Downloads(f, index, order, most)
  <2>1. most \in Nat
    BY <1>0
  <2> HIDE DEF most
  <2>2. \E f : Rounds(f)
    BY <2>1, ArrivedDefined
  <2>3. Rounds(CHOOSE f : Rounds(f))
    <3> HIDE DEF Rounds
    <3>1. QED
      BY <2>2
  <2>4. QED
    BY <2>3 DEF Downloads
<1>2. Arrived(index, order) = after[most]
  BY DEF Arrived, Download
<1>3. index \in S
  BY ExtendsSelf
<1>4. ASSUME NEW new \in S, NEW id \in Docs PROVE Upserted(new, Download(id)) \in S
  <2>1. new \in Inboxes /\ Extends(new, index)
    OBVIOUS
  <2>2. Download(id) \in Entries
    BY DEF Download, Entries, Statuses
  <2>3. Upserted(new, Download(id)) \in Inboxes /\ Extends(Upserted(new, Download(id)), new)
    BY <2>1, <2>2, UpsertedKeeps
  <2>4. QED
    BY <2>1, <2>3, ExtendsChain
<1> HIDE DEF after, most, S
<1> DEFINE Outside == {i \in 0..most : after[i] \notin S}
<1>5. Outside = {}
  <2> SUFFICES ASSUME Outside # {} PROVE FALSE
    OBVIOUS
  <2>0. Outside \in SUBSET Nat
    OBVIOUS
  <2> HIDE DEF Outside
  <2>1. PICK i \in Outside : \A m \in Outside : i <= m
    BY <2>0, LeastRound
  <2> USE DEF Outside
  <2>2. i # 0
    BY <1>1, <1>3, <2>1
  <2>3. i \in 1..most /\ i - 1 \in 0..most /\ after[i - 1] \in S
    BY <1>0, <2>1, <2>2
  <2>4. after[i] = Upserted(after[i - 1], Download(order[i]))
    BY <1>1, <2>1, <2>2
  <2>5. QED
    BY <1>0, <1>4, <2>1, <2>3, <2>4
<1>6. after[most] \in S
  <2>1. most \in 0..most
    BY <1>0
  <2>2. QED
    BY <1>5, <2>1
<1>7. QED
  BY <1>2, <1>6 DEF S

\* The rows that name the document at their position.
RowsFor(index) == {row \in [at : 1..Len(index), id : Docs] : index[row.at].id = row.id}

Listing(f, index, status, most) ==
  f = [i \in 0..most |->
         IF i = 0 THEN <<>>
         ELSE IF index[i].status = status THEN Append(f[i - 1], [at |-> i, id |-> index[i].id])
         ELSE f[i - 1]]

LEMMA SectionDefined ==
  ASSUME NEW index, NEW status, NEW most \in Nat
  PROVE  \E f : Listing(f, index, status, most)
<1> DEFINE Round(before, i) ==
             IF index[i].status = status THEN Append(before, [at |-> i, id |-> index[i].id]) ELSE before
           Rounds(f, k) == f = [i \in 0..k |-> IF i = 0 THEN <<>> ELSE Round(f[i - 1], i)]
           Undefined == {k \in 0..most : ~ \E f : Rounds(f, k)}
<1> HIDE DEF Round
<1>a. SUFFICES Undefined = {}
  BY DEF Round, Listing
<1> SUFFICES ASSUME Undefined # {} PROVE FALSE
  OBVIOUS
<1>0. Undefined \in SUBSET Nat
  OBVIOUS
<1> HIDE DEF Undefined
<1>1. PICK k \in Undefined : \A m \in Undefined : k <= m
  BY <1>0, LeastRound
<1> USE DEF Undefined
<1>2. k # 0
  <2> DEFINE f == [i \in 0..0 |-> <<>>]
  <2>1. Rounds(f, 0)
    OBVIOUS
  <2>2. QED
    BY <2>1, <1>1
<1>3. k \in Nat \ {0} /\ k - 1 \in 0..most /\ k - 1 \notin Undefined
  <2>1. k \in 0..most
    BY <1>1
  <2> HIDE DEF Undefined, Rounds
  <2>2. k \in Nat \ {0} /\ k - 1 \in 0..most /\ ~(k <= k - 1)
    BY <2>1, <1>2
  <2>3. QED
    BY <2>2, <1>1
<1>4. PICK g : Rounds(g, k - 1)
  BY <1>3
<1> DEFINE h == [i \in 0..k |-> IF i = k THEN Round(g[k - 1], k) ELSE g[i]]
<1>5. \A i \in 0..(k - 1) : h[i] = g[i]
  BY <1>3
<1>6. \A i \in 0..k : h[i] = IF i = 0 THEN <<>> ELSE Round(h[i - 1], i)
  <2> SUFFICES ASSUME NEW i \in 0..k
               PROVE  h[i] = IF i = 0 THEN <<>> ELSE Round(h[i - 1], i)
    OBVIOUS
  <2>1. CASE i = k
    <3>1. i # 0 /\ h[i - 1] = g[i - 1]
      BY <2>1, <1>3, <1>5
    <3>2. h[i] = Round(g[i - 1], i)
      BY <2>1
    <3> HIDE DEF h
    <3>3. QED
      BY <3>1, <3>2
  <2>2. CASE i # k
    <3>1. i \in 0..(k - 1) /\ h[i] = g[i]
      BY <2>2, <1>3, <1>5
    <3>2. i # 0 => i - 1 \in 0..(k - 1) /\ h[i - 1] = g[i - 1]
      BY <3>1, <1>3, <1>5
    <3>3. g[i] = IF i = 0 THEN <<>> ELSE Round(g[i - 1], i)
      BY <1>4, <3>1
    <3>4. QED
      BY <3>1, <3>2, <3>3
  <2>3. QED
    BY <2>1, <2>2
<1>7. Rounds(h, k)
  <2>1. DOMAIN h = 0..k /\ h = [i \in 0..k |-> h[i]]
    OBVIOUS
  <2> HIDE DEF h
  <2>2. QED
    BY <1>6, <2>1
<1>8. QED
  BY <1>7, <1>1

LEMMA SectionLists ==
  ASSUME NEW index \in Inboxes, NEW status
  PROVE  Section(index, status) \in Seq(RowsFor(index))
<1> DEFINE most == Len(index)
           S == Seq(RowsFor(index))
           Round(before, i) ==
             IF index[i].status = status THEN Append(before, [at |-> i, id |-> index[i].id]) ELSE before
           listed == CHOOSE f : f = [i \in 0..most |->
                       IF i = 0 THEN <<>>
                       ELSE IF index[i].status = status THEN Append(f[i - 1], [at |-> i, id |-> index[i].id])
                       ELSE f[i - 1]]
<1>0. most \in Nat /\ \A i \in 1..most : index[i].id \in Docs
  <2> HIDE DEF S, Round, listed
  <2>1. most \in Nat
    BY IndexFacts
  <2>2. \A i \in 1..most : index[i].id \in Docs
    BY IndexFacts
  <2>3. QED
    BY <2>1, <2>2
<1>1. listed = [i \in 0..most |->
                  IF i = 0 THEN <<>>
                  ELSE IF index[i].status = status THEN Append(listed[i - 1], [at |-> i, id |-> index[i].id])
                  ELSE listed[i - 1]]
  <2> DEFINE Rounds(f) == Listing(f, index, status, most)
  <2>1. most \in Nat
    BY <1>0
  <2> HIDE DEF most
  <2>2. \E f : Rounds(f)
    BY <2>1, SectionDefined
  <2>3. Rounds(CHOOSE f : Rounds(f))
    <3> HIDE DEF Rounds
    <3>1. QED
      BY <2>2
  <2>4. QED
    BY <2>3 DEF Listing
<1>2. Section(index, status) = listed[most]
  BY DEF Section
<1> HIDE DEF listed
<1>3. /\ listed[0] = <<>>
      /\ \A i \in 1..most : listed[i] = Round(listed[i - 1], i)
  <2>1. most \in Nat
    BY <1>0
  <2> HIDE DEF most
  <2>2. 0 \in 0..most /\ \A i \in 1..most : i \in 0..most /\ i # 0
    BY <2>1
  <2>3. QED
    BY <1>1, <2>2
<1>4. ASSUME NEW before \in S, NEW i \in 1..most PROVE Round(before, i) \in S
  <2> DEFINE row == [at |-> i, id |-> index[i].id]
  <2>1. row \in RowsFor(index)
    BY <1>0 DEF RowsFor
  <2> HIDE DEF row
  <2>2. Append(before, row) \in S
    BY <2>1, AppendProperties
  <2>3. Round(before, i) = Append(before, row) \/ Round(before, i) = before
    BY DEF row
  <2>4. QED
    BY <2>2, <2>3
<1>5. <<>> \in S
  BY EmptySeq
<1> HIDE DEF most, S, Round
<1> DEFINE Outside == {i \in 0..most : listed[i] \notin S}
<1>6. Outside = {}
  <2> SUFFICES ASSUME Outside # {} PROVE FALSE
    OBVIOUS
  <2>0. Outside \in SUBSET Nat
    OBVIOUS
  <2> HIDE DEF Outside
  <2>1. PICK i \in Outside : \A m \in Outside : i <= m
    BY <2>0, LeastRound
  <2> USE DEF Outside
  <2>2. i # 0
    BY <1>3, <1>5, <2>1
  <2>3. i \in 1..most /\ i - 1 \in 0..most /\ listed[i - 1] \in S
    BY <1>0, <2>1, <2>2
  <2>4. QED
    BY <1>3, <1>4, <2>1, <2>3
<1>7. listed[most] \in S
  BY <1>0, <1>6
<1>8. QED
  BY <1>2, <1>7 DEF S

\* Every row on the display names the document at the position it carries.
LEMMA RowsNameTheirDocument ==
  ASSUME NEW index \in Inboxes
  PROVE  RowsOf(index) \in Seq(RowsFor(index))
<1>1. \A status : Section(index, status) \in Seq(RowsFor(index))
  BY SectionLists
<1>2. \A s, t \in Seq(RowsFor(index)) : s \o t \in Seq(RowsFor(index))
  BY ConcatProperties
<1>3. QED
  BY <1>1, <1>2 DEF RowsOf

-----------------------------------------------------------------------------
(* Frames                                                                   *)

Screens(index) ==
  [mode : Modes, selected : 0..Len(index), page : Nat, landscape : BOOLEAN, isOpen : BOOLEAN,
   file : Files]

\* The reader and its menu are about this document, and an open file is the
\* one of its orientation, at a page it has.
Reads(u, index, id) ==
  u.mode \in {"Reader", "ActionMenu"} =>
    /\ u.selected \in 1..Len(index) /\ index[u.selected].id = id
    /\ u.isOpen => u.file = FileOf(u, index) /\ u.page < PagesOf(u.file)

LEMMA FileFacts ==
  ASSUME ScreensAssumption, NEW index \in Inboxes, NEW u \in Screens(index),
         u.selected \in 1..Len(index)
  PROVE  /\ FileOf(u, index) \in Files
         /\ PagesOf(FileOf(u, index)) \in Nat \ {0}
<1> DEFINE doc == index[u.selected].id
           wide == u.landscape /\ WidePages[doc] > 0
<1>1. doc \in Docs
  BY IndexFacts
<1>2. wide \in BOOLEAN
  BY DEF Screens
<1>3. FileOf(u, index) = [doc |-> doc, wide |-> wide]
  BY DEF FileOf
<1>4. WidePages[doc] \in Nat /\ Pages[doc] \in Nat \ {0}
  BY <1>1 DEF ScreensAssumption
<1>5. wide => WidePages[doc] \in Nat \ {0}
  BY <1>4
<1> HIDE DEF doc, wide
<1>6. FileOf(u, index) \in Files
  BY <1>1, <1>2, <1>3 DEF Files
<1>7. FileOf(u, index).doc = doc /\ (FileOf(u, index).wide <=> wide)
  BY <1>2, <1>3
<1>8. PagesOf(FileOf(u, index)) \in Nat \ {0}
  BY <1>4, <1>5, <1>7 DEF PagesOf
<1>9. QED
  BY <1>6, <1>8

LEMMA HomeDoes ==
  ASSUME NEW index \in Inboxes, NEW u \in Screens(index), NEW list \in Seq(RowsFor(index))
  PROVE  Home(u, list) \in Screens(index) /\ Home(u, list).mode = "Inbox"
<1> DEFINE at == IF list = <<>> \/ \E k \in DOMAIN list : list[k].at = u.selected
                 THEN u.selected ELSE list[1].at
<1>1. Home(u, list) = [u EXCEPT !.mode = "Inbox", !.selected = at]
  BY DEF Home, Screens
<1>2. at \in 0..Len(index)
  <2>1. CASE list = <<>>
    BY <2>1 DEF Screens
  <2>2. CASE list # <<>>
    <3>1. list[1] \in RowsFor(index)
      <4>1. Len(list) \in Nat /\ list \in [1..Len(list) -> RowsFor(index)]
        BY LenProperties
      <4>2. Len(list) # 0
        BY <2>2, EmptySeq
      <4>3. QED
        BY <4>1, <4>2
    <3>2. list[1].at \in 1..Len(index) /\ Len(index) \in Nat
      BY <3>1, IndexFacts DEF RowsFor
    <3>3. list[1].at \in 0..Len(index) /\ u.selected \in 0..Len(index)
      BY <3>2 DEF Screens
    <3>4. QED
      BY <3>3
  <2>3. QED
    BY <2>1, <2>2
<1> HIDE DEF at
<1>3. QED
  BY <1>1, <1>2 DEF Screens, Modes

LEMMA ReadingDoes ==
  ASSUME ScreensAssumption, NEW index \in Inboxes, NEW u \in Screens(index), NEW id,
         u.mode = "Reader", Reads(u, index, id), NEW v \in Reading(u, index)
  PROVE  v \in Screens(index) /\ Reads(v, index, id) /\ v.mode = "Reader"
<1>0. u.selected \in 1..Len(index) /\ index[u.selected].id = id
  BY DEF Reads
<1>1. CASE u.isOpen
  BY <1>1 DEF Reading
<1>2. CASE ~u.isOpen
  <2> DEFINE file == FileOf(u, index)
             opened == [[u EXCEPT !.file = file, !.page = 0] EXCEPT !.isOpen = TRUE]
             failed == [u EXCEPT !.file = NoFile, !.page = 0]
  <2>1. v = opened \/ v = failed
    BY <1>2, Zenon DEF Reading, Opened
  <2>2. file \in Files /\ PagesOf(file) \in Nat \ {0} /\ NoFile \in Files
    BY <1>0, FileFacts DEF Files, NoFile
  <2>3. ASSUME v = opened PROVE v \in Screens(index) /\ Reads(v, index, id) /\ v.mode = "Reader"
    <3> HIDE DEF file
    <3>1. /\ v \in Screens(index) /\ v.mode = "Reader" /\ v.selected = u.selected
          /\ v.landscape = u.landscape /\ v.file = file /\ v.page = 0
      BY <2>2, <2>3 DEF Screens
    <3>2. FileOf(v, index) = file
      BY <3>1 DEF FileOf, file
    <3>3. QED
      BY <1>0, <2>2, <3>1, <3>2 DEF Reads
  <2>4. ASSUME v = failed PROVE v \in Screens(index) /\ Reads(v, index, id) /\ v.mode = "Reader"
    <3>1. v \in Screens(index) /\ v.mode = "Reader" /\ v.selected = u.selected /\ ~v.isOpen
      BY <1>2, <2>2, <2>4 DEF Screens
    <3>2. QED
      BY <1>0, <3>1 DEF Reads
  <2>5. QED
    BY <2>1, <2>3, <2>4
<1>3. QED
  BY <1>1, <1>2

\* A frame keeps the reader on its document, and its rows name theirs.
LEMMA DrawsDoes ==
  ASSUME ScreensAssumption, NEW index \in Inboxes, NEW u \in Screens(index), NEW id,
         Reads(u, index, id), Draws(u, index)
  PROVE  /\ ui' \in Screens(index) /\ rows' \in Seq(RowsFor(index)) /\ Reads(ui', index, id)
         /\ u.mode = "WebUi" => ui'.mode = "WebUi"
<1>0. <<>> \in Seq(RowsFor(index))
  BY EmptySeq
<1>1. CASE u.mode = "Reader"
  <2>1. u.selected # 0
    BY <1>1, IndexFacts DEF Reads
  <2>2. ui' \in Reading(u, index) /\ rows' = <<>>
    BY <1>1, <2>1 DEF Draws
  <2>3. QED
    BY <1>0, <1>1, <2>2, ReadingDoes
<1>2. CASE u.mode = "Inbox"
  <2>1. rows' = RowsOf(index) /\ ui' = Home(u, RowsOf(index))
    BY <1>2 DEF Draws
  <2>2. RowsOf(index) \in Seq(RowsFor(index))
    BY RowsNameTheirDocument
  <2>3. ui' \in Screens(index) /\ ui'.mode = "Inbox"
    BY <2>1, <2>2, HomeDoes
  <2>4. QED
    BY <1>2, <2>1, <2>2, <2>3 DEF Reads
<1>3. CASE u.mode # "Reader" /\ u.mode # "Inbox"
  <2>1. ui' = u /\ rows' = <<>>
    BY <1>3 DEF Draws
  <2>2. QED
    BY <1>0, <2>1
<1>4. QED
  BY <1>1, <1>2, <1>3

-----------------------------------------------------------------------------
(* The index, the outbox and the settings                                    *)

StoreInv ==
  /\ jobs \in Inboxes
  /\ outbox \subseteq Docs /\ IsFiniteSet(outbox) /\ Cardinality(outbox) <= MaxOutbox
  /\ settings \in [landscape : BOOLEAN, bridge : BOOLEAN]

StoreKept == StoreInv' /\ Extends(jobs', jobs)

LEMMA DecidedStore ==
  ASSUME ScreensAssumption, StoreInv, NEW id, NEW status \in Statuses, Accepts(id),
         Decides(id, status), UNCHANGED settings
  PROVE  StoreKept
<1>1. Position(jobs, id) # 0 /\ id \notin outbox /\ Cardinality(outbox) < MaxOutbox
  BY DEF Accepts
<1>2. /\ jobs \in Inboxes /\ outbox \subseteq Docs /\ IsFiniteSet(outbox) /\ MaxOutbox \in Nat
      /\ settings \in [landscape : BOOLEAN, bridge : BOOLEAN]
  BY DEF StoreInv, ScreensAssumption
<1> DEFINE new == [jobs EXCEPT ![Position(jobs, id)].status = status]
<1>3. new \in Inboxes /\ Extends(new, jobs) /\ id \in Docs
  BY <1>1, <1>2, DecidedKeeps
<1>4. jobs' = new /\ outbox' = outbox \union {id}
  BY DEF Decides
<1> HIDE DEF new
<1>5. /\ IsFiniteSet(outbox \union {id})
      /\ Cardinality(outbox \union {id}) = Cardinality(outbox) + 1
  BY <1>1, <1>2, FS_AddElement
<1>6. Cardinality(outbox) \in Nat
  BY <1>2, FS_CardinalityType
<1>7. Cardinality(outbox \union {id}) <= MaxOutbox
  BY <1>1, <1>2, <1>5, <1>6
<1>8. outbox' \subseteq Docs /\ IsFiniteSet(outbox') /\ Cardinality(outbox') <= MaxOutbox
  BY <1>2, <1>3, <1>4, <1>5, <1>7
<1>9. QED
  BY <1>2, <1>3, <1>4, <1>8 DEF StoreKept, StoreInv

LEMMA SyncedStore ==
  ASSUME ScreensAssumption, StoreInv, SyncPass, UNCHANGED settings
  PROVE  StoreKept
<1>1. PICK new \in SUBSET Docs, acked \in SUBSET outbox :
        /\ \E order \in SetToSeqs(new) : jobs' = Arrived(jobs, order)
        /\ outbox' = outbox \ acked
  BY DEF SyncPass
<1>2. PICK order \in SetToSeqs(new) : jobs' = Arrived(jobs, order)
  BY <1>1
<1>3. /\ jobs \in Inboxes /\ outbox \subseteq Docs /\ IsFiniteSet(outbox)
      /\ Cardinality(outbox) <= MaxOutbox /\ MaxOutbox \in Nat /\ IsFiniteSet(Docs)
      /\ settings \in [landscape : BOOLEAN, bridge : BOOLEAN]
  BY DEF StoreInv, ScreensAssumption
<1>4. order \in Seq(Docs)
  <2>1. order \in [1..Cardinality(new) -> new]
    BY DEF SetToSeqs
  <2>2. Cardinality(new) \in Nat
    BY <1>3, FS_Subset, FS_CardinalityType
  <2>3. order \in [1..Cardinality(new) -> Docs]
    BY <2>1
  <2>4. QED
    BY <2>2, <2>3, SeqDef
<1>5. Arrived(jobs, order) \in Inboxes /\ Extends(Arrived(jobs, order), jobs)
  BY <1>3, <1>4, ArrivedKeeps
<1>6. /\ IsFiniteSet(outbox \ acked) /\ Cardinality(outbox \ acked) <= Cardinality(outbox)
      /\ Cardinality(outbox \ acked) \in Nat /\ Cardinality(outbox) \in Nat
  <2>1. outbox \ acked \in SUBSET outbox
    OBVIOUS
  <2>2. QED
    BY <1>3, <2>1, FS_Subset, FS_CardinalityType
<1>7. outbox' \subseteq Docs /\ IsFiniteSet(outbox') /\ Cardinality(outbox') <= MaxOutbox
  BY <1>1, <1>3, <1>6
<1>8. jobs' \in Inboxes /\ Extends(jobs', jobs)
  BY <1>2, <1>5
<1>9. QED
  BY <1>3, <1>7, <1>8 DEF StoreKept, StoreInv

LEMMA UnchangedStore ==
  ASSUME StoreInv, UNCHANGED <<jobs, outbox>>, settings' \in [landscape : BOOLEAN, bridge : BOOLEAN]
  PROVE  StoreKept
<1>1. jobs \in Inboxes
  BY DEF StoreInv
<1>2. Extends(jobs, jobs)
  BY <1>1, ExtendsSelf
<1>3. QED
  BY <1>1, <1>2 DEF StoreKept, StoreInv

\* The actions that leave the index and the outbox as they are.
Browses ==
  \/ Redraws \/ OpenJob \/ Back \/ NextPage \/ PrevPage \/ ShowActionMenu \/ CancelMenu \/ ToggleView
  \/ OpenTimeline \/ TimelineBack \/ OpenPomodoro \/ PomodoroBack \/ OpenSettings \/ SettingsBack
  \/ OpenWebUiChoice \/ CancelWebUiChoice \/ StartsServing \/ CannotServe \/ WebUiStop
  \/ PhoneLogsIn \/ SleepsAndBoots

LEMMA BrowsesKeeps == ASSUME Browses PROVE UNCHANGED <<jobs, outbox, settings>>
<1>1. CASE \/ Redraws \/ OpenJob \/ Back \/ NextPage \/ PrevPage \/ ShowActionMenu \/ CancelMenu
           \/ ToggleView
  BY <1>1 DEF Redraws, OpenJob, Back, NextPage, PrevPage, ShowActionMenu, CancelMenu, ToggleView,
              Goes, Press
<1>2. CASE \/ OpenTimeline \/ TimelineBack \/ OpenPomodoro \/ PomodoroBack \/ OpenSettings
           \/ SettingsBack \/ OpenWebUiChoice \/ CancelWebUiChoice
  BY <1>2 DEF OpenTimeline, TimelineBack, OpenPomodoro, PomodoroBack, OpenSettings, SettingsBack,
              OpenWebUiChoice, CancelWebUiChoice, Goes, Press
<1>3. CASE StartsServing \/ CannotServe \/ WebUiStop \/ PhoneLogsIn \/ SleepsAndBoots
  BY <1>3 DEF StartsServing, CannotServe, WebUiStop, PhoneLogsIn, SleepsAndBoots, screenVars
<1>4. QED
  BY <1>1, <1>2, <1>3 DEF Browses

LEMMA StoreStep ==
  ASSUME ScreensAssumption, StoreInv, [ScreensNext]_<<screenVars, webVars>>
  PROVE  StoreKept
<1>0. settings \in [landscape : BOOLEAN, bridge : BOOLEAN] /\ jobs \in Inboxes
  BY DEF StoreInv
<1>1. CASE Browses \/ UNCHANGED <<screenVars, webVars>>
  BY <1>0, <1>1, BrowsesKeeps, UnchangedStore DEF screenVars
<1>2. CASE ApproveOnDevice
  <2>1. PICK status \in Statuses : Accepts(jobs[ui.selected].id) /\ Decides(jobs[ui.selected].id, status)
    BY <1>2 DEF ApproveOnDevice
  <2>2. UNCHANGED settings
    BY <1>2 DEF ApproveOnDevice
  <2>3. QED
    BY <2>1, <2>2, DecidedStore
<1>3. CASE SyncFromInbox
  BY <1>3, SyncedStore DEF SyncFromInbox
<1>4. CASE ToggleSetting
  <2>1. settings' \in [landscape : BOOLEAN, bridge : BOOLEAN] /\ UNCHANGED <<jobs, outbox>>
    BY <1>0, <1>4 DEF ToggleSetting
  <2>2. QED
    BY <2>1, UnchangedStore
<1>5. CASE PhoneAsks
  <2>0. UNCHANGED settings
    BY <1>5 DEF PhoneAsks
  <2>1. CASE UNCHANGED <<jobs, outbox>>
    BY <1>0, <2>0, <2>1, UnchangedStore
  <2>2. ASSUME NEW id \in Docs, NEW status \in Statuses, Accepts(id), Decides(id, status)
        PROVE  StoreKept
    BY <2>0, <2>2, DecidedStore
  <2>3. ASSUME NEW id \in Docs, jobs' = Upserted(jobs, [id |-> id, status |-> "Downloaded"]),
               UNCHANGED outbox
        PROVE  StoreKept
    <3>1. [id |-> id, status |-> "Downloaded"] \in Entries
      BY DEF Entries, Statuses
    <3>2. jobs' \in Inboxes /\ Extends(jobs', jobs)
      BY <1>0, <2>3, <3>1, UpsertedKeeps
    <3>3. QED
      BY <2>0, <2>3, <3>2 DEF StoreKept, StoreInv
  <2>4. QED
    BY <1>5, <2>1, <2>2, <2>3 DEF PhoneAsks
<1>6. QED
  BY <1>1, <1>2, <1>3, <1>4, <1>5 DEF ScreensNext, Browses

-----------------------------------------------------------------------------
(* The screen.  Its rows and its selection are positions in an index that a  *)
(* sync pass may change; they hold because no document ever changes its.     *)

ScreenInv ==
  /\ ui \in Screens(jobs) /\ rows \in Seq(RowsFor(jobs))
  /\ pressed \in Docs \union {NoDoc} /\ Reads(ui, jobs, pressed)

LEMMA ScreenFields ==
  ASSUME NEW index, NEW u \in Screens(index)
  PROVE  /\ u.mode \in Modes /\ u.selected \in 0..Len(index) /\ u.page \in Nat
         /\ u.landscape \in BOOLEAN /\ u.isOpen \in BOOLEAN /\ u.file \in Files
BY DEF Screens

\* A press that draws a screen of the same index.
LEMMA PressKeeps ==
  ASSUME ScreensAssumption, StoreInv, NEW u \in Screens(jobs), NEW id \in Docs \union {NoDoc},
         Reads(u, jobs, id), Draws(u, jobs), jobs' = jobs, pressed' = id
  PROVE  ScreenInv' /\ (u.mode = "WebUi" => ui'.mode = "WebUi")
<1>1. jobs \in Inboxes
  BY DEF StoreInv
<1>2. /\ ui' \in Screens(jobs) /\ rows' \in Seq(RowsFor(jobs)) /\ Reads(ui', jobs, id)
      /\ u.mode = "WebUi" => ui'.mode = "WebUi"
  BY <1>1, DrawsDoes
<1>3. Screens(jobs') = Screens(jobs) /\ RowsFor(jobs') = RowsFor(jobs)
  BY DEF Screens, RowsFor
<1>4. Reads(ui', jobs', pressed')
  BY <1>2 DEF Reads, FileOf
<1>5. QED
  BY <1>2, <1>3, <1>4 DEF ScreenInv

LEMMA GoesKeeps ==
  ASSUME ScreensAssumption, StoreInv, ScreenInv, NEW from, NEW to \in Modes, Goes(from, to),
         to \in {"Reader", "ActionMenu"} => from \in {"Reader", "ActionMenu"}
  PROVE  ScreenInv'
<1> DEFINE u == [ui EXCEPT !.mode = to]
<1>1. ui \in Screens(jobs) /\ pressed \in Docs \union {NoDoc} /\ Reads(ui, jobs, pressed)
  BY DEF ScreenInv
<1>2. ui.mode = from /\ Draws(u, jobs) /\ UNCHANGED <<jobs, pressed>>
  BY DEF Goes, Press
<1>3. /\ u \in Screens(jobs) /\ u.mode = to /\ u.selected = ui.selected /\ u.isOpen = ui.isOpen
      /\ u.file = ui.file /\ u.page = ui.page /\ u.landscape = ui.landscape
  BY <1>1 DEF Screens
<1> HIDE DEF u
<1>4. Reads(u, jobs, pressed)
  <2>1. CASE to \notin {"Reader", "ActionMenu"}
    BY <1>3, <2>1 DEF Reads
  <2>2. CASE to \in {"Reader", "ActionMenu"}
    <3>1. /\ ui.selected \in 1..Len(jobs) /\ jobs[ui.selected].id = pressed
          /\ ui.isOpen => ui.file = FileOf(ui, jobs) /\ ui.page < PagesOf(ui.file)
      BY <1>1, <1>2, <2>2 DEF Reads
    <3>2. FileOf(u, jobs) = FileOf(ui, jobs)
      BY <1>3 DEF FileOf
    <3>3. QED
      BY <1>3, <3>1, <3>2 DEF Reads
  <2>3. QED
    BY <2>1, <2>2
<1>5. QED
  BY <1>1, <1>2, <1>3, <1>4, PressKeeps

LEMMA OpenJobKeeps ==
  ASSUME ScreensAssumption, StoreInv, ScreenInv, OpenJob
  PROVE  ScreenInv'
<1>1. PICK k \in DOMAIN rows :
        /\ Draws([ui EXCEPT !.selected = rows[k].at, !.isOpen = FALSE, !.landscape = settings.landscape,
                            !.mode = "Reader"], jobs)
        /\ pressed' = rows[k].id
  BY DEF OpenJob
<1> DEFINE u == [ui EXCEPT !.selected = rows[k].at, !.isOpen = FALSE, !.landscape = settings.landscape,
                           !.mode = "Reader"]
<1>2. /\ ui \in Screens(jobs) /\ rows \in Seq(RowsFor(jobs)) /\ jobs' = jobs
      /\ settings.landscape \in BOOLEAN /\ jobs \in Inboxes
  BY DEF ScreenInv, StoreInv, OpenJob
<1>3. rows[k] \in RowsFor(jobs)
  BY <1>2, LenProperties, ElementOfSeq
<1>4. /\ rows[k].at \in 1..Len(jobs) /\ rows[k].id \in Docs /\ jobs[rows[k].at].id = rows[k].id
      /\ rows[k].at \in 0..Len(jobs)
  BY <1>2, <1>3, IndexFacts DEF RowsFor
<1>5. u \in Screens(jobs) /\ u.selected = rows[k].at /\ ~u.isOpen
  BY <1>2, <1>4 DEF Screens, Modes
<1>6. Draws(u, jobs)
  BY <1>1
<1> HIDE DEF u
<1>7. Reads(u, jobs, rows[k].id)
  BY <1>4, <1>5 DEF Reads
<1>8. QED
  BY <1>1, <1>2, <1>4, <1>5, <1>6, <1>7, PressKeeps

\* The reader's own presses.
LEMMA ReaderKeeps ==
  ASSUME ScreensAssumption, StoreInv, ScreenInv, Back \/ NextPage \/ PrevPage \/ ToggleView
  PROVE  ScreenInv'
<1>0. /\ ui \in Screens(jobs) /\ pressed \in Docs \union {NoDoc} /\ Reads(ui, jobs, pressed)
      /\ jobs \in Inboxes /\ NoFile \in Files
  BY DEF ScreenInv, StoreInv, NoFile, Files
<1>1. CASE Back
  <2> DEFINE u == [ui EXCEPT !.mode = "Inbox", !.isOpen = FALSE, !.file = NoFile]
  <2>1. u \in Screens(jobs) /\ u.mode = "Inbox"
    BY <1>0 DEF Screens, Modes
  <2>2. Draws(u, jobs) /\ jobs' = jobs /\ pressed' = NoDoc
    BY <1>1 DEF Back
  <2> HIDE DEF u
  <2>3. Reads(u, jobs, NoDoc)
    BY <2>1 DEF Reads
  <2>4. QED
    BY <2>1, <2>2, <2>3, PressKeeps
<1>2. ASSUME NEW page \in Nat, Press("Reader", [ui EXCEPT !.page = page]),
             ui.isOpen => page < PagesOf(ui.file)
      PROVE  ScreenInv'
  <2> DEFINE u == [ui EXCEPT !.page = page]
  <2>1. /\ u \in Screens(jobs) /\ u.mode = ui.mode /\ u.selected = ui.selected /\ u.isOpen = ui.isOpen
        /\ u.file = ui.file /\ u.page = page /\ u.landscape = ui.landscape
    BY <1>0 DEF Screens
  <2>2. ui.mode = "Reader" /\ Draws(u, jobs) /\ jobs' = jobs /\ pressed' = pressed
    BY <1>2 DEF Press
  <2> HIDE DEF u
  <2>3. FileOf(u, jobs) = FileOf(ui, jobs)
    BY <2>1 DEF FileOf
  <2>4. Reads(u, jobs, pressed)
    BY <1>0, <1>2, <2>1, <2>2, <2>3 DEF Reads
  <2>5. QED
    BY <1>0, <2>1, <2>2, <2>4, PressKeeps
<1>3. CASE NextPage
  <2>1. ui.page + 1 \in Nat /\ ui.page + 1 < PagesOf(ui.file)
    BY <1>0, <1>3, ScreenFields DEF NextPage
  <2>2. Press("Reader", [ui EXCEPT !.page = ui.page + 1])
    BY <1>3 DEF NextPage
  <2>3. QED
    BY <1>2, <2>1, <2>2
<1>4. CASE PrevPage
  <2>1. Press("Reader", [ui EXCEPT !.page = ui.page - 1]) /\ ui.page > 0 /\ ui.mode = "Reader"
    BY <1>4 DEF PrevPage, Press
  <2>2. ui.page \in Nat
    BY <1>0, ScreenFields
  <2>3. ui.page - 1 \in Nat
    BY <2>1, <2>2
  <2>4. ASSUME ui.isOpen PROVE ui.page - 1 < PagesOf(ui.file)
    <3>1. ui.page < PagesOf(ui.file) /\ PagesOf(ui.file) \in Nat
      BY <1>0, <2>1, <2>4, FileFacts DEF Reads
    <3>2. QED
      BY <2>2, <3>1
  <2>5. QED
    BY <1>2, <2>1, <2>3, <2>4
<1>5. CASE ToggleView
  <2> DEFINE u == [ui EXCEPT !.landscape = ~@, !.isOpen = FALSE, !.page = 0, !.mode = "Reader"]
  <2>0. Press("ActionMenu", u)
    BY <1>5 DEF ToggleView
  <2>1. ui.mode = "ActionMenu" /\ Draws(u, jobs) /\ jobs' = jobs /\ pressed' = pressed
    <3> HIDE DEF u
    <3>1. QED
      BY <2>0 DEF Press
  <2>2. (~ui.landscape) \in BOOLEAN
    OBVIOUS
  <2>3. u \in Screens(jobs) /\ u.selected = ui.selected /\ ~u.isOpen
    BY <1>0, <2>2 DEF Screens, Modes
  <2> HIDE DEF u
  <2>4. Reads(u, jobs, pressed)
    BY <1>0, <2>1, <2>3 DEF Reads
  <2>5. QED
    BY <1>0, <2>1, <2>3, <2>4, PressKeeps
<1>6. QED
  BY <1>1, <1>3, <1>4, <1>5

\* The index grew or changed behind a screen that stays.
LEMMA StaysKeeps ==
  ASSUME StoreInv, StoreKept, ScreenInv, UNCHANGED <<ui, rows, pressed>>,
         ui.mode \notin {"Reader", "ActionMenu"} \/ jobs' = jobs
  PROVE  ScreenInv'
<1>0. /\ jobs \in Inboxes /\ jobs' \in Inboxes /\ Extends(jobs', jobs)
      /\ ui \in Screens(jobs) /\ rows \in Seq(RowsFor(jobs))
      /\ pressed \in Docs \union {NoDoc} /\ Reads(ui, jobs, pressed)
  BY DEF StoreInv, StoreKept, ScreenInv
<1>1. Len(jobs) \in Nat /\ Len(jobs') \in Nat /\ Len(jobs) <= Len(jobs')
  BY <1>0, IndexFacts DEF Extends
<1>2. 0..Len(jobs) \subseteq 0..Len(jobs') /\ 1..Len(jobs) \subseteq 1..Len(jobs')
  BY <1>1
<1>3. ui \in Screens(jobs')
  BY <1>0, <1>2 DEF Screens
<1>4. RowsFor(jobs) \subseteq RowsFor(jobs')
  <2> SUFFICES ASSUME NEW row \in RowsFor(jobs) PROVE row \in RowsFor(jobs')
    OBVIOUS
  <2>1. row \in [at : 1..Len(jobs), id : Docs] /\ jobs[row.at].id = row.id
    BY DEF RowsFor
  <2>2. row \in [at : 1..Len(jobs'), id : Docs]
    BY <1>2, <2>1
  <2>3. row.at \in 1..Len(jobs)
    BY <2>1
  <2>4. jobs'[row.at].id = row.id
    BY <1>0, <2>1, <2>3 DEF Extends
  <2>5. QED
    BY <2>2, <2>4 DEF RowsFor
<1>5. rows \in Seq(RowsFor(jobs'))
  <2>1. Len(rows) \in Nat /\ rows \in [1..Len(rows) -> RowsFor(jobs)]
    BY <1>0, LenProperties
  <2>2. rows \in [1..Len(rows) -> RowsFor(jobs')]
    BY <1>4, <2>1
  <2>3. QED
    BY <2>1, <2>2, SeqDef
<1>6. Reads(ui, jobs', pressed)
  <2>1. CASE ui.mode \notin {"Reader", "ActionMenu"}
    BY <2>1 DEF Reads
  <2>2. CASE jobs' = jobs
    BY <1>0, <2>2 DEF Reads, FileOf
  <2>3. QED
    BY <2>1, <2>2
<1>7. QED
  BY <1>0, <1>3, <1>5, <1>6 DEF ScreenInv

LEMMA LeavesTheReader ==
  ASSUME ScreensAssumption, StoreInv, StoreKept, ScreenInv, ApproveOnDevice
  PROVE  ScreenInv'
<1> DEFINE u == [ui EXCEPT !.mode = "Inbox"]
<1>0. /\ jobs \in Inboxes /\ jobs' \in Inboxes /\ Extends(jobs', jobs) /\ ui \in Screens(jobs)
  BY DEF StoreInv, StoreKept, ScreenInv
<1>1. Draws(u, jobs') /\ pressed' = NoDoc
  BY DEF ApproveOnDevice
<1>2. Len(jobs) \in Nat /\ Len(jobs') \in Nat /\ Len(jobs) <= Len(jobs')
  BY <1>0, IndexFacts DEF Extends
<1>3. 0..Len(jobs) \subseteq 0..Len(jobs')
  BY <1>2
<1>4. u \in Screens(jobs') /\ u.mode = "Inbox"
  BY <1>0, <1>3 DEF Screens, Modes
<1> HIDE DEF u
<1>5. Reads(u, jobs', NoDoc)
  BY <1>4 DEF Reads
<1>6. ui' \in Screens(jobs') /\ rows' \in Seq(RowsFor(jobs')) /\ Reads(ui', jobs', NoDoc)
  BY <1>0, <1>1, <1>4, <1>5, DrawsDoes
<1>7. QED
  BY <1>1, <1>6 DEF ScreenInv

LEMMA FirstScreenFits ==
  ASSUME NEW index \in Inboxes
  PROVE  FirstScreen \in Screens(index) /\ <<>> \in Seq(RowsFor(index)) /\ Reads(FirstScreen, index, NoDoc)
<1>1. 0 \in 0..Len(index)
  BY IndexFacts
<1>2. FirstScreen \in Screens(index)
  BY <1>1 DEF FirstScreen, Screens, Modes, Files, NoFile
<1>3. QED
  BY <1>2, EmptySeq DEF FirstScreen, Reads

LEMMA ScreenStep ==
  ASSUME ScreensAssumption, StoreInv, StoreKept, ScreenInv, [ScreensNext]_<<screenVars, webVars>>
  PROVE  ScreenInv'
<1>0. /\ ui \in Screens(jobs) /\ rows \in Seq(RowsFor(jobs)) /\ jobs \in Inboxes
      /\ pressed \in Docs \union {NoDoc} /\ Reads(ui, jobs, pressed)
  BY DEF ScreenInv, StoreInv
<1>1. CASE Redraws
  BY <1>0, <1>1, PressKeeps DEF Redraws
<1>2. CASE OpenJob
  BY <1>2, OpenJobKeeps
<1>3. CASE Back \/ NextPage \/ PrevPage \/ ToggleView
  BY <1>3, ReaderKeeps
<1>4. CASE ShowActionMenu \/ CancelMenu
  BY <1>4, GoesKeeps DEF ShowActionMenu, CancelMenu, Modes
<1>5. CASE \/ OpenTimeline \/ TimelineBack \/ OpenPomodoro \/ PomodoroBack \/ OpenSettings \/ SettingsBack
           \/ OpenWebUiChoice \/ CancelWebUiChoice
  BY <1>5, GoesKeeps DEF OpenTimeline, TimelineBack, OpenPomodoro, PomodoroBack, OpenSettings,
                         SettingsBack, OpenWebUiChoice, CancelWebUiChoice, Modes
<1>6. CASE ApproveOnDevice
  BY <1>6, LeavesTheReader
<1>7. CASE SyncFromInbox \/ PhoneAsks
  BY <1>7, StaysKeeps DEF SyncFromInbox, PhoneAsks
<1>8. CASE ToggleSetting \/ CannotServe \/ PhoneLogsIn \/ UNCHANGED <<screenVars, webVars>>
  BY <1>8, StaysKeeps DEF ToggleSetting, CannotServe, PhoneLogsIn, screenVars
<1>9. CASE StartsServing
  <2>1. ui' = [ui EXCEPT !.mode = "WebUi"] /\ UNCHANGED <<jobs, rows, pressed>>
    BY <1>9 DEF StartsServing
  <2>2. ui' \in Screens(jobs) /\ ui'.mode = "WebUi"
    BY <1>0, <2>1 DEF Screens, Modes
  <2>3. Screens(jobs') = Screens(jobs) /\ RowsFor(jobs') = RowsFor(jobs)
    BY <2>1 DEF Screens, RowsFor
  <2>4. Reads(ui', jobs', pressed')
    BY <2>2 DEF Reads
  <2>5. QED
    BY <1>0, <2>1, <2>2, <2>3, <2>4 DEF ScreenInv
<1>10. CASE WebUiStop
  <2> DEFINE u == [ui EXCEPT !.mode = "Inbox"]
  <2>1. Draws(u, jobs) /\ UNCHANGED <<jobs, pressed>>
    BY <1>10 DEF WebUiStop
  <2>2. u \in Screens(jobs) /\ u.mode = "Inbox"
    BY <1>0 DEF Screens, Modes
  <2> HIDE DEF u
  <2>3. Reads(u, jobs, pressed)
    BY <2>2 DEF Reads
  <2>4. QED
    BY <1>0, <2>1, <2>2, <2>3, PressKeeps
<1>11. CASE SleepsAndBoots
  <2>1. ui' = FirstScreen /\ rows' = <<>> /\ pressed' = NoDoc /\ jobs' = jobs
    BY <1>11 DEF SleepsAndBoots
  <2>2. jobs' \in Inboxes
    BY <1>0, <2>1
  <2>3. FirstScreen \in Screens(jobs') /\ <<>> \in Seq(RowsFor(jobs')) /\ Reads(FirstScreen, jobs', NoDoc)
    BY <2>2, FirstScreenFits
  <2>4. QED
    BY <2>1, <2>3 DEF ScreenInv
<1>12. QED
  BY <1>1, <1>2, <1>3, <1>4, <1>5, <1>6, <1>7, <1>8, <1>9, <1>10, <1>11 DEF ScreensNext

-----------------------------------------------------------------------------
(* The web session                                                           *)

\* The radio carries the session, every cookie is of a session that was, and
\* the one of this session is out only once its PIN was typed.
WebInv ==
  /\ WebTypeOK
  /\ token <= minted /\ cookies \subseteq 1..minted
  /\ serving # "off" => token # 0
  /\ token \in cookies => proved
  /\ serving = "hotspot" => radio \in {"ap", "apsta"}
  /\ serving = "station" => radio = "sta"

LEMMA ConnectsTo ==
  ASSUME NEW wanted, NEW found, NEW c \in Connects(wanted, found)
  PROVE  /\ c.ok \in BOOLEAN /\ (c.ok => c.radio = wanted)
         /\ c.radio \in {found, wanted, "off", "ap"}
         /\ wanted = "apsta" => c.radio \in {found, wanted, "ap"}
<1>1. CASE c \in {[ok |-> FALSE, radio |-> r] : r \in {found, wanted, IF wanted = "apsta" THEN "ap" ELSE "off"}}
  <2>1. PICK r \in {found, wanted, IF wanted = "apsta" THEN "ap" ELSE "off"} : c = [ok |-> FALSE, radio |-> r]
    BY <1>1
  <2>2. ~c.ok /\ c.ok \in BOOLEAN /\ c.radio = r
    BY <2>1
  <2>3. QED
    BY <2>2
<1>2. CASE c = [ok |-> TRUE, radio |-> wanted]
  BY <1>2
<1>3. QED
  BY <1>1, <1>2 DEF Connects

\* A session that begins has a token no phone has a cookie of.
LEMMA OpensFresh ==
  ASSUME SessionAssumption, WebInv, Opens, cookies' = cookies
  PROVE  /\ minted' \in 0..MaxSessions /\ token' \in 0..MaxSessions /\ token' <= minted' /\ token' # 0
         /\ cookies' \subseteq 1..minted' /\ cookies' \subseteq 1..MaxSessions /\ token' \notin cookies'
         /\ proved' \in BOOLEAN
<1>1. /\ minted < MaxSessions /\ minted' = minted + 1 /\ token' = minted + 1 /\ proved' = FALSE
      /\ minted \in 0..MaxSessions /\ cookies \subseteq 1..minted /\ MaxSessions \in Nat
  BY DEF Opens, FreshToken, WebInv, WebTypeOK, SessionAssumption
<1>2. minted' \in 0..MaxSessions /\ token' \in 0..MaxSessions /\ token' <= minted' /\ token' # 0
  BY <1>1
<1>3. 1..minted \subseteq 1..minted' /\ 1..minted \subseteq 1..MaxSessions /\ minted + 1 \notin 1..minted
  BY <1>1
<1>4. QED
  BY <1>1, <1>2, <1>3

\* What a step of the screens does to the session.
SessionSteps ==
  \/ StationStarts \/ StationFails \/ HotspotFails \/ \E b : HotspotStarts(b)
  \/ Stopped \/ WebResets \/ LogsIn \/ (serving = "off" /\ SyncsOverWifi)
  \/ UNCHANGED webVars

LEMMA WebInvStep ==
  ASSUME SessionAssumption, WebInv, SessionSteps
  PROVE  WebInv'
<1>0. /\ serving \in {"off", "station", "hotspot"} /\ radio \in {"off", "sta", "ap", "apsta"}
      /\ bridged \in BOOLEAN /\ token \in 0..MaxSessions /\ minted \in 0..MaxSessions
      /\ cookies \subseteq 1..MaxSessions /\ proved \in BOOLEAN
      /\ token <= minted /\ cookies \subseteq 1..minted
      /\ serving # "off" => token # 0
      /\ serving = "hotspot" => radio \in {"ap", "apsta"}
      /\ serving = "station" => radio = "sta"
      /\ MaxSessions \in Nat
  BY DEF WebInv, WebTypeOK, SessionAssumption
<1>a. token \in cookies => proved
  BY DEF WebInv
<1>1. CASE StationStarts
  <2>1. /\ Opens /\ cookies' = cookies /\ bridged' = bridged /\ serving' = "station"
        /\ \E c \in Connects("sta", radio) : c.ok /\ radio' = c.radio
    BY <1>1 DEF StationStarts
  <2>2. radio' = "sta"
    BY <2>1, ConnectsTo
  <2>3. QED
    BY <1>0, <2>1, <2>2, OpensFresh DEF WebInv, WebTypeOK
<1>2. CASE StationFails
  <2>1. serving' = "off" /\ radio' \in {"off", "sta", "ap", "apsta"}
        /\ UNCHANGED <<bridged, token, minted, cookies, proved>>
    <3>1. serving = "off" /\ (\E c \in Connects("sta", radio) : ~c.ok /\ radio' = c.radio)
          /\ UNCHANGED <<serving, bridged, token, minted, cookies, proved>>
      BY <1>2 DEF StationFails
    <3>2. QED
      BY <1>0, <3>1, ConnectsTo
  <2>2. QED
    BY <1>0, <1>a, <2>1 DEF WebInv, WebTypeOK
<1>3. CASE HotspotFails
  <2>1. Opens /\ cookies' = cookies /\ serving' = "off" /\ bridged' = bridged /\ radio' = "ap"
    BY <1>3 DEF HotspotFails
  <2>2. QED
    BY <1>0, <2>1, OpensFresh DEF WebInv, WebTypeOK
<1>4. ASSUME NEW b, HotspotStarts(b) PROVE WebInv'
  <2>1. Opens /\ cookies' = cookies /\ serving' = "hotspot"
    BY <1>4 DEF HotspotStarts
  <2>2. radio' \in {"ap", "apsta"} /\ bridged' \in BOOLEAN
    <3>1. CASE b
      <4>1. \E c \in Connects("apsta", "ap") : radio' = c.radio /\ bridged' = c.ok
        BY <1>4, <3>1 DEF HotspotStarts, Bridges
      <4>2. QED
        BY <4>1, ConnectsTo
    <3>2. CASE ~b
      <4>1. radio' = "ap" /\ bridged' = bridged
        BY <1>4, <3>2 DEF HotspotStarts
      <4>2. QED
        BY <1>0, <4>1
    <3>3. QED
      BY <3>1, <3>2
  <2>3. QED
    BY <1>0, <2>1, <2>2, OpensFresh DEF WebInv, WebTypeOK
<1>5. CASE WebResets
  <2>1. /\ serving' = "off" /\ radio' = "off" /\ bridged' = FALSE /\ token' = 0 /\ proved' = FALSE
        /\ minted' = minted /\ cookies' = cookies
    BY <1>5 DEF WebResets
  <2>2. 0 \in 0..MaxSessions /\ 0 <= minted /\ 0 \notin cookies
    BY <1>0
  <2>3. QED
    BY <1>0, <2>1, <2>2 DEF WebInv, WebTypeOK
<1>6. CASE UNCHANGED webVars
  BY <1>0, <1>a, <1>6 DEF WebInv, WebTypeOK, webVars
<1>7. CASE Stopped
  BY <1>5, <1>6, <1>7 DEF Stopped, WebResets
<1>8. CASE LogsIn
  <2>1. /\ serving # "off" /\ cookies' = cookies \union {token} /\ proved' = TRUE
        /\ UNCHANGED <<serving, radio, bridged, token, minted>>
    BY <1>8 DEF LogsIn
  <2>2. token \in 1..minted /\ token \in 1..MaxSessions
    BY <1>0, <2>1
  <2>3. cookies' \subseteq 1..minted' /\ cookies' \subseteq 1..MaxSessions
    BY <1>0, <2>1, <2>2
  <2>4. proved' /\ proved' \in BOOLEAN
    BY <2>1
  <2>5. QED
    BY <1>0, <2>1, <2>3, <2>4 DEF WebInv, WebTypeOK
<1>9. CASE serving = "off" /\ SyncsOverWifi
  <2>1. serving' = "off" /\ radio' \in {"off", "sta", "ap", "apsta"}
        /\ UNCHANGED <<bridged, token, minted, cookies, proved>>
    <3>1. serving = "off" /\ (\E c \in Connects("sta", radio) : radio' = IF c.ok THEN "off" ELSE c.radio)
          /\ UNCHANGED <<serving, bridged, token, minted, cookies, proved>>
      BY <1>9 DEF SyncsOverWifi
    <3>2. QED
      BY <1>0, <3>1, ConnectsTo
  <2>2. QED
    BY <1>0, <1>a, <2>1 DEF WebInv, WebTypeOK
<1>10. QED
  BY <1>1, <1>2, <1>3, <1>4, <1>5, <1>6, <1>7, <1>8, <1>9 DEF SessionSteps

\* A session is open only under its screen.
Served == serving # "off" => ui.mode = "WebUi"

\* The presses on the other screens.
ElsewhereSteps ==
  \/ OpenJob \/ Back \/ NextPage \/ PrevPage \/ ShowActionMenu \/ CancelMenu \/ ToggleView \/ ApproveOnDevice
  \/ OpenTimeline \/ TimelineBack \/ OpenPomodoro \/ PomodoroBack \/ OpenSettings \/ SettingsBack
  \/ ToggleSetting \/ OpenWebUiChoice \/ CancelWebUiChoice

LEMMA Elsewhere == ASSUME ElsewhereSteps PROVE ui.mode # "WebUi" /\ UNCHANGED webVars
<1>1. CASE \/ OpenJob \/ Back \/ ToggleView \/ ApproveOnDevice \/ ToggleSetting \/ NextPage \/ PrevPage
  BY <1>1 DEF OpenJob, Back, NextPage, PrevPage, ToggleView, ApproveOnDevice, ToggleSetting, Press
<1>2. CASE \/ ShowActionMenu \/ CancelMenu \/ OpenTimeline \/ TimelineBack \/ OpenPomodoro \/ PomodoroBack
           \/ OpenSettings \/ SettingsBack \/ OpenWebUiChoice \/ CancelWebUiChoice
  BY <1>2 DEF ShowActionMenu, CancelMenu, OpenTimeline, TimelineBack, OpenPomodoro, PomodoroBack,
              OpenSettings, SettingsBack, OpenWebUiChoice, CancelWebUiChoice, Goes, Press
<1>3. QED
  BY <1>1, <1>2 DEF ElsewhereSteps

LEMMA ServedStep ==
  ASSUME ScreensAssumption, StoreInv, ScreenInv, Served, [ScreensNext]_<<screenVars, webVars>>
  PROVE  Served' /\ SessionSteps
<1>1. CASE ElsewhereSteps
  <2>1. ui.mode # "WebUi" /\ serving' = serving /\ UNCHANGED webVars
    BY <1>1, Elsewhere DEF webVars
  <2>2. QED
    BY <2>1 DEF Served, SessionSteps
<1>2. CASE Redraws
  <2>1. Draws(ui, jobs) /\ serving' = serving /\ UNCHANGED webVars /\ UNCHANGED <<jobs, pressed>>
    BY <1>2 DEF Redraws, webVars
  <2>2. ui \in Screens(jobs) /\ pressed \in Docs \union {NoDoc} /\ Reads(ui, jobs, pressed)
    BY DEF ScreenInv
  <2>3. ui.mode = "WebUi" => ui'.mode = "WebUi"
    BY <2>1, <2>2, PressKeeps
  <2>4. QED
    BY <2>1, <2>3 DEF Served, SessionSteps
<1>3. CASE SyncFromInbox
  <2>1. ui.mode = "Inbox" /\ SyncsOverWifi /\ ui' = ui
    BY <1>3 DEF SyncFromInbox, SyncPass
  <2>2. serving = "off" /\ serving' = serving
    BY <2>1 DEF Served, SyncsOverWifi
  <2>3. QED
    BY <2>1, <2>2 DEF Served, SessionSteps
<1>4. CASE StartsServing
  <2>1. (StationStarts \/ HotspotStarts(settings.bridge)) /\ ui' = [ui EXCEPT !.mode = "WebUi"]
    BY <1>4 DEF StartsServing
  <2>2. ui \in Screens(jobs)
    BY DEF ScreenInv
  <2>3. ui'.mode = "WebUi"
    BY <2>1, <2>2 DEF Screens
  <2>4. QED
    BY <2>1, <2>3 DEF Served, SessionSteps
<1>5. CASE CannotServe
  <2>1. (StationFails \/ HotspotFails) /\ ui' = ui /\ serving' = "off"
    BY <1>5 DEF CannotServe, StationFails, HotspotFails, screenVars
  <2>2. QED
    BY <2>1 DEF Served, SessionSteps
<1>6. CASE WebUiStop
  <2>1. Stopped /\ serving' = "off"
    BY <1>6 DEF WebUiStop, Leaves, Stopped, webVars
  <2>2. QED
    BY <2>1 DEF Served, SessionSteps
<1>7. CASE PhoneLogsIn
  <2>1. LogsIn /\ ui' = ui /\ serving' = serving
    BY <1>7 DEF PhoneLogsIn, LogsIn, screenVars
  <2>2. QED
    BY <2>1 DEF Served, SessionSteps
<1>8. CASE PhoneAsks \/ UNCHANGED <<screenVars, webVars>>
  <2>1. UNCHANGED webVars /\ ui' = ui
    BY <1>8 DEF PhoneAsks, Answers, screenVars
  <2>2. serving' = serving
    BY <2>1 DEF webVars
  <2>3. QED
    BY <2>1, <2>2 DEF Served, SessionSteps
<1>9. CASE SleepsAndBoots
  <2>1. WebResets /\ serving' = "off"
    BY <1>9 DEF SleepsAndBoots, WebResets
  <2>2. QED
    BY <2>1 DEF Served, SessionSteps
<1>10. QED
  BY <1>1, <1>2, <1>3, <1>4, <1>5, <1>6, <1>7, <1>8, <1>9 DEF ScreensNext, ElsewhereSteps

-----------------------------------------------------------------------------
(* Theorems                                                                  *)

ScreensInv == StoreInv /\ ScreenInv /\ WebInv /\ Served

LEMMA ScreensInitInv == ScreensAssumption /\ SessionAssumption /\ ScreensInit => ScreensInv
<1> SUFFICES ASSUME ScreensAssumption, SessionAssumption, ScreensInit PROVE ScreensInv
  OBVIOUS
<1>1. <<>> \in Inboxes
  <2>1. <<>> \in Seq(Entries) /\ Len(<<>>) = 0
    BY EmptySeq
  <2>2. QED
    BY <2>1 DEF Inboxes, ScreensAssumption
<1>2. StoreInv
  <2>1. IsFiniteSet({}) /\ Cardinality({}) = 0 /\ MaxOutbox \in Nat
    BY FS_EmptySet DEF ScreensAssumption
  <2>2. QED
    BY <1>1, <2>1 DEF ScreensInit, StoreInv
<1>3. ScreenInv
  BY <1>1, FirstScreenFits DEF ScreensInit, ScreenInv
<1>4. WebInv
  <2>1. 0 \in 0..MaxSessions /\ {} \subseteq 1..MaxSessions
    BY DEF SessionAssumption
  <2>2. /\ serving = "off" /\ radio = "off" /\ token = 0 /\ minted = 0 /\ cookies = {}
        /\ bridged = FALSE /\ proved = FALSE
    BY DEF ScreensInit, WebInit
  <2>3. WebTypeOK
    <3>1. bridged \in BOOLEAN /\ proved \in BOOLEAN
      BY <2>2, Zenon
    <3>2. QED
      BY <2>1, <2>2, <3>1 DEF WebTypeOK
  <2>4. token <= minted /\ cookies \subseteq 1..minted /\ token \notin cookies
    BY <2>2
  <2>5. QED
    BY <2>2, <2>3, <2>4 DEF WebInv
<1>5. Served
  BY DEF ScreensInit, WebInit, Served
<1>6. QED
  BY <1>2, <1>3, <1>4, <1>5 DEF ScreensInv

LEMMA ScreensStep ==
  ASSUME ScreensAssumption, SessionAssumption, ScreensInv, [ScreensNext]_<<screenVars, webVars>>
  PROVE  ScreensInv'
<1>1. StoreInv /\ ScreenInv /\ WebInv /\ Served
  BY DEF ScreensInv
<1>2. StoreKept
  BY <1>1, StoreStep
<1>3. ScreenInv'
  BY <1>1, <1>2, ScreenStep
<1>4. Served' /\ SessionSteps
  BY <1>1, ServedStep
<1>5. WebInv'
  BY <1>1, <1>4, WebInvStep
<1>6. QED
  BY <1>2, <1>3, <1>4, <1>5 DEF ScreensInv, StoreKept

LEMMA ScreensAlways == ScreensSpec => []ScreensInv
<1>1. ScreensInit => ScreensInv
  BY ScreensInitInv, ScreensAssumption, SessionAssumption
<1>2. ScreensInv /\ [ScreensNext]_<<screenVars, webVars>> => ScreensInv'
  BY ScreensStep, ScreensAssumption, SessionAssumption
<1>3. QED
  BY <1>1, <1>2, PTL DEF ScreensSpec

LEMMA ScreensAreTyped == ScreensInv => ScreensTypeOK
<1> SUFFICES ASSUME ScreensInv PROVE ScreensTypeOK
  OBVIOUS
<1>1. jobs \in Seq(Entries) /\ Len(jobs) <= MaxInbox /\ Len(jobs) \in Nat
  BY IndexFacts DEF ScreensInv, StoreInv
<1>2. rows \in Seq([at : 1..Len(jobs), id : Docs])
  <2>1. rows \in Seq(RowsFor(jobs))
    BY DEF ScreensInv, ScreenInv
  <2>2. Len(rows) \in Nat /\ rows \in [1..Len(rows) -> RowsFor(jobs)]
    BY <2>1, LenProperties
  <2>3. RowsFor(jobs) \subseteq [at : 1..Len(jobs), id : Docs]
    BY DEF RowsFor
  <2>4. rows \in [1..Len(rows) -> [at : 1..Len(jobs), id : Docs]]
    BY <2>2, <2>3
  <2>5. QED
    BY <2>2, <2>4, SeqDef
<1>3. QED
  BY <1>1, <1>2 DEF ScreensInv, StoreInv, ScreenInv, WebInv, ScreensTypeOK, Screens, Entries

\* The index and the outbox stay within their arrays, every row on the display
\* names a document of the index, and the selection is one of its positions.
THEOREM ScreensTypeCorrect == ScreensSpec => []ScreensTypeOK
BY ScreensAreTyped, ScreensAlways, PTL

\* However many documents a pass or a phone brings between the frame and the
\* press, the reader opens the one the pressed row named.
THEOREM ReaderIsForTheRowPressedHolds == ScreensSpec => []ReaderIsForTheRowPressed
<1>1. ScreensInv => ReaderIsForTheRowPressed
  BY DEF ScreensInv, ScreenInv, Reads, ReaderIsForTheRowPressed
<1>2. QED
  BY <1>1, ScreensAlways, PTL

\* The page asked for is one of the open file, whatever file was open before.
THEOREM PageIsInTheFileHolds == ScreensSpec => []PageIsInTheFile
<1>1. ScreensInv => PageIsInTheFile
  BY DEF ScreensInv, ScreenInv, Reads, PageIsInTheFile
<1>2. QED
  BY <1>1, ScreensAlways, PTL

\* An open session has its screen and a radio that carries it, through every
\* failed start, failed bridge, sleep and reset.
THEOREM SessionIsServedHolds == ScreensSpec => []SessionIsServed
<1>1. ScreensInv => SessionIsServed
  BY DEF ScreensInv, WebInv, Served, SessionIsServed
<1>2. QED
  BY <1>1, ScreensAlways, PTL

\* No cookie of any earlier session opens this one.
THEOREM AdmittedByThisPinHolds == ScreensSpec => []AdmittedByThisPin
<1>1. ScreensInv => AdmittedByThisPin
  BY DEF ScreensInv, WebInv, AdmittedByThisPin, MayAsk, LetsIn
<1>2. QED
  BY <1>1, ScreensAlways, PTL
===============================================================================
