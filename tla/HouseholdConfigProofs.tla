------------------------ MODULE HouseholdConfigProofs -------------------------
(***************************************************************************)
(* Theorems about HouseholdConfig, for every number of console requests,   *)
(* every set of networks and every capacity of the device's lists.         *)
(***************************************************************************)
EXTENDS HouseholdConfig, FiniteSetTheorems, SequenceTheorems, WellFoundedInduction, TLAPS

-----------------------------------------------------------------------------
(* Lists                                                                   *)

LEMMA RemoveAtDrops ==
  ASSUME NEW S, NEW s \in Seq(S), NEW i \in DOMAIN s
  PROVE  /\ RemoveAt(s, i) \in Seq(S) /\ Len(RemoveAt(s, i)) = Len(s) - 1
         /\ \A j \in DOMAIN RemoveAt(s, i) : \E k \in DOMAIN s : k # i /\ RemoveAt(s, i)[j] = s[k]
         /\ \A k \in DOMAIN s : k # i => \E j \in DOMAIN RemoveAt(s, i) : RemoveAt(s, i)[j] = s[k]
<1> DEFINE a == SubSeq(s, 1, i - 1)
           b == SubSeq(s, i + 1, Len(s))
<1>1. Len(s) \in Nat /\ DOMAIN s = 1..Len(s) /\ i \in 1..Len(s) /\ \A k \in 1..Len(s) : s[k] \in S
  BY LenProperties, ElementOfSeq
<1>2. a \in Seq(S) /\ Len(a) = i - 1 /\ \A k \in 1..(i - 1) : a[k] = s[k]
  <2>1. \A k \in 1..(i - 1) : s[k] \in S
    BY <1>1
  <2>2. QED
    BY <1>1, <2>1, SubSeqProperties
<1>3. b \in Seq(S) /\ Len(b) = Len(s) - i /\ \A k \in 1..(Len(s) - i) : b[k] = s[i + k]
  <2>1. \A k \in (i + 1)..Len(s) : s[k] \in S
    BY <1>1
  <2>2. /\ b \in Seq(S) /\ Len(b) = IF i + 1 <= Len(s) THEN Len(s) - (i + 1) + 1 ELSE 0
        /\ \A k \in 1..(Len(s) - (i + 1) + 1) : b[k] = s[(i + 1) + k - 1]
    BY <1>1, <2>1, SubSeqProperties
  <2> HIDE DEF b
  <2>3. Len(b) = Len(s) - i /\ Len(s) - (i + 1) + 1 = Len(s) - i
    BY <1>1, <2>2
  <2>4. ASSUME NEW k \in 1..(Len(s) - i) PROVE b[k] = s[i + k]
    <3>1. b[k] = s[(i + 1) + k - 1]
      BY <2>2, <2>3
    <3>2. (i + 1) + k - 1 = i + k
      BY <1>1
    <3>3. QED
      BY <3>1, <3>2
  <2>5. QED
    BY <2>2, <2>3, <2>4
<1> HIDE DEF a, b
<1>4. /\ a \o b \in Seq(S) /\ Len(a \o b) = Len(s) - 1
      /\ \A j \in 1..(Len(s) - 1) : (a \o b)[j] = IF j < i THEN s[j] ELSE s[j + 1]
  <2>1. /\ a \o b \in Seq(S) /\ Len(a \o b) = Len(a) + Len(b)
        /\ \A j \in 1..(Len(a) + Len(b)) : (a \o b)[j] = IF j <= Len(a) THEN a[j] ELSE b[j - Len(a)]
    BY <1>2, <1>3, ConcatProperties
  <2>2. ASSUME NEW j \in 1..(Len(s) - 1) PROVE (a \o b)[j] = IF j < i THEN s[j] ELSE s[j + 1]
    <3>1. CASE j < i
      BY <1>1, <1>2, <1>3, <2>1, <3>1
    <3>2. CASE ~(j < i)
      <4>1. (a \o b)[j] = b[j - (i - 1)] /\ j - (i - 1) \in 1..(Len(s) - i)
        BY <1>1, <1>2, <1>3, <2>1, <3>2
      <4>2. b[j - (i - 1)] = s[i + (j - (i - 1))] /\ i + (j - (i - 1)) = j + 1
        BY <1>1, <1>3, <4>1
      <4>3. QED
        BY <3>2, <4>1, <4>2
    <3>3. QED
      BY <3>1, <3>2
  <2>3. QED
    BY <1>1, <1>2, <1>3, <2>1, <2>2
<1>5. RemoveAt(s, i) = a \o b
  BY DEF RemoveAt, a, b
<1> DEFINE rest == RemoveAt(s, i)
<1>6. rest \in Seq(S) /\ Len(rest) = Len(s) - 1 /\ DOMAIN rest = 1..(Len(s) - 1)
  BY <1>4, <1>5, LenProperties
<1>7. \A j \in 1..(Len(s) - 1) : rest[j] = IF j < i THEN s[j] ELSE s[j + 1]
  BY <1>4, <1>5
<1> HIDE DEF rest
<1>8. ASSUME NEW j \in DOMAIN rest PROVE \E k \in DOMAIN s : k # i /\ rest[j] = s[k]
  <2>1. CASE j < i
    BY <1>1, <1>6, <1>7, <2>1
  <2>2. CASE ~(j < i)
    <3>1. j + 1 \in DOMAIN s /\ j + 1 # i /\ rest[j] = s[j + 1]
      BY <1>1, <1>6, <1>7, <2>2
    <3>2. QED
      BY <3>1
  <2>3. QED
    BY <2>1, <2>2
<1>9. ASSUME NEW k \in DOMAIN s, k # i PROVE \E j \in DOMAIN rest : rest[j] = s[k]
  <2>1. CASE k < i
    <3>1. k \in DOMAIN rest /\ rest[k] = s[k]
      BY <1>1, <1>6, <1>7, <2>1
    <3>2. QED
      BY <3>1
  <2>2. CASE k > i
    <3>1. k - 1 \in DOMAIN rest /\ rest[k - 1] = s[k]
      BY <1>1, <1>6, <1>7, <2>2
    <3>2. QED
      BY <3>1
  <2>3. QED
    BY <1>1, <1>9, <2>1, <2>2
<1>10. QED
  BY <1>6, <1>8, <1>9 DEF rest

\* The first of a list.
LEMMA FirstOfKeeps ==
  ASSUME NEW S, NEW s \in Seq(S), NEW n \in Nat
  PROVE  /\ FirstOf(s, n) \in Seq(S) /\ Len(FirstOf(s, n)) <= n
         /\ \A j \in DOMAIN FirstOf(s, n) : j \in DOMAIN s /\ FirstOf(s, n)[j] = s[j]
<1> DEFINE m == IF Len(s) < n THEN Len(s) ELSE n
<1>1. Len(s) \in Nat /\ DOMAIN s = 1..Len(s) /\ m \in Nat /\ m <= n /\ m <= Len(s)
      /\ \A k \in 1..Len(s) : s[k] \in S
  BY LenProperties, ElementOfSeq
<1>2. FirstOf(s, n) = SubSeq(s, 1, m)
  BY DEF FirstOf
<1> HIDE DEF m
<1>3. \A k \in 1..m : s[k] \in S
  BY <1>1
<1>4. /\ SubSeq(s, 1, m) \in Seq(S) /\ Len(SubSeq(s, 1, m)) = IF 1 <= m THEN m - 1 + 1 ELSE 0
      /\ \A k \in 1..(m - 1 + 1) : SubSeq(s, 1, m)[k] = s[1 + k - 1]
  BY <1>1, <1>3, SubSeqProperties
<1>5. Len(SubSeq(s, 1, m)) = m /\ \A k \in 1..m : SubSeq(s, 1, m)[k] = s[k]
  BY <1>1, <1>4
<1>6. DOMAIN SubSeq(s, 1, m) = 1..m
  BY <1>4, <1>5, LenProperties
<1>7. QED
  BY <1>1, <1>2, <1>4, <1>5, <1>6

\* A network is put where the list names it, or at the end.
LEMMA PutDoes ==
  ASSUME NEW list \in Seq(Networks), NEW n \in Networks
  PROVE  /\ Put(list, n) \in Seq(Networks)
         /\ Len(Put(list, n)) = IF n.ssid \in SsidsOf(list) THEN Len(list) ELSE Len(list) + 1
         /\ SsidsOf(Put(list, n)) = SsidsOf(list) \union {n.ssid}
         /\ \A i \in DOMAIN Put(list, n) :
              Put(list, n)[i] = n \/ (i \in DOMAIN list /\ Put(list, n)[i] = list[i])
         /\ \A i \in DOMAIN list :
              i \in DOMAIN Put(list, n) /\ (list[i].ssid # n.ssid => Put(list, n)[i] = list[i])
         /\ \E i \in DOMAIN Put(list, n) : Put(list, n)[i] = n
<1>1. Len(list) \in Nat /\ DOMAIN list = 1..Len(list) /\ \A k \in 1..Len(list) : list[k] \in Networks
  BY LenProperties, ElementOfSeq
<1>2. CASE n.ssid \in SsidsOf(list)
  <2> DEFINE new == [i \in DOMAIN list |-> IF list[i].ssid = n.ssid THEN n ELSE list[i]]
  <2>1. Put(list, n) = new
    BY <1>2 DEF Put
  <2>2. DOMAIN new = 1..Len(list)
    BY <1>1
  <2>3. \A i \in 1..Len(list) : new[i] = IF list[i].ssid = n.ssid THEN n ELSE list[i]
    BY <1>1
  <2>4. new \in [1..Len(list) -> Networks]
    BY <1>1
  <2> HIDE DEF new
  <2>5. new \in Seq(Networks)
    BY <1>1, <2>4, SeqDef
  <2>6. Len(new) = Len(list)
    BY <1>1, <2>2, <2>5, LenProperties
  <2>7. PICK k \in DOMAIN list : list[k].ssid = n.ssid
    BY <1>2 DEF SsidsOf
  <2>8. SsidsOf(new) = SsidsOf(list)
    <3>1. \A i \in 1..Len(list) : new[i].ssid = list[i].ssid
      BY <2>3
    <3>2. QED
      BY <1>1, <2>2, <3>1 DEF SsidsOf
  <2>9. k \in DOMAIN new /\ new[k] = n
    BY <1>1, <2>2, <2>3, <2>7
  <2>10. QED
    BY <1>1, <1>2, <2>1, <2>2, <2>3, <2>5, <2>6, <2>8, <2>9
<1>3. CASE n.ssid \notin SsidsOf(list)
  <2> DEFINE new == Append(list, n)
  <2>1. Put(list, n) = new
    BY <1>3 DEF Put
  <2>2. new \in Seq(Networks) /\ Len(new) = Len(list) + 1
        /\ (\A i \in 1..Len(list) : new[i] = list[i]) /\ new[Len(list) + 1] = n
    BY AppendProperties
  <2> HIDE DEF new
  <2>3. DOMAIN new = 1..(Len(list) + 1)
    BY <2>2, LenProperties
  <2>4. \A i \in DOMAIN new : i = Len(list) + 1 \/ i \in DOMAIN list
    BY <1>1, <2>3
  <2>5. DOMAIN list \subseteq DOMAIN new /\ Len(list) + 1 \in DOMAIN new
    BY <1>1, <2>3
  <2>6. SsidsOf(new) = SsidsOf(list) \union {n.ssid}
    BY <1>1, <2>2, <2>4, <2>5 DEF SsidsOf
  <2>7. QED
    BY <1>1, <1>3, <2>1, <2>2, <2>4, <2>5, <2>6
<1>4. QED
  BY <1>2, <1>3

-----------------------------------------------------------------------------
(* The merge is a loop; its rounds define a function, and stay in every set *)
(* of lists that one round stays in.                                        *)

\* A set of numbers that is not empty has a least one.
LEMMA LeastElement ==
  ASSUME NEW T \in SUBSET Nat, T # {}
  PROVE  \E n \in T : \A m \in T : n <= m
<1>1. \E n \in T : \A m \in T : <<m, n>> \notin OpToRel(<, Nat)
  BY WFMin, NatLessThanWellFounded
<1>2. OpToRel(<, Nat) = {p \in Nat \X Nat : p[1] < p[2]}
  BY Zenon DEF OpToRel
<1>3. \E n \in T : \A m \in T : <<m, n>> \notin {p \in Nat \X Nat : p[1] < p[2]}
  BY <1>1, <1>2, Zenon
<1>4. PICK n \in T : \A m \in T : <<m, n>> \notin {p \in Nat \X Nat : p[1] < p[2]}
  BY <1>3
<1>5. ASSUME NEW m \in T PROVE n <= m
  <2>1. m \in Nat /\ n \in Nat /\ <<m, n>> \notin {p \in Nat \X Nat : p[1] < p[2]}
    BY <1>4
  <2>2. QED
    BY <2>1
<1>6. QED
  BY <1>5

LEMMA MergeDefined ==
  ASSUME NEW own, NEW others, NEW most \in Nat
  PROVE  \E f : f = [i \in 0..most |-> IF i = 0 THEN own ELSE AddOrUpdate(f[i - 1], others[i])]
<1> DEFINE Rounds(f, k) == f = [i \in 0..k |-> IF i = 0 THEN own ELSE AddOrUpdate(f[i - 1], others[i])]
           Undefined == {k \in 0..most : ~ \E f : Rounds(f, k)}
<1> SUFFICES ASSUME Undefined # {} PROVE FALSE
  OBVIOUS
<1>0. Undefined \in SUBSET Nat
  OBVIOUS
<1> HIDE DEF Undefined
<1>1. PICK k \in Undefined : \A m \in Undefined : k <= m
  BY <1>0, LeastElement
<1> USE DEF Undefined
<1>2. k # 0
  <2> DEFINE f == [i \in 0..0 |-> own]
  <2>1. Rounds(f, 0)
    OBVIOUS
  <2>2. QED
    BY <2>1, <1>1
<1>3. k \in Nat \ {0} /\ k - 1 \in 0..most /\ k - 1 \notin Undefined
  BY <1>1, <1>2
<1>4. PICK g : Rounds(g, k - 1)
  BY <1>3
<1> DEFINE h == [i \in 0..k |-> IF i = k THEN AddOrUpdate(g[k - 1], others[k]) ELSE g[i]]
<1>5. \A i \in 0..(k - 1) : h[i] = g[i]
  BY <1>3
<1>6. \A i \in 0..k : h[i] = IF i = 0 THEN own ELSE AddOrUpdate(h[i - 1], others[i])
  <2> SUFFICES ASSUME NEW i \in 0..k
               PROVE  h[i] = IF i = 0 THEN own ELSE AddOrUpdate(h[i - 1], others[i])
    OBVIOUS
  <2>1. CASE i = k
    BY <2>1, <1>3, <1>5
  <2>2. CASE i # k
    <3>1. i \in 0..(k - 1) /\ h[i] = g[i]
      BY <2>2, <1>3, <1>5
    <3>2. i # 0 => i - 1 \in 0..(k - 1) /\ h[i - 1] = g[i - 1]
      BY <3>1, <1>3, <1>5
    <3>3. g[i] = IF i = 0 THEN own ELSE AddOrUpdate(g[i - 1], others[i])
      BY <1>4, <3>1
    <3>4. QED
      BY <3>1, <3>2, <3>3
  <2>3. QED
    BY <2>1, <2>2
<1>7. Rounds(h, k)
  BY <1>6
<1>8. QED
  BY <1>7, <1>1

LEMMA MergeStays ==
  ASSUME NEW S, NEW T, NEW own \in S, NEW others \in Seq(T),
         \A list \in S, n \in T : AddOrUpdate(list, n) \in S
  PROVE  MergeInto(own, others) \in S
<1> DEFINE most == Len(others)
           merged == CHOOSE f : f = [i \in 0..most |->
                       IF i = 0 THEN own ELSE AddOrUpdate(f[i - 1], others[i])]
<1>0. most \in Nat /\ \A i \in 1..most : others[i] \in T
  BY LenProperties, ElementOfSeq
<1>1. merged = [i \in 0..most |-> IF i = 0 THEN own ELSE AddOrUpdate(merged[i - 1], others[i])]
  BY <1>0, MergeDefined
<1>2. MergeInto(own, others) = merged[most]
  BY DEF MergeInto
<1> HIDE DEF merged, most
<1> DEFINE Outside == {i \in 0..most : merged[i] \notin S}
<1>3. Outside = {}
  <2> SUFFICES ASSUME Outside # {} PROVE FALSE
    OBVIOUS
  <2>0. Outside \in SUBSET Nat
    OBVIOUS
  <2> HIDE DEF Outside
  <2>1. PICK i \in Outside : \A m \in Outside : i <= m
    BY <2>0, LeastElement
  <2> USE DEF Outside
  <2>2. i # 0
    BY <1>1, <2>1
  <2>3. i \in 1..most /\ i - 1 \in 0..most /\ merged[i - 1] \in S
    BY <1>0, <2>1, <2>2
  <2>4. merged[i] = AddOrUpdate(merged[i - 1], others[i])
    BY <1>1, <2>1, <2>2
  <2>5. QED
    BY <1>0, <2>1, <2>3, <2>4
<1>4. QED
  BY <1>0, <1>2, <1>3

\* The owner's network is in the list, or nothing else has its name.
Holds(list) == \E i \in DOMAIN list : list[i] = OwnNetwork
Clean(list) == \A i \in DOMAIN list : list[i].ssid = OwnNetwork.ssid => list[i] = OwnNetwork
CleanNetworks == {n \in Networks : n.ssid = OwnNetwork.ssid => n = OwnNetwork}
Fitting == {list \in Seq(Networks) : Len(list) <= MaxNetworks}

\* One network more leaves the list within the capacity, and the owner's
\* network in it unless another password comes for it.
LEMMA AddOrUpdateKeeps ==
  ASSUME HouseholdAssumption, NEW list \in Fitting, NEW n \in Networks
  PROVE  /\ AddOrUpdate(list, n) \in Fitting
         /\ Holds(list) /\ n \in CleanNetworks => Holds(AddOrUpdate(list, n))
<1>1. list \in Seq(Networks) /\ Len(list) \in Nat /\ Len(list) <= MaxNetworks /\ MaxNetworks \in Nat
  BY LenProperties DEF Fitting, HouseholdAssumption
<1>2. CASE n.ssid \in SsidsOf(list) \/ Len(list) < MaxNetworks
  <2>1. AddOrUpdate(list, n) = Put(list, n)
    BY <1>2 DEF AddOrUpdate
  <2>2. /\ Put(list, n) \in Seq(Networks)
        /\ Len(Put(list, n)) = IF n.ssid \in SsidsOf(list) THEN Len(list) ELSE Len(list) + 1
    BY <1>1, PutDoes
  <2>3. Put(list, n) \in Fitting
    BY <1>1, <1>2, <2>2 DEF Fitting
  <2>4. ASSUME Holds(list), n \in CleanNetworks PROVE Holds(Put(list, n))
    <3>1. PICK i \in DOMAIN list : list[i] = OwnNetwork
      BY <2>4 DEF Holds
    <3>2. CASE n = OwnNetwork
      <4>1. \E k \in DOMAIN Put(list, n) : Put(list, n)[k] = n
        BY <1>1, PutDoes
      <4>2. QED
        BY <3>2, <4>1 DEF Holds
    <3>3. CASE n # OwnNetwork
      <4>1. list[i].ssid # n.ssid
        BY <2>4, <3>1, <3>3 DEF CleanNetworks
      <4>2. i \in DOMAIN Put(list, n) /\ Put(list, n)[i] = list[i]
        BY <1>1, <4>1, PutDoes
      <4>3. QED
        BY <3>1, <4>2 DEF Holds
    <3>4. QED
      BY <3>2, <3>3
  <2>5. QED
    BY <2>1, <2>3, <2>4
<1>3. CASE ~(n.ssid \in SsidsOf(list) \/ Len(list) < MaxNetworks)
  <2>1. AddOrUpdate(list, n) = list
    BY <1>3 DEF AddOrUpdate
  <2>2. QED
    BY <2>1
<1>4. QED
  BY <1>2, <1>3

LEMMA MergeKeeps ==
  ASSUME HouseholdAssumption, NEW own \in Fitting, NEW others \in Seq(Networks)
  PROVE  /\ MergeInto(own, others) \in Fitting
         /\ Holds(own) /\ Clean(others) => Holds(MergeInto(own, others))
<1>1. MergeInto(own, others) \in Fitting
  <2>1. \A list \in Fitting, n \in Networks : AddOrUpdate(list, n) \in Fitting
    BY AddOrUpdateKeeps
  <2>2. QED
    BY <2>1, MergeStays
<1>2. ASSUME Holds(own), Clean(others) PROVE Holds(MergeInto(own, others))
  <2> DEFINE S == {list \in Fitting : Holds(list)}
  <2>1. \A list \in S, n \in CleanNetworks : AddOrUpdate(list, n) \in S
    BY AddOrUpdateKeeps DEF CleanNetworks
  <2>2. own \in S
    BY <1>2
  <2>3. others \in Seq(CleanNetworks)
    <3>1. /\ Len(others) \in Nat /\ others \in [1..Len(others) -> Networks]
          /\ DOMAIN others = 1..Len(others)
      BY LenProperties
    <3>2. \A i \in 1..Len(others) : others[i] \in CleanNetworks
      BY <1>2, <3>1 DEF Clean, CleanNetworks
    <3>3. others \in [1..Len(others) -> CleanNetworks]
      BY <3>1, <3>2
    <3>4. QED
      BY <3>1, <3>3, SeqDef
  <2> HIDE DEF S
  <2>4. MergeInto(own, others) \in S
    BY <2>1, <2>2, <2>3, MergeStays
  <2>5. QED
    BY <2>4 DEF S
<1>3. QED
  BY <1>1, <1>2

\* Removing another network on the device leaves the owner's, wherever it is.
LEMMA RemovedOnDevice ==
  ASSUME NEW list \in Seq(Networks), NEW ssid \in SsidsOf(list)
  PROVE  LET last == list[Len(list)]
             rest == [i \in 1 .. Len(list) - 1 |-> IF list[i].ssid = ssid THEN last ELSE list[i]]
         IN  /\ rest \in Seq(Networks) /\ Len(rest) = Len(list) - 1
             /\ Holds(list) /\ ssid # OwnNetwork.ssid => Holds(rest)
<1> DEFINE last == list[Len(list)]
           rest == [i \in 1 .. Len(list) - 1 |-> IF list[i].ssid = ssid THEN last ELSE list[i]]
<1>1. Len(list) \in Nat /\ DOMAIN list = 1..Len(list) /\ \A k \in 1..Len(list) : list[k] \in Networks
  BY LenProperties, ElementOfSeq
<1>2. PICK k \in DOMAIN list : list[k].ssid = ssid
  BY DEF SsidsOf
<1>3. Len(list) - 1 \in Nat /\ Len(list) \in 1..Len(list) /\ last \in Networks
  BY <1>1, <1>2
<1>4. rest \in [1..(Len(list) - 1) -> Networks]
  BY <1>1, <1>3
<1>5. \A i \in 1..(Len(list) - 1) : rest[i] = IF list[i].ssid = ssid THEN last ELSE list[i]
  OBVIOUS
<1>6. DOMAIN rest = 1..(Len(list) - 1)
  OBVIOUS
<1> HIDE DEF rest
<1>7. rest \in Seq(Networks)
  BY <1>3, <1>4, SeqDef
<1>8. Len(rest) = Len(list) - 1
  BY <1>3, <1>6, <1>7, LenProperties
<1>9. ASSUME Holds(list), ssid # OwnNetwork.ssid PROVE Holds(rest)
  <2>1. PICK i \in DOMAIN list : list[i] = OwnNetwork
    BY <1>9 DEF Holds
  <2>2. CASE i # Len(list)
    <3>1. i \in DOMAIN rest /\ rest[i] = list[i]
      BY <1>1, <1>5, <1>6, <1>9, <2>1, <2>2
    <3>2. QED
      BY <2>1, <3>1 DEF Holds
  <2>3. CASE i = Len(list)
    <3>1. k # i
      BY <1>2, <1>9, <2>1
    <3>2. k \in DOMAIN rest /\ rest[k] = last /\ last = OwnNetwork
      BY <1>1, <1>2, <1>5, <1>6, <2>1, <2>3, <3>1
    <3>3. QED
      BY <3>2 DEF Holds
  <2>4. QED
    BY <2>2, <2>3
<1>10. QED
  BY <1>7, <1>8, <1>9 DEF rest

-----------------------------------------------------------------------------
(* Types, and how much each list holds.                                    *)

Lists == [feeds : Seq(Nat), networks : Seq(Networks)]
Pulls == {"idle", "savingLast", "connected", "asked", "answered", "savingFeeds", "merge",
          "savingNetworks"}
Saving == {"savingLast", "savingNetworks"}

PiTypes ==
  /\ nextFeed \in Nat \ {0} /\ feeds \in Seq(Nat)
  /\ \A i \in DOMAIN feeds : feeds[i] \in 1 .. nextFeed - 1
  /\ networks \in Seq(Networks)
  /\ adding \in [Editors -> {"idle", "addFeed", "addWifi"}]
  /\ typed \in [Editors -> Networks \union {NoBody}]
  /\ \A a \in Editors : adding[a] = "addWifi" => typed[a] \in Networks

\* What is in memory came off the card or out of an answer: all of it fits.
DeviceTypes ==
  /\ onDevice \in Lists /\ onCard \in Lists /\ manifest \in Lists
  /\ Len(onDevice.feeds) <= MaxCalendars /\ Len(onDevice.networks) <= MaxNetworks
  /\ Len(onCard.feeds) <= MaxCalendars /\ Len(onCard.networks) <= MaxNetworks
  /\ pull = "answered" => Len(manifest.feeds) <= MaxCalendars
  /\ pull \in Pulls

CountTypes == edits \in 0 .. EditBound /\ lost \in BOOLEAN /\ mistyped \in BOOLEAN

\* The steps of the console, and the others.
ConsoleActs ==
  \/ \E a \in Editors : AddCalendar(a) \/ InsertFeed(a) \/ UpsertWifi(a)
  \/ \E a \in Editors, n \in Networks : AddWifi(a, n)
  \/ \E i \in DOMAIN feeds : DeleteCalendar(i)
  \/ \E i \in DOMAIN networks : DeleteWifi(i)
DeviceActs ==
  \/ ConnectToPi \/ PullFeeds \/ PullNetworks \/ ReplaceCalendars \/ FeedsSaved
  \/ MergeNetworks \/ NetworksSaved \/ PullFails \/ PowerLoss
  \/ \E ssid \in Ssids : RemoveOnDevice(ssid)

LEMMA TwoSides ==
  ASSUME [HhNext]_hhVars
  PROVE  \/ ConsoleActs /\ UNCHANGED <<onDevice, onCard, pull, manifest, lost>>
         \/ DeviceActs /\ UNCHANGED <<piLists, adding, typed, mistyped>>
         \/ UNCHANGED hhVars
<1>1. CASE ConsoleActs
  <2>1. UNCHANGED <<onDevice, onCard, pull, manifest, lost>>
    BY <1>1 DEF ConsoleActs, AddCalendar, InsertFeed, UpsertWifi, AddWifi, DeleteCalendar, DeleteWifi
  <2>2. QED
    BY <1>1, <2>1
<1>2. CASE DeviceActs
  <2>1. UNCHANGED <<piLists, adding, typed, mistyped>>
    BY <1>2 DEF DeviceActs, ConnectToPi, PullFeeds, PullNetworks, ReplaceCalendars, FeedsSaved,
                MergeNetworks, NetworksSaved, PullFails, PowerLoss, RemoveOnDevice
  <2>2. QED
    BY <1>2, <2>1
<1>3. QED
  BY <1>1, <1>2 DEF HhNext, PullStep, ConsoleStep, ConsoleActs, DeviceActs

LEMMA InsertedFeed ==
  ASSUME PiTypes
  PROVE  /\ Append(feeds, nextFeed) \in Seq(Nat) /\ Len(Append(feeds, nextFeed)) = Len(feeds) + 1
         /\ \A i \in DOMAIN Append(feeds, nextFeed) : Append(feeds, nextFeed)[i] \in 1..nextFeed
<1>1. /\ feeds \in Seq(Nat) /\ nextFeed \in Nat \ {0} /\ Len(feeds) \in Nat
      /\ DOMAIN feeds = 1..Len(feeds) /\ \A i \in 1..Len(feeds) : feeds[i] \in 1 .. nextFeed - 1
  BY LenProperties DEF PiTypes
<1> DEFINE new == Append(feeds, nextFeed)
<1>2. /\ new \in Seq(Nat) /\ Len(new) = Len(feeds) + 1
      /\ (\A i \in 1..Len(feeds) : new[i] = feeds[i]) /\ new[Len(feeds) + 1] = nextFeed
  BY <1>1, AppendProperties
<1> HIDE DEF new
<1>3. DOMAIN new = 1..(Len(feeds) + 1)
  BY <1>2, LenProperties
<1>4. ASSUME NEW i \in DOMAIN new PROVE new[i] \in 1..nextFeed
  <2>1. CASE i = Len(feeds) + 1
    BY <1>1, <1>2, <2>1
  <2>2. CASE i # Len(feeds) + 1
    <3>1. i \in 1..Len(feeds)
      BY <1>1, <1>3, <2>2
    <3>2. QED
      BY <1>1, <1>2, <3>1
  <2>3. QED
    BY <2>1, <2>2
<1>5. QED
  BY <1>2, <1>4 DEF new

LEMMA PiTypesStep == PiTypes /\ [HhNext]_hhVars => PiTypes'
<1> SUFFICES ASSUME PiTypes, [HhNext]_hhVars PROVE PiTypes'
  OBVIOUS
<1>1. ASSUME NEW a \in Editors, AddCalendar(a) PROVE PiTypes'
  BY <1>1 DEF AddCalendar, PiTypes, piLists
<1>2. ASSUME NEW a \in Editors, InsertFeed(a) PROVE PiTypes'
  <2>1. /\ feeds' = Append(feeds, nextFeed) /\ nextFeed' = nextFeed + 1
        /\ adding' = [adding EXCEPT ![a] = "idle"] /\ UNCHANGED <<networks, typed>>
    BY <1>2 DEF InsertFeed
  <2>2. feeds' \in Seq(Nat) /\ \A i \in DOMAIN feeds' : feeds'[i] \in 1..nextFeed
    BY <2>1, InsertedFeed
  <2>3. nextFeed' \in Nat \ {0} /\ nextFeed' - 1 = nextFeed
    BY <2>1 DEF PiTypes
  <2>4. QED
    BY <2>1, <2>2, <2>3 DEF PiTypes
<1>3. ASSUME NEW a \in Editors, UpsertWifi(a) PROVE PiTypes'
  <2>1. /\ networks' = Put(networks, typed[a]) /\ adding' = [adding EXCEPT ![a] = "idle"]
        /\ typed' = [typed EXCEPT ![a] = NoBody] /\ adding[a] = "addWifi"
        /\ UNCHANGED <<feeds, nextFeed>>
    BY <1>3 DEF UpsertWifi
  <2>2. networks' \in Seq(Networks)
    BY <2>1, PutDoes DEF PiTypes
  <2>3. QED
    BY <2>1, <2>2 DEF PiTypes
<1>4. ASSUME NEW a \in Editors, NEW n \in Networks, AddWifi(a, n) PROVE PiTypes'
  BY <1>4 DEF AddWifi, PiTypes, piLists
<1>5. ASSUME NEW i \in DOMAIN feeds, DeleteCalendar(i) PROVE PiTypes'
  <2>1. feeds' = RemoveAt(feeds, i) /\ UNCHANGED <<nextFeed, networks, adding, typed>>
    BY <1>5 DEF DeleteCalendar
  <2>2. feeds' \in Seq(Nat) /\ \A j \in DOMAIN feeds' : \E k \in DOMAIN feeds : feeds'[j] = feeds[k]
    BY <2>1, RemoveAtDrops DEF PiTypes
  <2>3. QED
    BY <2>1, <2>2 DEF PiTypes
<1>6. ASSUME NEW i \in DOMAIN networks, DeleteWifi(i) PROVE PiTypes'
  <2>1. networks' = RemoveAt(networks, i) /\ UNCHANGED <<feeds, nextFeed, adding, typed>>
    BY <1>6 DEF DeleteWifi
  <2>2. networks' \in Seq(Networks)
    BY <2>1, RemoveAtDrops DEF PiTypes
  <2>3. QED
    BY <2>1, <2>2 DEF PiTypes
<1>7. CASE UNCHANGED <<piLists, adding, typed, mistyped>> \/ UNCHANGED hhVars
  BY <1>7 DEF PiTypes, piLists, hhVars
<1>8. QED
  BY <1>1, <1>2, <1>3, <1>4, <1>5, <1>6, <1>7, TwoSides DEF ConsoleActs

LEMMA ListsChange ==
  ASSUME NEW l \in Lists
  PROVE  /\ l.feeds \in Seq(Nat) /\ l.networks \in Seq(Networks)
         /\ Len(l.feeds) \in Nat /\ Len(l.networks) \in Nat
         /\ \A s \in Seq(Nat) : LET m == [l EXCEPT !.feeds = s]
                                IN m \in Lists /\ m.feeds = s /\ m.networks = l.networks
         /\ \A s \in Seq(Networks) : LET m == [l EXCEPT !.networks = s]
                                     IN m \in Lists /\ m.networks = s /\ m.feeds = l.feeds
<1>1. l.feeds \in Seq(Nat) /\ l.networks \in Seq(Networks)
  BY DEF Lists
<1>2. QED
  BY <1>1, LenProperties DEF Lists

\* An empty list is of every kind and fits everywhere.
LEMMA NothingFits ==
  <<>> \in Seq(Nat) /\ <<>> \in Seq(Networks) /\ Len(<<>>) = 0 /\ NoManifest \in Lists
<1>1. <<>> \in Seq(Nat) /\ <<>> \in Seq(Networks) /\ Len(<<>>) = 0
  BY EmptySeq
<1>2. QED
  BY <1>1 DEF NoManifest, Lists

\* A file that was removed holds nothing; the other one stays as it is.
LEMMA Emptied ==
  ASSUME NEW l \in Lists
  PROVE  /\ LET m == [l EXCEPT !.feeds = <<>>]
            IN m \in Lists /\ Len(m.feeds) = 0 /\ m.networks = l.networks
         /\ LET m == [l EXCEPT !.networks = <<>>]
            IN m \in Lists /\ Len(m.networks) = 0 /\ m.feeds = l.feeds
<1>1. <<>> \in Seq(Nat) /\ <<>> \in Seq(Networks) /\ Len(<<>>) = 0
  BY NothingFits
<1> DEFINE m == [l EXCEPT !.feeds = <<>>]
           n == [l EXCEPT !.networks = <<>>]
<1>2. m \in Lists /\ m.feeds = <<>> /\ m.networks = l.networks
  BY <1>1, ListsChange
<1>3. n \in Lists /\ n.networks = <<>> /\ n.feeds = l.feeds
  BY <1>1, ListsChange
<1>4. QED
  BY <1>1, <1>2, <1>3

LEMMA CountTypesStep == HouseholdAssumption /\ CountTypes /\ [HhNext]_hhVars => CountTypes'
<1> SUFFICES ASSUME HouseholdAssumption, CountTypes, [HhNext]_hhVars PROVE CountTypes'
  OBVIOUS
<1>1. edits' \in 0 .. EditBound
  <2>1. CASE ConsoleActs
    BY <2>1 DEF ConsoleActs, AddCalendar, InsertFeed, UpsertWifi, AddWifi, DeleteCalendar, DeleteWifi,
                Edit, CountTypes, HouseholdAssumption
  <2>2. CASE DeviceActs
    BY <2>2 DEF DeviceActs, ConnectToPi, PullFeeds, PullNetworks, ReplaceCalendars, FeedsSaved,
                MergeNetworks, NetworksSaved, PullFails, PowerLoss, RemoveOnDevice, Edit, CountTypes,
                HouseholdAssumption
  <2>3. QED
    BY <2>1, <2>2, TwoSides DEF CountTypes, hhVars
<1>2. lost' \in BOOLEAN
  <2>1. CASE DeviceActs
    BY <2>1 DEF DeviceActs, ConnectToPi, PullFeeds, PullNetworks, ReplaceCalendars, FeedsSaved,
                MergeNetworks, NetworksSaved, PullFails, PowerLoss, RemoveOnDevice, CountTypes
  <2>2. QED
    BY <2>1, TwoSides DEF CountTypes, hhVars
<1>3. mistyped' \in BOOLEAN
  <2>1. CASE ConsoleActs
    BY <2>1 DEF ConsoleActs, AddCalendar, InsertFeed, UpsertWifi, AddWifi, DeleteCalendar, DeleteWifi,
                CountTypes
  <2>2. QED
    BY <2>1, TwoSides DEF CountTypes, hhVars
<1>4. QED
  BY <1>1, <1>2, <1>3 DEF CountTypes

LEMMA DeviceTypesStep ==
  HouseholdAssumption /\ PiTypes /\ DeviceTypes /\ [HhNext]_hhVars => DeviceTypes'
<1> SUFFICES ASSUME HouseholdAssumption, PiTypes, DeviceTypes, [HhNext]_hhVars PROVE DeviceTypes'
  OBVIOUS
<1>0. /\ onDevice \in Lists /\ onCard \in Lists /\ manifest \in Lists /\ pull \in Pulls
      /\ Len(onDevice.feeds) <= MaxCalendars /\ Len(onDevice.networks) <= MaxNetworks
      /\ Len(onCard.feeds) <= MaxCalendars /\ Len(onCard.networks) <= MaxNetworks
      /\ MaxCalendars \in Nat /\ MaxNetworks \in Nat
      /\ feeds \in Seq(Nat) /\ networks \in Seq(Networks)
  BY DEF DeviceTypes, PiTypes, HouseholdAssumption
<1>1. CASE ConnectToPi
  <2>1. /\ onCard' = [onCard EXCEPT !.networks = <<>>] /\ pull' = "savingLast"
        /\ UNCHANGED <<onDevice, manifest>>
    BY <1>1 DEF ConnectToPi
  <2>2. onCard' \in Lists /\ Len(onCard'.networks) = 0 /\ onCard'.feeds = onCard.feeds
    BY <1>0, <2>1, Emptied
  <2>3. QED
    BY <1>0, <2>1, <2>2 DEF DeviceTypes, Pulls
<1>2. CASE PullFeeds
  BY <1>0, <1>2, ListsChange DEF PullFeeds, DeviceTypes, Pulls
<1>3. CASE PullNetworks
  <2> DEFINE f == FirstOf(manifest.feeds, MaxCalendars)
             n == FirstOf(networks, MaxNetworks)
  <2>1. f \in Seq(Nat) /\ Len(f) <= MaxCalendars /\ n \in Seq(Networks)
    BY <1>0, ListsChange, FirstOfKeeps
  <2>2. manifest' = [feeds |-> f, networks |-> n] /\ pull' = "answered" /\ UNCHANGED <<onDevice, onCard>>
    BY <1>3 DEF PullNetworks
  <2> HIDE DEF f, n
  <2>3. manifest' \in Lists /\ manifest'.feeds = f
    BY <2>1, <2>2 DEF Lists
  <2>4. QED
    BY <1>0, <2>1, <2>2, <2>3 DEF DeviceTypes, Pulls
<1>4. CASE PullFails
  BY <1>0, <1>4, NothingFits DEF PullFails, DeviceTypes, Pulls
<1>5. CASE ReplaceCalendars
  <2>1. Len(manifest.feeds) <= MaxCalendars /\ manifest.feeds \in Seq(Nat)
    BY <1>0, <1>5, ListsChange DEF ReplaceCalendars, DeviceTypes
  <2>2. /\ onDevice' = [onDevice EXCEPT !.feeds = manifest.feeds]
        /\ onCard' = [onCard EXCEPT !.feeds = <<>>]
        /\ pull' = "savingFeeds" /\ manifest' = manifest
    BY <1>5 DEF ReplaceCalendars
  <2>3. /\ onDevice' \in Lists /\ onDevice'.feeds = manifest.feeds
        /\ onDevice'.networks = onDevice.networks
    BY <1>0, <2>1, <2>2, ListsChange
  <2>4. onCard' \in Lists /\ Len(onCard'.feeds) = 0 /\ onCard'.networks = onCard.networks
    BY <1>0, <2>2, Emptied
  <2>5. QED
    BY <1>0, <2>1, <2>2, <2>3, <2>4 DEF DeviceTypes, Pulls
<1>6. CASE FeedsSaved
  <2>1. pull' \in Pulls /\ pull' # "answered"
    BY <1>6 DEF FeedsSaved, Pulls
  <2>2. QED
    BY <1>0, <1>6, <2>1, ListsChange, NothingFits DEF FeedsSaved, DeviceTypes
<1>7. CASE MergeNetworks
  <2> DEFINE m == MergeInto(onDevice.networks, manifest.networks)
  <2>1. m \in Seq(Networks) /\ Len(m) <= MaxNetworks
    <3>1. onDevice.networks \in Fitting /\ manifest.networks \in Seq(Networks)
      BY <1>0, ListsChange DEF Fitting
    <3>2. QED
      BY <3>1, MergeKeeps DEF Fitting
  <2>2. /\ onDevice' = [onDevice EXCEPT !.networks = m] /\ onCard' = [onCard EXCEPT !.networks = <<>>]
        /\ pull' = "savingNetworks" /\ manifest' = NoManifest
    BY <1>7 DEF MergeNetworks
  <2> HIDE DEF m
  <2>3. onDevice' \in Lists /\ onDevice'.networks = m /\ onDevice'.feeds = onDevice.feeds
    BY <1>0, <2>1, <2>2, ListsChange
  <2>4. onCard' \in Lists /\ Len(onCard'.networks) = 0 /\ onCard'.feeds = onCard.feeds
    BY <1>0, <2>2, Emptied
  <2>5. QED
    BY <1>0, <2>1, <2>2, <2>3, <2>4, NothingFits DEF DeviceTypes, Pulls
<1>8. CASE NetworksSaved
  <2>1. pull' \in Pulls /\ pull' # "answered"
    BY <1>8 DEF NetworksSaved, Pulls
  <2>2. QED
    BY <1>0, <1>8, <2>1, ListsChange DEF NetworksSaved, DeviceTypes
<1>9. CASE PowerLoss
  BY <1>0, <1>9, NothingFits DEF PowerLoss, DeviceTypes, Pulls
<1>10. ASSUME NEW ssid \in Ssids, RemoveOnDevice(ssid) PROVE DeviceTypes'
  <2> DEFINE list == onDevice.networks
             last == list[Len(list)]
             rest == [i \in 1 .. Len(list) - 1 |-> IF list[i].ssid = ssid THEN last ELSE list[i]]
  <2>1. /\ onDevice' = [onDevice EXCEPT !.networks = rest] /\ onCard' = [onCard EXCEPT !.networks = <<>>]
        /\ pull' = "savingNetworks" /\ manifest' = manifest /\ ssid \in SsidsOf(list)
    BY <1>10 DEF RemoveOnDevice
  <2>2. list \in Seq(Networks) /\ Len(list) \in Nat /\ Len(list) <= MaxNetworks
    BY <1>0, ListsChange
  <2>3. rest \in Seq(Networks) /\ Len(rest) = Len(list) - 1
    BY <2>1, <2>2, RemovedOnDevice
  <2> HIDE DEF rest
  <2>4. Len(rest) <= MaxNetworks
    BY <1>0, <2>2, <2>3
  <2>5. onDevice' \in Lists /\ onDevice'.networks = rest /\ onDevice'.feeds = onDevice.feeds
    BY <1>0, <2>1, <2>3, ListsChange
  <2>6. onCard' \in Lists /\ Len(onCard'.networks) = 0 /\ onCard'.feeds = onCard.feeds
    BY <1>0, <2>1, Emptied
  <2>7. QED
    BY <1>0, <2>1, <2>3, <2>4, <2>5, <2>6 DEF DeviceTypes, Pulls
<1>11. CASE UNCHANGED <<onDevice, onCard, pull, manifest>>
  BY <1>11 DEF DeviceTypes
<1>12. QED
  BY <1>1, <1>2, <1>3, <1>4, <1>5, <1>6, <1>7, <1>8, <1>9, <1>10, <1>11, TwoSides
     DEF DeviceActs, hhVars

LEMMA TypesInit == HouseholdAssumption /\ HhInit => PiTypes /\ DeviceTypes /\ CountTypes
<1> SUFFICES ASSUME HouseholdAssumption, HhInit PROVE PiTypes /\ DeviceTypes /\ CountTypes
  OBVIOUS
<1>1. <<OwnNetwork>> \in Seq(Networks) /\ Len(<<OwnNetwork>>) = 1
  BY DEF HouseholdAssumption
<1>2. DOMAIN <<>> = {}
  OBVIOUS
<1>3. PiTypes
  BY <1>2, NothingFits DEF HhInit, PiTypes
<1>4. DeviceTypes
  <2>1. onDevice \in Lists /\ onDevice.feeds = <<>> /\ Len(onDevice.networks) = 1 /\ onCard = onDevice
    BY <1>1, NothingFits DEF HhInit, Lists
  <2>2. MaxCalendars \in Nat /\ MaxNetworks \in Nat \ {0}
    BY DEF HouseholdAssumption
  <2>3. QED
    BY <2>1, <2>2, NothingFits DEF HhInit, DeviceTypes, Pulls
<1>5. CountTypes
  <2>1. edits \in 0 .. EditBound
    BY DEF HhInit, HouseholdAssumption
  <2>2. lost \in BOOLEAN /\ mistyped \in BOOLEAN
    BY Zenon DEF HhInit
  <2>3. QED
    BY <2>1, <2>2 DEF CountTypes
<1>6. QED
  BY <1>3, <1>4, <1>5

\* The lists hold what their columns and files can, in memory and on the card
\* no more than the device has room for, however long the Pi's lists are.
THEOREM HhTypeCorrect == HhSpec => []HhTypeOK
<1>1. HhInit => PiTypes /\ DeviceTypes /\ CountTypes
  BY TypesInit, HouseholdAssumption
<1>2. PiTypes /\ DeviceTypes /\ CountTypes /\ [HhNext]_hhVars => (PiTypes /\ DeviceTypes /\ CountTypes)'
  BY PiTypesStep, DeviceTypesStep, CountTypesStep, HouseholdAssumption
<1>3. PiTypes /\ DeviceTypes /\ CountTypes => HhTypeOK
  BY DEF PiTypes, DeviceTypes, CountTypes, HhTypeOK, Lists, Pulls
<1>4. QED
  BY <1>1, <1>2, <1>3, PTL DEF HhSpec

-----------------------------------------------------------------------------
(* The Pi's lists.  A request that counted before the others inserted may   *)
(* find the list full when it inserts, so what is bounded is the list       *)
(* together with what the pending requests will still make it longer by: a  *)
(* network that has a name the list lacks, once for every such name.        *)

PendingFeeds == {a \in Editors : adding[a] = "addFeed"}
PendingNames == {typed[a].ssid : a \in {b \in Editors : adding[b] = "addWifi"}}
NewNames == PendingNames \ SsidsOf(networks)

RoomForPending ==
  /\ Len(feeds) + Cardinality(PendingFeeds) <= MaxCalendars - 1 + Cardinality(Editors)
  /\ Len(networks) + Cardinality(NewNames) <= MaxNetworks - 1 + Cardinality(Editors)

\* No more requests than editors, and no more names than requests.
LEMMA RequestsBound ==
  ASSUME HouseholdAssumption, NEW R \in SUBSET Editors, NEW request, NEW names,
         names \subseteq {request[a].ssid : a \in R}
  PROVE  /\ IsFiniteSet(R) /\ Cardinality(R) \in Nat /\ Cardinality(R) <= Cardinality(Editors)
         /\ IsFiniteSet(names) /\ Cardinality(names) \in Nat
         /\ Cardinality(names) <= Cardinality(Editors) /\ Cardinality(Editors) \in Nat
<1> DEFINE all == {request[a].ssid : a \in R}
           name == [a \in R |-> request[a].ssid]
<1>1. IsFiniteSet(Editors) /\ Cardinality(Editors) \in Nat
  BY FS_CardinalityType DEF HouseholdAssumption
<1>2. IsFiniteSet(R) /\ Cardinality(R) \in Nat /\ Cardinality(R) <= Cardinality(Editors)
  BY <1>1, FS_Subset, FS_CardinalityType
<1>3. name \in Surjection(R, all)
  BY Zenon DEF Surjection
<1> HIDE DEF name
<1>4. IsFiniteSet(all) /\ Cardinality(all) <= Cardinality(R) /\ Cardinality(all) \in Nat
  BY <1>2, <1>3, FS_Surjection, FS_CardinalityType
<1>5. names \in SUBSET all
  OBVIOUS
<1>6. IsFiniteSet(names) /\ Cardinality(names) <= Cardinality(all) /\ Cardinality(names) \in Nat
  BY <1>4, <1>5, FS_Subset, FS_CardinalityType
<1> HIDE DEF all
<1>7. QED
  BY <1>1, <1>2, <1>4, <1>6

LEMMA PendingCount ==
  ASSUME HouseholdAssumption
  PROVE  /\ IsFiniteSet(PendingFeeds) /\ Cardinality(PendingFeeds) \in Nat
         /\ Cardinality(PendingFeeds) <= Cardinality(Editors)
         /\ IsFiniteSet(NewNames) /\ Cardinality(NewNames) \in Nat
         /\ Cardinality(NewNames) <= Cardinality(Editors)
         /\ Cardinality(Editors) \in Nat
<1>1. PendingFeeds \in SUBSET Editors
  BY DEF PendingFeeds
<1>2. NewNames \subseteq {typed[a].ssid : a \in {b \in Editors : adding[b] = "addWifi"}}
  BY DEF NewNames, PendingNames
<1>3. {} \subseteq {typed[a].ssid : a \in PendingFeeds}
  OBVIOUS
<1>4. {b \in Editors : adding[b] = "addWifi"} \in SUBSET Editors
  OBVIOUS
<1>5. QED
  BY <1>1, <1>2, <1>3, <1>4, RequestsBound

LEMMA PendingCountNext ==
  ASSUME HouseholdAssumption
  PROVE  /\ Cardinality(PendingFeeds') \in Nat /\ Cardinality(PendingFeeds') <= Cardinality(Editors)
         /\ Cardinality(NewNames') \in Nat /\ Cardinality(NewNames') <= Cardinality(Editors)
<1>1. PendingFeeds' \in SUBSET Editors
  BY DEF PendingFeeds
<1>2. NewNames' \subseteq {typed'[a].ssid : a \in {b \in Editors : adding'[b] = "addWifi"}}
  BY DEF NewNames, PendingNames
<1>3. {} \subseteq {typed'[a].ssid : a \in PendingFeeds'}
  OBVIOUS
<1>4. {b \in Editors : adding'[b] = "addWifi"} \in SUBSET Editors
  OBVIOUS
<1>5. QED
  BY <1>1, <1>2, <1>3, <1>4, RequestsBound

\* One element less, one more, and none.
LEMMA OneLess ==
  ASSUME NEW S, NEW T, IsFiniteSet(S), NEW x \in S, T \subseteq S \ {x}
  PROVE  Cardinality(T) <= Cardinality(S) - 1 /\ Cardinality(S) \in Nat /\ Cardinality(T) \in Nat
<1>1. IsFiniteSet(S \ {x}) /\ Cardinality(S \ {x}) = Cardinality(S) - 1
  BY FS_RemoveElement
<1>2. T \in SUBSET (S \ {x})
  OBVIOUS
<1>3. IsFiniteSet(T) /\ Cardinality(T) <= Cardinality(S \ {x})
  BY <1>1, <1>2, FS_Subset
<1>4. QED
  BY <1>1, <1>3, FS_CardinalityType

LEMMA OneMoreAtMost ==
  ASSUME NEW S, NEW T, IsFiniteSet(S), NEW x, T \subseteq S \union {x}
  PROVE  Cardinality(T) <= Cardinality(S) + 1 /\ Cardinality(S) \in Nat /\ Cardinality(T) \in Nat
<1>1. /\ IsFiniteSet(S \union {x})
      /\ Cardinality(S \union {x}) = IF x \in S THEN Cardinality(S) ELSE Cardinality(S) + 1
  BY FS_AddElement
<1>2. T \in SUBSET (S \union {x})
  OBVIOUS
<1>3. IsFiniteSet(T) /\ Cardinality(T) <= Cardinality(S \union {x})
  BY <1>1, <1>2, FS_Subset
<1>4. Cardinality(S) \in Nat /\ Cardinality(T) \in Nat
  BY <1>3, FS_CardinalityType
<1>5. QED
  BY <1>1, <1>3, <1>4

LEMMA NoMore ==
  ASSUME NEW S, NEW T, IsFiniteSet(S), T \subseteq S
  PROVE  Cardinality(T) <= Cardinality(S) /\ Cardinality(S) \in Nat /\ Cardinality(T) \in Nat
<1>1. T \in SUBSET S
  OBVIOUS
<1>2. QED
  BY <1>1, FS_Subset, FS_CardinalityType

LEMMA RoomForPendingStep ==
  HouseholdAssumption /\ PiTypes /\ RoomForPending /\ [HhNext]_hhVars => RoomForPending'
<1> SUFFICES ASSUME HouseholdAssumption, PiTypes, RoomForPending, [HhNext]_hhVars
             PROVE  RoomForPending'
  OBVIOUS
<1> DEFINE Pf == Cardinality(PendingFeeds)
           Nn == Cardinality(NewNames)
           Ed == Cardinality(Editors)
<1>0. /\ feeds \in Seq(Nat) /\ networks \in Seq(Networks)
      /\ adding \in [Editors -> {"idle", "addFeed", "addWifi"}]
      /\ typed \in [Editors -> Networks \union {NoBody}]
      /\ \A a \in Editors : adding[a] = "addWifi" => typed[a] \in Networks
  BY DEF PiTypes
<1>n. /\ Len(feeds) \in Nat /\ Len(networks) \in Nat /\ MaxCalendars \in Nat /\ MaxNetworks \in Nat
      /\ Pf \in Nat /\ Nn \in Nat /\ Ed \in Nat /\ Pf <= Ed /\ Nn <= Ed
      /\ IsFiniteSet(PendingFeeds) /\ IsFiniteSet(NewNames)
  BY <1>0, PendingCount, LenProperties DEF HouseholdAssumption
<1>p. /\ Pf' \in Nat /\ Pf' <= Ed
      /\ Nn' \in Nat /\ Nn' <= Ed
  BY PendingCountNext
<1>r. /\ Len(feeds) + Pf <= MaxCalendars - 1 + Ed
      /\ Len(networks) + Nn <= MaxNetworks - 1 + Ed
  BY DEF RoomForPending
<1> SUFFICES /\ Len(feeds') + Pf' <= MaxCalendars - 1 + Ed
             /\ Len(networks') + Nn' <= MaxNetworks - 1 + Ed
  BY DEF RoomForPending
<1> HIDE DEF Pf, Nn, Ed
<1>1. ASSUME NEW a \in Editors, AddCalendar(a)
      PROVE  /\ Len(feeds') + Pf' <= MaxCalendars - 1 + Ed
             /\ Len(networks') + Nn' <= MaxNetworks - 1 + Ed
  <2>1. /\ Len(feeds) < MaxCalendars /\ adding[a] = "idle"
        /\ adding' = [adding EXCEPT ![a] = "addFeed"] /\ UNCHANGED <<feeds, networks, typed>>
    BY <1>1 DEF AddCalendar, RoomForFeed, piLists
  <2>2. NewNames' \subseteq NewNames
    <3>1. \A b \in Editors : adding'[b] = "addWifi" => adding[b] = "addWifi"
      BY <1>0, <2>1
    <3>2. QED
      BY <2>1, <3>1 DEF NewNames, PendingNames
  <2>3. Nn' <= Nn
    BY <1>n, <2>2, NoMore DEF Nn
  <2>4. QED
    BY <1>n, <1>p, <1>r, <2>1, <2>3
<1>2. ASSUME NEW a \in Editors, InsertFeed(a)
      PROVE  /\ Len(feeds') + Pf' <= MaxCalendars - 1 + Ed
             /\ Len(networks') + Nn' <= MaxNetworks - 1 + Ed
  <2>1. /\ feeds' = Append(feeds, nextFeed) /\ adding[a] = "addFeed"
        /\ adding' = [adding EXCEPT ![a] = "idle"] /\ UNCHANGED <<networks, typed>>
    BY <1>2 DEF InsertFeed
  <2>2. Len(feeds') = Len(feeds) + 1
    BY <2>1, InsertedFeed
  <2>3. a \in PendingFeeds /\ PendingFeeds' \subseteq PendingFeeds \ {a}
    BY <1>0, <2>1 DEF PendingFeeds
  <2>4. Pf' <= Pf - 1
    BY <1>n, <2>3, OneLess DEF Pf
  <2>5. NewNames' \subseteq NewNames
    <3>1. \A b \in Editors : adding'[b] = "addWifi" => adding[b] = "addWifi"
      BY <1>0, <2>1
    <3>2. QED
      BY <2>1, <3>1 DEF NewNames, PendingNames
  <2>6. Nn' <= Nn
    BY <1>n, <2>5, NoMore DEF Nn
  <2>7. QED
    BY <1>n, <1>p, <1>r, <2>1, <2>2, <2>4, <2>6
<1>3. ASSUME NEW a \in Editors, UpsertWifi(a)
      PROVE  /\ Len(feeds') + Pf' <= MaxCalendars - 1 + Ed
             /\ Len(networks') + Nn' <= MaxNetworks - 1 + Ed
  <2>1. /\ networks' = Put(networks, typed[a]) /\ adding[a] = "addWifi"
        /\ adding' = [adding EXCEPT ![a] = "idle"] /\ typed' = [typed EXCEPT ![a] = NoBody]
        /\ UNCHANGED feeds
    BY <1>3 DEF UpsertWifi
  <2>2. typed[a] \in Networks
    BY <1>0, <2>1
  <2>3. /\ Len(networks') = IF typed[a].ssid \in SsidsOf(networks) THEN Len(networks) ELSE Len(networks) + 1
        /\ SsidsOf(networks') = SsidsOf(networks) \union {typed[a].ssid}
    <3> DEFINE list == networks'
    <3>1. list = Put(networks, typed[a])
      BY <2>1
    <3>2. /\ Len(Put(networks, typed[a]))
                = IF typed[a].ssid \in SsidsOf(networks) THEN Len(networks) ELSE Len(networks) + 1
          /\ SsidsOf(Put(networks, typed[a])) = SsidsOf(networks) \union {typed[a].ssid}
      BY <1>0, <2>2, PutDoes
    <3>3. SsidsOf(list) = SsidsOf(Put(networks, typed[a]))
      BY <3>1
    <3>4. QED
      BY <3>1, <3>2, <3>3
  <2>4. PendingFeeds' \subseteq PendingFeeds
    BY <1>0, <2>1 DEF PendingFeeds
  <2>5. Pf' <= Pf
    BY <1>n, <2>4, NoMore DEF Pf
  <2>6. PendingNames' \subseteq PendingNames
    <3>1. \A b \in Editors : adding'[b] = "addWifi" => adding[b] = "addWifi" /\ typed'[b] = typed[b]
      BY <1>0, <2>1
    <3>2. QED
      BY <3>1 DEF PendingNames
  <2>7. CASE typed[a].ssid \in SsidsOf(networks)
    <3>1. NewNames' \subseteq NewNames
      BY <2>3, <2>6, <2>7 DEF NewNames
    <3>2. Nn' <= Nn
      BY <1>n, <3>1, NoMore DEF Nn
    <3>3. Len(networks') = Len(networks)
      BY <2>3, <2>7
    <3>4. QED
      BY <1>n, <1>p, <1>r, <2>1, <2>5, <3>2, <3>3
  <2>8. CASE typed[a].ssid \notin SsidsOf(networks)
    <3>1. typed[a].ssid \in NewNames
      BY <2>1, <2>8 DEF NewNames, PendingNames
    <3>2. NewNames' \subseteq NewNames \ {typed[a].ssid}
      BY <2>3, <2>6 DEF NewNames
    <3>3. Nn' <= Nn - 1
      BY <1>n, <3>1, <3>2, OneLess DEF Nn
    <3>4. Len(networks') = Len(networks) + 1
      BY <2>3, <2>8
    <3>5. QED
      BY <1>n, <1>p, <1>r, <2>1, <2>5, <3>3, <3>4
  <2>9. QED
    BY <2>7, <2>8
<1>4. ASSUME NEW a \in Editors, NEW n \in Networks, AddWifi(a, n)
      PROVE  /\ Len(feeds') + Pf' <= MaxCalendars - 1 + Ed
             /\ Len(networks') + Nn' <= MaxNetworks - 1 + Ed
  <2>1. /\ adding' = [adding EXCEPT ![a] = "addWifi"] /\ typed' = [typed EXCEPT ![a] = n]
        /\ adding[a] = "idle" /\ UNCHANGED <<feeds, networks>>
        /\ n.ssid \in SsidsOf(networks) \/ Len(networks) < MaxNetworks
    BY <1>4 DEF AddWifi, RoomForNetwork, piLists
  <2>2. PendingFeeds' \subseteq PendingFeeds
    BY <1>0, <2>1 DEF PendingFeeds
  <2>3. Pf' <= Pf
    BY <1>n, <2>2, NoMore DEF Pf
  <2>4. CASE n.ssid \in SsidsOf(networks)
    <3>1. \A b \in Editors : b # a => adding'[b] = adding[b] /\ typed'[b] = typed[b]
      BY <1>0, <2>1
    <3>2. typed'[a] = n
      BY <1>0, <2>1
    <3>3. PendingNames' \subseteq PendingNames \union {n.ssid}
      BY <3>1, <3>2 DEF PendingNames
    <3>4. NewNames' \subseteq NewNames
      BY <2>1, <2>4, <3>3 DEF NewNames
    <3>5. Nn' <= Nn
      BY <1>n, <3>4, NoMore DEF Nn
    <3>6. QED
      BY <1>n, <1>p, <1>r, <2>1, <2>3, <3>5
  <2>5. CASE Len(networks) < MaxNetworks
    BY <1>n, <1>p, <1>r, <2>1, <2>3, <2>5
  <2>6. QED
    BY <2>1, <2>4, <2>5
<1>5. ASSUME NEW i \in DOMAIN feeds, DeleteCalendar(i)
      PROVE  /\ Len(feeds') + Pf' <= MaxCalendars - 1 + Ed
             /\ Len(networks') + Nn' <= MaxNetworks - 1 + Ed
  <2>1. feeds' = RemoveAt(feeds, i) /\ UNCHANGED <<networks, adding, typed>>
    BY <1>5 DEF DeleteCalendar
  <2>2. Len(feeds') = Len(feeds) - 1
    BY <1>0, <2>1, RemoveAtDrops
  <2>3. Pf' = Pf /\ Nn' = Nn
    BY <2>1 DEF Pf, Nn, PendingFeeds, NewNames, PendingNames
  <2>4. QED
    BY <1>n, <1>r, <2>1, <2>2, <2>3
<1>6. ASSUME NEW i \in DOMAIN networks, DeleteWifi(i)
      PROVE  /\ Len(feeds') + Pf' <= MaxCalendars - 1 + Ed
             /\ Len(networks') + Nn' <= MaxNetworks - 1 + Ed
  <2>1. networks' = RemoveAt(networks, i) /\ UNCHANGED <<feeds, adding, typed>>
    BY <1>6 DEF DeleteWifi
  <2>2. /\ Len(networks') = Len(networks) - 1
        /\ \A k \in DOMAIN networks : k # i => \E j \in DOMAIN networks' : networks'[j] = networks[k]
    BY <1>0, <2>1, RemoveAtDrops
  <2>3. SsidsOf(networks) \subseteq SsidsOf(networks') \union {networks[i].ssid}
    BY <2>2 DEF SsidsOf
  <2>4. PendingNames' = PendingNames /\ Pf' = Pf
    BY <2>1 DEF PendingNames, Pf, PendingFeeds
  <2>5. NewNames' \subseteq NewNames \union {networks[i].ssid}
    BY <2>3, <2>4 DEF NewNames
  <2>6. Nn' <= Nn + 1
    BY <1>n, <2>5, OneMoreAtMost DEF Nn
  <2>7. QED
    BY <1>n, <1>p, <1>r, <2>1, <2>2, <2>4, <2>6
<1>7. CASE UNCHANGED <<piLists, adding, typed, mistyped>> \/ UNCHANGED hhVars
  <2>1. UNCHANGED <<feeds, networks, adding, typed>>
    BY <1>7 DEF piLists, hhVars
  <2>2. Pf' = Pf /\ Nn' = Nn
    BY <2>1 DEF Pf, Nn, PendingFeeds, NewNames, PendingNames
  <2>3. QED
    BY <1>r, <2>1, <2>2
<1>8. QED
  BY <1>1, <1>2, <1>3, <1>4, <1>5, <1>6, <1>7, TwoSides DEF ConsoleActs

\* Two requests that count the list before either inserts both find room; the
\* lists never pass what a device holds by more than that.
THEOREM ListsFitTheDeviceHolds == HhSpec => []ListsFitTheDevice
<1> USE HouseholdAssumption
<1>1. HhInit => PiTypes /\ RoomForPending
  <2> SUFFICES ASSUME HhInit PROVE RoomForPending
    BY TypesInit
  <2>1. feeds = <<>> /\ networks = <<>> /\ \A a \in Editors : adding[a] = "idle"
    BY DEF HhInit
  <2>2. PendingFeeds = {} /\ NewNames = {}
    BY <2>1 DEF PendingFeeds, NewNames, PendingNames
  <2>3. Cardinality(PendingFeeds) = 0 /\ Cardinality(NewNames) = 0 /\ Len(feeds) = 0 /\ Len(networks) = 0
    BY <2>1, <2>2, FS_EmptySet, NothingFits
  <2>4. Cardinality(Editors) \in Nat /\ MaxCalendars \in Nat \ {0} /\ MaxNetworks \in Nat \ {0}
    BY PendingCount DEF HouseholdAssumption
  <2>5. QED
    BY <2>3, <2>4 DEF RoomForPending
<1>2. PiTypes /\ RoomForPending /\ [HhNext]_hhVars => (PiTypes /\ RoomForPending)'
  BY PiTypesStep, RoomForPendingStep
<1>3. PiTypes /\ RoomForPending => ListsFitTheDevice
  <2> SUFFICES ASSUME PiTypes, RoomForPending PROVE ListsFitTheDevice
    OBVIOUS
  <2>1. Len(feeds) \in Nat /\ Len(networks) \in Nat
    BY LenProperties DEF PiTypes
  <2>2. /\ Cardinality(PendingFeeds) \in Nat /\ Cardinality(NewNames) \in Nat
        /\ Cardinality(Editors) \in Nat /\ MaxCalendars \in Nat /\ MaxNetworks \in Nat
    BY PendingCount DEF HouseholdAssumption
  <2>3. QED
    BY <2>1, <2>2 DEF RoomForPending, ListsFitTheDevice
<1>4. QED
  BY <1>1, <1>2, <1>3, PTL DEF HhSpec

-----------------------------------------------------------------------------
(* The owner's network.  It is in memory, and on the card whenever no save   *)
(* is open, so that a loss of power brings it back; and neither the Pi nor an *)
(* answer of the Pi has another password under its name.                     *)

OwnIsKept ==
  \/ lost \/ mistyped
  \/ /\ Holds(onDevice.networks)
     /\ pull \notin Saving => Holds(onCard.networks)
     /\ Clean(networks) /\ Clean(manifest.networks)

LEMMA CleanStays ==
  ASSUME NEW list \in Seq(Networks), NEW other, Clean(list),
         \A j \in DOMAIN other : \E k \in DOMAIN list : other[j] = list[k]
  PROVE  Clean(other)
BY DEF Clean

LEMMA OwnIsKeptConsole ==
  ASSUME PiTypes, OwnIsKept, ConsoleActs, UNCHANGED <<onDevice, onCard, pull, manifest, lost>>
  PROVE  OwnIsKept'
<1>0. networks \in Seq(Networks) /\ \A a \in Editors : adding[a] = "addWifi" => typed[a] \in Networks
  BY DEF PiTypes
<1>1. CASE lost \/ mistyped
  <2>1. CASE lost
    BY <2>1, Zenon DEF OwnIsKept
  <2>2. CASE mistyped
    <3>1. ASSUME NEW a \in Editors, UpsertWifi(a) PROVE mistyped'
      BY <2>2, <3>1, Zenon DEF UpsertWifi
    <3>2. ASSUME UNCHANGED <<lost, mistyped>> PROVE mistyped'
      BY <2>2, <3>2, Zenon
    <3>3. mistyped'
      BY <3>1, <3>2 DEF ConsoleActs, AddCalendar, InsertFeed, AddWifi, DeleteCalendar, DeleteWifi
    <3>4. QED
      BY <3>3 DEF OwnIsKept
  <2>3. QED
    BY <1>1, <2>1, <2>2
<1>2. CASE ~(lost \/ mistyped)
  <2>1. /\ Holds(onDevice.networks) /\ (pull \notin Saving => Holds(onCard.networks))
        /\ Clean(networks) /\ Clean(manifest.networks)
    BY <1>2 DEF OwnIsKept
  <2>2. SUFFICES mistyped' \/ Clean(networks')
    BY <2>1 DEF OwnIsKept
  <2>3. ASSUME NEW a \in Editors, UpsertWifi(a) PROVE mistyped' \/ Clean(networks')
    <3>1. /\ networks' = Put(networks, typed[a]) /\ typed[a] \in Networks
          /\ mistyped' = (mistyped \/ (typed[a].ssid = OwnNetwork.ssid /\ typed[a] # OwnNetwork))
      BY <1>0, <2>3 DEF UpsertWifi
    <3>2. CASE typed[a].ssid = OwnNetwork.ssid => typed[a] = OwnNetwork
      <4>1. \A i \in DOMAIN Put(networks, typed[a]) :
               \/ Put(networks, typed[a])[i] = typed[a]
               \/ i \in DOMAIN networks /\ Put(networks, typed[a])[i] = networks[i]
        BY <1>0, <3>1, PutDoes
      <4>2. Clean(Put(networks, typed[a]))
        BY <2>1, <3>2, <4>1 DEF Clean
      <4>3. QED
        BY <3>1, <4>2
    <3>3. QED
      BY <3>1, <3>2
  <2>4. ASSUME NEW i \in DOMAIN networks, DeleteWifi(i) PROVE Clean(networks')
    <3>1. networks' = RemoveAt(networks, i)
      BY <2>4 DEF DeleteWifi
    <3>2. \A j \in DOMAIN networks' : \E k \in DOMAIN networks : networks'[j] = networks[k]
      BY <1>0, <3>1, RemoveAtDrops
    <3>3. QED
      BY <1>0, <2>1, <3>2, CleanStays
  <2>5. CASE networks' = networks
    BY <2>1, <2>5
  <2>6. QED
    BY <2>3, <2>4, <2>5 DEF ConsoleActs, AddCalendar, InsertFeed, AddWifi, DeleteCalendar, piLists
<1>3. QED
  BY <1>1, <1>2

LEMMA OwnIsKeptDevice ==
  ASSUME HouseholdAssumption, PiTypes, DeviceTypes, OwnIsKept, DeviceActs,
         UNCHANGED <<piLists, adding, typed, mistyped>>
  PROVE  OwnIsKept'
<1>0. /\ onDevice \in Lists /\ onCard \in Lists /\ manifest \in Lists
      /\ networks \in Seq(Networks) /\ MaxNetworks \in Nat
      /\ onDevice.networks \in Fitting /\ manifest.networks \in Seq(Networks)
  BY ListsChange DEF PiTypes, DeviceTypes, HouseholdAssumption, Fitting
<1>1. CASE lost \/ mistyped
  <2>1. CASE mistyped
    BY <2>1, Zenon DEF OwnIsKept
  <2>2. CASE lost
    <3>1. ASSUME PowerLoss PROVE lost'
      BY <2>2, <3>1, Zenon DEF PowerLoss
    <3>2. ASSUME NEW ssid \in Ssids, RemoveOnDevice(ssid) PROVE lost'
      BY <2>2, <3>2, Zenon DEF RemoveOnDevice
    <3>3. ASSUME UNCHANGED <<lost, mistyped>> PROVE lost'
      BY <2>2, <3>3, Zenon
    <3>4. lost'
      BY <3>1, <3>2, <3>3 DEF DeviceActs, ConnectToPi, PullFeeds, PullNetworks, ReplaceCalendars,
                              FeedsSaved, MergeNetworks, NetworksSaved, PullFails
    <3>5. QED
      BY <3>4 DEF OwnIsKept
  <2>3. QED
    BY <1>1, <2>1, <2>2
<1>2. CASE ~(lost \/ mistyped)
  <2>1. /\ Holds(onDevice.networks) /\ (pull \notin Saving => Holds(onCard.networks))
        /\ Clean(networks) /\ Clean(manifest.networks)
    BY <1>2 DEF OwnIsKept
  <2>2. networks' = networks
    BY DEF piLists
  <2>n. Clean(NoManifest.networks)
    BY DEF NoManifest, Clean
  <2>3. SUFFICES lost' \/ /\ Holds(onDevice'.networks) /\ Clean(manifest'.networks)
                          /\ pull' \notin Saving => Holds(onCard'.networks)
    BY <2>1, <2>2 DEF OwnIsKept
  <2>4. CASE ConnectToPi
    BY <2>1, <2>4 DEF ConnectToPi, Saving
  <2>5. CASE PullFeeds
    <3>1. manifest'.networks = manifest.networks
      BY <1>0, <2>5 DEF PullFeeds, Lists
    <3>2. QED
      BY <2>1, <2>5, <3>1 DEF PullFeeds, Saving
  <2>6. CASE PullNetworks
    <3>1. manifest'.networks = FirstOf(networks, MaxNetworks)
      BY <2>6 DEF PullNetworks
    <3>2. \A j \in DOMAIN manifest'.networks : \E k \in DOMAIN networks : manifest'.networks[j] = networks[k]
      BY <1>0, <3>1, FirstOfKeeps
    <3>3. Clean(manifest'.networks)
      BY <1>0, <2>1, <3>2, CleanStays
    <3>4. QED
      BY <2>1, <2>6, <3>3 DEF PullNetworks, Saving
  <2>7. CASE PullFails
    BY <2>1, <2>7, <2>n DEF PullFails, Saving
  <2>8. CASE ReplaceCalendars
    <3>1. onDevice'.networks = onDevice.networks /\ onCard'.networks = onCard.networks
      BY <1>0, <2>8 DEF ReplaceCalendars, Lists
    <3>2. QED
      BY <2>1, <2>8, <3>1 DEF ReplaceCalendars, Saving
  <2>9. CASE FeedsSaved
    <3>1. onCard'.networks = onCard.networks /\ manifest'.networks = manifest.networks
      BY <1>0, <2>9 DEF FeedsSaved, Lists
    <3>2. QED
      BY <2>1, <2>9, <3>1 DEF FeedsSaved, Saving
  <2>10. CASE MergeNetworks
    <3> DEFINE m == MergeInto(onDevice.networks, manifest.networks)
    <3>1. Holds(m)
      BY <1>0, <2>1, MergeKeeps
    <3>2. onDevice' = [onDevice EXCEPT !.networks = m] /\ pull' = "savingNetworks" /\ manifest' = NoManifest
      BY <2>10 DEF MergeNetworks
    <3> HIDE DEF m
    <3>3. onDevice'.networks = m
      BY <1>0, <3>2 DEF Lists
    <3>4. QED
      BY <2>n, <3>1, <3>2, <3>3 DEF Saving
  <2>11. CASE NetworksSaved
    <3>1. onCard'.networks = onDevice.networks
      BY <1>0, <2>11 DEF NetworksSaved, Lists
    <3>2. QED
      BY <2>1, <2>11, <3>1 DEF NetworksSaved
  <2>12. CASE PowerLoss
    BY <2>1, <2>12, <2>n DEF PowerLoss, Saving
  <2>13. ASSUME NEW ssid \in Ssids, RemoveOnDevice(ssid)
         PROVE  lost' \/ /\ Holds(onDevice'.networks) /\ Clean(manifest'.networks)
                         /\ pull' \notin Saving => Holds(onCard'.networks)
    <3> DEFINE list == onDevice.networks
               last == list[Len(list)]
               rest == [i \in 1 .. Len(list) - 1 |-> IF list[i].ssid = ssid THEN last ELSE list[i]]
    <3>1. /\ onDevice' = [onDevice EXCEPT !.networks = rest] /\ pull' = "savingNetworks"
          /\ manifest' = manifest /\ ssid \in SsidsOf(list) /\ lost' = (lost \/ ssid = OwnNetwork.ssid)
      BY <2>13 DEF RemoveOnDevice
    <3>2. ssid # OwnNetwork.ssid => Holds(rest)
      BY <1>0, <2>1, <3>1, RemovedOnDevice DEF Fitting
    <3> HIDE DEF rest
    <3>3. onDevice'.networks = rest
      BY <1>0, <3>1 DEF Lists
    <3>4. QED
      BY <2>1, <3>1, <3>2, <3>3 DEF Saving
  <2>14. QED
    BY <2>4, <2>5, <2>6, <2>7, <2>8, <2>9, <2>10, <2>11, <2>12, <2>13 DEF DeviceActs
<1>3. QED
  BY <1>1, <1>2

\* A pull never costs the device the network its owner gave it: the merge adds
\* to the list and changes a password only under the same name.
THEOREM OwnNetworkSurvivesHolds == HhSpec => []OwnNetworkSurvives
<1> DEFINE Inv == PiTypes /\ DeviceTypes /\ OwnIsKept
<1>1. HhInit => Inv
  <2> SUFFICES ASSUME HhInit PROVE OwnIsKept
    BY TypesInit, HouseholdAssumption
  <2>1. onDevice.networks = <<OwnNetwork>> /\ onCard.networks = <<OwnNetwork>>
        /\ networks = <<>> /\ manifest.networks = <<>>
    BY DEF HhInit, NoManifest
  <2>2. Holds(<<OwnNetwork>>) /\ Clean(<<>>)
    <3>1. <<OwnNetwork>>[1] = OwnNetwork /\ 1 \in DOMAIN <<OwnNetwork>> /\ DOMAIN <<>> = {}
      OBVIOUS
    <3>2. QED
      BY <3>1 DEF Holds, Clean
  <2>3. QED
    BY <2>1, <2>2 DEF OwnIsKept
<1>2. Inv /\ [HhNext]_hhVars => Inv'
  <2> SUFFICES ASSUME Inv, [HhNext]_hhVars PROVE Inv'
    OBVIOUS
  <2>1. (PiTypes /\ DeviceTypes)'
    BY PiTypesStep, DeviceTypesStep, HouseholdAssumption
  <2>2. CASE UNCHANGED hhVars
    <3>1. UNCHANGED <<lost, mistyped, onDevice, onCard, pull, networks, manifest>>
      BY <2>2 DEF hhVars
    <3>2. OwnIsKept'
      BY <3>1, Zenon DEF OwnIsKept, Holds, Clean
    <3>3. QED
      BY <2>1, <3>2
  <2>3. OwnIsKept'
    BY <2>2, TwoSides, OwnIsKeptConsole, OwnIsKeptDevice, HouseholdAssumption
  <2>4. QED
    BY <2>1, <2>3
<1>3. Inv => OwnNetworkSurvives
  BY DEF OwnIsKept, OwnNetworkSurvives, Holds
<1>4. QED
  BY <1>1, <1>2, <1>3, PTL DEF HhSpec
===============================================================================
