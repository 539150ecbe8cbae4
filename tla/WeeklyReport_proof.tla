------------------------- MODULE WeeklyReport_proof -------------------------
(***************************************************************************)
(* What the weekly report keeps of a fleet that changes while it is read,  *)
(* for any fleet, any page size and any number of changes.                 *)
(***************************************************************************)
EXTENDS WeeklyReport, FiniteSetTheorems, SequenceTheorems, TLAPS

-----------------------------------------------------------------------------
(* Sequences of assets.                                                    *)

IdsIn(s, from, to) == {s[j].id : j \in DOMAIN s \cap (from..to)}

LEMMA IdsFinite ==
    ASSUME NEW s \in Seq(Hardware), NEW from \in Int, NEW to \in Int
    PROVE  IsFiniteSet(IdsIn(s, from, to)) /\ IdsIn(s, from, to) \subseteq IdsOf(s)
<1>1. IsFiniteSet(DOMAIN s \cap (from..to))
  BY FS_Interval, FS_Intersection
<1>. DEFINE f == [j \in DOMAIN s \cap (from..to) |-> s[j].id]
<1>2. f \in Surjection(DOMAIN s \cap (from..to), IdsIn(s, from, to))
  BY DEF Surjection, IdsIn
<1>. QED BY <1>1, <1>2, FS_Surjection DEF IdsIn, IdsOf, ToSet

LEMMA AllIds ==
    ASSUME NEW s \in Seq(Hardware)
    PROVE  /\ IdsOf(s) = {s[j].id : j \in DOMAIN s} /\ IdsOf(s) = IdsIn(s, 1, Len(s))
           /\ IsFiniteSet(IdsOf(s)) /\ IdsOf(s) \subseteq AssetIds
<1>1. IdsOf(s) = {s[j].id : j \in DOMAIN s}
  BY DEF IdsOf, ToSet
<1>2. IdsOf(s) = IdsIn(s, 1, Len(s))
  BY <1>1 DEF IdsIn
<1>3. \A j \in DOMAIN s : s[j] \in Hardware
  OBVIOUS
<1>4. \A j \in DOMAIN s : s[j].id \in AssetIds
  BY <1>3 DEF Hardware
<1>5. Len(s) \in Int
  OBVIOUS
<1>6. IsFiniteSet(IdsOf(s))
  BY <1>2, <1>5, IdsFinite
<1>. QED BY <1>1, <1>2, <1>4, <1>6

\* As many rows as ids, or some id is in two rows.
LEMMA DistinctIds ==
    ASSUME NEW s \in Seq(Hardware), Distinct(s)
    PROVE  Cardinality(IdsOf(s)) = Len(s)
<1>. DEFINE f == [j \in 1..Len(s) |-> s[j].id]
<1>0. Len(s) \in Nat /\ DOMAIN s = 1..Len(s) /\ IdsOf(s) = {s[j].id : j \in DOMAIN s}
  BY AllIds
<1>1. f \in Surjection(1..Len(s), IdsOf(s))
  BY <1>0 DEF Surjection
<1>2. f \in Injection(1..Len(s), IdsOf(s))
  BY <1>0, <1>1 DEF Surjection, Injection, IsInjective, Distinct
<1>3. IsFiniteSet(1..Len(s)) /\ Cardinality(1..Len(s)) = Len(s)
  BY <1>0, FS_Interval
<1>4. Cardinality(IdsOf(s)) = Cardinality(1..Len(s))
  <2>. HIDE DEF f
  <2>. QED BY <1>1, <1>2, <1>3, FS_Surjection
<1>. QED BY <1>3, <1>4

LEMMA Joined ==
    ASSUME NEW s \in Seq(Hardware), NEW t \in Seq(Hardware), NEW u, u = s \o t,
           NEW m \in Nat, m = Len(s), NEW n \in Nat, n = Len(t)
    PROVE  /\ u \in Seq(Hardware) /\ Len(u) = m + n
           /\ \A j \in 1 .. m + n : u[j] = IF j <= m THEN s[j] ELSE t[j - m]
BY ConcatProperties

LEMMA Removed ==
    ASSUME NEW s \in Seq(Hardware), NEW i \in DOMAIN s, NEW t, t = RemoveAt(s, i)
    PROVE  /\ t \in Seq(Hardware) /\ Len(t) = Len(s) - 1
           /\ \A j \in DOMAIN t : t[j] = IF j < i THEN s[j] ELSE s[j + 1]
           /\ Distinct(s) => Distinct(t)
<1>1. /\ t \in Seq(Hardware) /\ Len(t) = Len(s) - 1
      /\ \A j \in DOMAIN t : t[j] = IF j < i THEN s[j] ELSE s[j + 1]
  <2>1. Len(s) \in Nat /\ DOMAIN s = 1..Len(s) /\ i \in Int /\ 1 <= i /\ i <= Len(s)
    OBVIOUS
  <2>. DEFINE before == SubSeq(s, 1, i - 1)
              after == SubSeq(s, i + 1, Len(s))
  <2>2. /\ before \in Seq(Hardware) /\ Len(before) = i - 1
        /\ \A j \in 1 .. i - 1 : before[j] = s[j]
    BY <2>1, SubSeqProperties
  <2>3. /\ after \in Seq(Hardware) /\ Len(after) = Len(s) - i
        /\ \A j \in 1 .. Len(s) - i : after[j] = s[i + j]
    BY <2>1, SubSeqProperties
  <2>. HIDE DEF before, after
  <2>4. t = before \o after
    BY DEF RemoveAt, before, after
  <2>a. i - 1 \in Nat /\ Len(s) - i \in Nat
    BY <2>1
  <2>b. PICK m \in Nat : m = i - 1
    BY <2>a, Zenon
  <2>c. PICK n \in Nat : n = Len(s) - i
    BY <2>a, Zenon
  <2>5. i = m + 1 /\ Len(s) = m + n + 1 /\ m = Len(before) /\ n = Len(after)
    BY <2>1, <2>2, <2>3, <2>b, <2>c
  <2>6. /\ t \in Seq(Hardware) /\ Len(t) = m + n
        /\ \A j \in 1 .. m + n : t[j] = IF j <= m THEN before[j] ELSE after[j - m]
    <3>1. before \in Seq(Hardware) /\ after \in Seq(Hardware) /\ m = Len(before) /\ n = Len(after)
      BY <2>2, <2>3, <2>5
    <3>. QED BY <2>4, <3>1, Joined
  <2>7. ASSUME NEW j \in 1 .. m + n PROVE t[j] = IF j < i THEN s[j] ELSE s[j + 1]
    <3>1. t[j] = IF j <= m THEN before[j] ELSE after[j - m]
      BY <2>6
    <3>2. CASE j <= m
      BY <2>1, <2>2, <2>5, <3>1, <3>2
    <3>3. CASE ~ (j <= m)
      <4>1. j - m \in 1 .. Len(s) - i /\ i + (j - m) = j + 1 /\ ~ (j < i)
        BY <2>5, <3>3
      <4>. QED BY <2>3, <3>1, <3>3, <4>1
    <3>. QED BY <3>2, <3>3
  <2>8. Len(t) = Len(s) - 1 /\ DOMAIN t = 1 .. m + n
    BY <2>1, <2>5, <2>6
  <2>. QED BY <2>6, <2>7, <2>8
<1>2. ASSUME Distinct(s) PROVE Distinct(t)
  <2>. DEFINE from(j) == IF j < i THEN j ELSE j + 1
  <2>1. \A j \in DOMAIN t : j \in Int /\ from(j) \in DOMAIN s /\ t[j] = s[from(j)]
    BY <1>1
  <2>2. \A j, k \in DOMAIN t : from(j) = from(k) => j = k
    BY <2>1
  <2>. HIDE DEF from
  <2>. QED BY <1>2, <2>1, <2>2 DEF Distinct
<1>. QED BY <1>1, <1>2

LEMMA Inserted ==
    ASSUME NEW s \in Seq(Hardware), NEW i \in 1 .. Len(s) + 1, NEW a \in Hardware,
           NEW t, t = InsertAt(s, i, a)
    PROVE  /\ t \in Seq(Hardware) /\ Len(t) = Len(s) + 1
           /\ \A j \in DOMAIN t :
                 t[j] = IF j < i THEN s[j] ELSE IF j = i THEN a ELSE s[j - 1]
           /\ Distinct(s) /\ a.id \notin IdsOf(s) => Distinct(t)
<1>1. /\ t \in Seq(Hardware) /\ Len(t) = Len(s) + 1
      /\ \A j \in DOMAIN t :
            t[j] = IF j < i THEN s[j] ELSE IF j = i THEN a ELSE s[j - 1]
  <2>1. Len(s) \in Nat /\ DOMAIN s = 1..Len(s) /\ i \in Int
    OBVIOUS
  <2>. DEFINE before == SubSeq(s, 1, i - 1)
              after == SubSeq(s, i, Len(s))
  <2>2. /\ before \in Seq(Hardware) /\ Len(before) = i - 1
        /\ \A j \in 1 .. i - 1 : before[j] = s[j]
    BY <2>1, SubSeqProperties
  <2>3. /\ after \in Seq(Hardware) /\ Len(after) = Len(s) - i + 1
        /\ \A j \in 1 .. Len(s) - i + 1 : after[j] = s[i + j - 1]
    BY <2>1, SubSeqProperties
  <2>. HIDE DEF before, after
  <2>4. /\ before \o <<a>> \in Seq(Hardware) /\ Len(before \o <<a>>) = i
        /\ \A j \in 1..i : (before \o <<a>>)[j] = IF j < i THEN s[j] ELSE a
    BY <2>1, <2>2, ConcatProperties
  <2>5. t = (before \o <<a>>) \o after
    BY DEF InsertAt, before, after
  <2>6. i \in Nat /\ Len(s) - i + 1 \in Nat /\ i + (Len(s) - i + 1) = Len(s) + 1
    BY <2>1
  <2>7. /\ t \in Seq(Hardware) /\ Len(t) = i + (Len(s) - i + 1)
        /\ \A j \in 1 .. i + (Len(s) - i + 1) :
              t[j] = IF j <= i THEN (before \o <<a>>)[j] ELSE after[j - i]
    BY <2>3, <2>4, <2>5, <2>6, Joined
  <2>8. ASSUME NEW j \in 1 .. Len(s) + 1
        PROVE  t[j] = IF j < i THEN s[j] ELSE IF j = i THEN a ELSE s[j - 1]
    <3>1. t[j] = IF j <= i THEN (before \o <<a>>)[j] ELSE after[j - i]
      BY <2>6, <2>7
    <3>2. CASE j <= i
      BY <2>1, <2>4, <3>1, <3>2
    <3>3. CASE ~ (j <= i)
      <4>1. j - i \in 1 .. Len(s) - i + 1 /\ i + (j - i) - 1 = j - 1 /\ ~ (j < i) /\ j # i
        BY <2>1, <3>3
      <4>. QED BY <2>3, <3>1, <3>3, <4>1
    <3>. QED BY <3>2, <3>3
  <2>9. Len(t) = Len(s) + 1 /\ DOMAIN t = 1 .. Len(s) + 1
    BY <2>1, <2>6, <2>7
  <2>. QED BY <2>7, <2>8, <2>9
<1>2. ASSUME Distinct(s), a.id \notin IdsOf(s) PROVE Distinct(t)
  <2>. DEFINE from(j) == IF j < i THEN j ELSE j - 1
  <2>1. \A j \in DOMAIN t : j \in Int /\ (j # i => from(j) \in DOMAIN s /\ t[j] = s[from(j)])
    BY <1>1
  <2>2. \A j, k \in DOMAIN t : j # i /\ k # i /\ from(j) = from(k) => j = k
    BY <2>1
  <2>3. t[i] = a /\ \A j \in DOMAIN s : s[j].id # a.id
    BY <1>1, <1>2, AllIds
  <2>. HIDE DEF from
  <2>. QED BY <1>2, <2>1, <2>2, <2>3 DEF Distinct
<1>. QED BY <1>1, <1>2

LEMMA Appended ==
    ASSUME NEW s \in Seq(Hardware), NEW n \in Nat, NEW page, hardware = s, page = Page(n)
    PROVE  /\ page \in Seq(Hardware)
           /\ Len(page) = IF n >= Len(s) THEN 0
                            ELSE IF n + Limit < Len(s) THEN Limit ELSE Len(s) - n
           /\ \A j \in DOMAIN page : n + j \in DOMAIN s /\ page[j] = s[n + j]
<1>1. Len(s) \in Nat /\ DOMAIN s = 1..Len(s) /\ Limit \in Nat \ {0}
  BY WeeklyAssumption
<1>. DEFINE last == IF n + Limit < Len(s) THEN n + Limit ELSE Len(s)
<1>a. last \in Nat /\ last <= Len(s) /\ page = SubSeq(s, n + 1, last)
  BY <1>1 DEF Page
<1>0. PICK end \in Nat : end = last
  BY <1>a, Zenon
<1>2. end <= Len(s) /\ page = SubSeq(s, n + 1, end)
  BY <1>a, <1>0
<1>3. /\ page \in Seq(Hardware) /\ Len(page) = IF n + 1 <= end THEN end - n ELSE 0
      /\ \A j \in 1 .. end - n : page[j] = s[n + j]
  <2>1. \A j \in n + 1 .. end : s[j] \in Hardware
    BY <1>1, <1>2
  <2>2. n + 1 \in Int /\ end - (n + 1) + 1 = end - n
    BY <1>2
  <2>3. /\ SubSeq(s, n + 1, end) \in Seq(Hardware)
        /\ Len(SubSeq(s, n + 1, end)) = IF n + 1 <= end THEN end - (n + 1) + 1 ELSE 0
        /\ \A j \in 1 .. end - (n + 1) + 1 : SubSeq(s, n + 1, end)[j] = s[n + 1 + j - 1]
    BY <1>2, <2>1, <2>2, SubSeqProperties
  <2>4. \A j \in 1 .. end - n : n + 1 + j - 1 = n + j
    BY <1>2
  <2>5. \A j \in 1 .. end - n : page[j] = s[n + j]
    BY <1>2, <2>2, <2>3, <2>4
  <2>6. Len(page) = IF n + 1 <= end THEN end - n ELSE 0
    <3>1. Len(page) = IF n + 1 <= end THEN end - (n + 1) + 1 ELSE 0
      BY <1>2, <2>3, Zenon
    <3>. QED BY <2>2, <3>1
  <2>7. page \in Seq(Hardware)
    BY <1>2, <2>3, Zenon
  <2>. QED BY <2>5, <2>6, <2>7, Zenon
<1>4. Len(page) = IF n >= Len(s) THEN 0
                    ELSE IF n + Limit < Len(s) THEN Limit ELSE Len(s) - n
  <2>1. CASE n + Limit < Len(s)
    <3>1. end = n + Limit
      BY <1>0, <2>1
    <3>. QED BY <1>1, <1>3, <2>1, <3>1
  <2>2. CASE ~ (n + Limit < Len(s))
    <3>1. end = Len(s)
      BY <1>0, <2>2
    <3>2. Len(page) = IF n + 1 <= Len(s) THEN Len(s) - n ELSE 0
      BY <1>3, <3>1
    <3>3. n + 1 <= Len(s) <=> ~ (n >= Len(s))
      BY <1>1
    <3>. QED BY <2>2, <3>2, <3>3, Zenon
  <2>. QED BY <2>1, <2>2
<1>5. ASSUME NEW j \in DOMAIN page PROVE n + j \in DOMAIN s /\ page[j] = s[n + j]
  <2>1. j \in 1..Len(page) /\ Len(page) \in Nat
    BY <1>3
  <2>2. j \in 1 .. end - n /\ n + j \in 1..Len(s)
    BY <1>1, <1>2, <1>3, <2>1
  <2>. QED BY <1>1, <1>3, <2>2
<1>. QED BY <1>3, <1>4, <1>5

\* A set has grown by at most one element.
OneMore(S, T) == \E x : T \subseteq S \cup {x}

\* What is at most at position n, and what is past it, when the listing changes.
LEMMA RemovedIds ==
    ASSUME NEW s \in Seq(Hardware), NEW i \in DOMAIN s, NEW t, t = RemoveAt(s, i),
           NEW n \in Nat
    PROVE  /\ Distinct(s) => IdsOf(s) \ {s[i].id} \subseteq IdsOf(t)
           /\ \A h \in ToSet(t) : h \in ToSet(s)
           /\ OneMore(IdsIn(s, 1, n), IdsIn(t, 1, n))
           /\ IdsIn(t, n + 1, Len(t)) \subseteq IdsIn(s, n + 1, Len(s))
<1>1. /\ t \in Seq(Hardware) /\ Len(t) = Len(s) - 1
      /\ \A j \in DOMAIN t : t[j] = IF j < i THEN s[j] ELSE s[j + 1]
      /\ Len(s) \in Nat /\ DOMAIN s = 1..Len(s) /\ DOMAIN t = 1 .. Len(s) - 1
      /\ i \in 1..Len(s)
  BY Removed
<1>2. ASSUME NEW j \in DOMAIN s, j # i PROVE s[j].id \in IdsOf(t)
  <2>1. CASE j < i
    <3>1. j \in DOMAIN t /\ t[j] = s[j]
      BY <1>1, <2>1
    <3>. QED BY <1>1, <3>1, AllIds
  <2>2. CASE j > i
    <3>1. j - 1 \in DOMAIN t /\ t[j - 1] = s[j]
      BY <1>1, <2>2
    <3>. QED BY <1>1, <3>1, AllIds
  <2>. QED BY <1>1, <1>2, <2>1, <2>2
<1>3. IdsOf(s) \ {s[i].id} \subseteq IdsOf(t)
  BY <1>2, AllIds
<1>4. \A h \in ToSet(t) : h \in ToSet(s)
  BY <1>1 DEF ToSet
<1>5. ASSUME NEW j \in DOMAIN t, j \in 1..n
      PROVE  t[j].id \in IdsIn(s, 1, n) \cup {s[n + 1].id}
  <2>1. CASE j < i
    <3>1. j \in DOMAIN s \cap (1..n) /\ t[j] = s[j]
      BY <1>1, <1>5, <2>1
    <3>. QED BY <3>1 DEF IdsIn
  <2>2. CASE ~ (j < i) /\ j # n
    <3>1. j + 1 \in DOMAIN s \cap (1..n) /\ t[j] = s[j + 1]
      BY <1>1, <1>5, <2>2
    <3>. QED BY <3>1 DEF IdsIn
  <2>3. CASE ~ (j < i) /\ j = n
    BY <1>1, <2>3
  <2>. QED BY <2>1, <2>2, <2>3
<1>6. ASSUME NEW j \in DOMAIN t, j \in n + 1 .. Len(t)
      PROVE  t[j].id \in IdsIn(s, n + 1, Len(s))
  <2>1. CASE j < i
    <3>1. j \in DOMAIN s \cap (n + 1 .. Len(s)) /\ t[j] = s[j]
      BY <1>1, <1>6, <2>1
    <3>. QED BY <3>1 DEF IdsIn
  <2>2. CASE ~ (j < i)
    <3>1. j + 1 \in DOMAIN s \cap (n + 1 .. Len(s)) /\ t[j] = s[j + 1]
      BY <1>1, <1>6, <2>2
    <3>. QED BY <3>1 DEF IdsIn
  <2>. QED BY <2>1, <2>2
<1>7. IdsIn(t, 1, n) \subseteq IdsIn(s, 1, n) \cup {s[n + 1].id}
  BY <1>5 DEF IdsIn
<1>8. IdsIn(t, n + 1, Len(t)) \subseteq IdsIn(s, n + 1, Len(s))
  BY <1>6 DEF IdsIn
<1>9. OneMore(IdsIn(s, 1, n), IdsIn(t, 1, n))
  BY <1>7 DEF OneMore
<1>. QED BY <1>3, <1>4, <1>8, <1>9

LEMMA InsertedIds ==
    ASSUME NEW s \in Seq(Hardware), NEW i \in 1 .. Len(s) + 1, NEW a \in Hardware,
           NEW t, t = InsertAt(s, i, a), NEW n \in Nat
    PROVE  /\ IdsOf(s) \subseteq IdsOf(t)
           /\ \A h \in ToSet(t) : h \in ToSet(s) \/ h = a
           /\ IdsIn(t, 1, n) \subseteq IdsIn(s, 1, n) \cup {a.id}
           /\ OneMore(IdsIn(s, n + 1, Len(s)), IdsIn(t, n + 1, Len(t)))
<1>1. /\ t \in Seq(Hardware) /\ Len(t) = Len(s) + 1
      /\ \A j \in DOMAIN t :
            t[j] = IF j < i THEN s[j] ELSE IF j = i THEN a ELSE s[j - 1]
      /\ Len(s) \in Nat /\ DOMAIN s = 1..Len(s) /\ DOMAIN t = 1 .. Len(s) + 1
  BY Inserted
<1>2. ASSUME NEW j \in DOMAIN s PROVE s[j].id \in IdsOf(t)
  <2>1. CASE j < i
    <3>1. j \in DOMAIN t /\ t[j] = s[j]
      BY <1>1, <2>1
    <3>. QED BY <1>1, <3>1, AllIds
  <2>2. CASE ~ (j < i)
    <3>1. j + 1 \in DOMAIN t /\ t[j + 1] = s[j]
      BY <1>1, <2>2
    <3>. QED BY <1>1, <3>1, AllIds
  <2>. QED BY <2>1, <2>2
<1>3. IdsOf(s) \subseteq IdsOf(t)
  BY <1>2, AllIds
<1>4. \A h \in ToSet(t) : h \in ToSet(s) \/ h = a
  <2>1. ASSUME NEW j \in DOMAIN t, j # i PROVE t[j] \in ToSet(s)
    <3>1. CASE j < i
      BY <1>1, <3>1 DEF ToSet
    <3>2. CASE j > i
      <4>1. j - 1 \in DOMAIN s /\ t[j] = s[j - 1]
        BY <1>1, <3>2
      <4>. QED BY <4>1 DEF ToSet
    <3>. QED BY <1>1, <2>1, <3>1, <3>2
  <2>2. \A h \in ToSet(t) : \E j \in DOMAIN t : h = t[j]
    BY DEF ToSet
  <2>3. i \in DOMAIN t /\ t[i] = a
    BY <1>1
  <2>. QED BY <2>1, <2>2, <2>3
<1>5. ASSUME NEW j \in DOMAIN t, j \in 1..n
      PROVE  t[j].id \in IdsIn(s, 1, n) \cup {a.id}
  <2>1. CASE j < i
    <3>1. j \in DOMAIN s \cap (1..n) /\ t[j] = s[j]
      BY <1>1, <1>5, <2>1
    <3>. QED BY <3>1 DEF IdsIn
  <2>2. CASE j = i
    BY <1>1, <2>2
  <2>3. CASE j > i
    <3>1. j - 1 \in DOMAIN s \cap (1..n) /\ t[j] = s[j - 1]
      BY <1>1, <1>5, <2>3
    <3>. QED BY <3>1 DEF IdsIn
  <2>. QED BY <1>1, <2>1, <2>2, <2>3
<1>. DEFINE x == IF i <= n THEN s[n].id ELSE a.id
<1>6. ASSUME NEW j \in DOMAIN t, j \in n + 1 .. Len(t)
      PROVE  t[j].id \in IdsIn(s, n + 1, Len(s)) \cup {x}
  <2>1. CASE j < i
    <3>1. j \in DOMAIN s \cap (n + 1 .. Len(s)) /\ t[j] = s[j]
      BY <1>1, <1>6, <2>1
    <3>. QED BY <3>1 DEF IdsIn
  <2>2. CASE j = i
    BY <1>1, <1>6, <2>2
  <2>3. CASE j > i /\ j = n + 1
    BY <1>1, <2>3
  <2>4. CASE j > i /\ j # n + 1
    <3>1. j - 1 \in DOMAIN s \cap (n + 1 .. Len(s)) /\ t[j] = s[j - 1]
      BY <1>1, <1>6, <2>4
    <3>. QED BY <3>1 DEF IdsIn
  <2>. QED BY <1>1, <2>1, <2>2, <2>3, <2>4
<1>7. IdsIn(t, 1, n) \subseteq IdsIn(s, 1, n) \cup {a.id}
  BY <1>5 DEF IdsIn
<1>8. IdsIn(t, n + 1, Len(t)) \subseteq IdsIn(s, n + 1, Len(s)) \cup {x}
  <2>. HIDE DEF x
  <2>. QED BY <1>6 DEF IdsIn
<1>9. OneMore(IdsIn(s, n + 1, Len(s)), IdsIn(t, n + 1, Len(t)))
  <2>. HIDE DEF x
  <2>. QED BY <1>8 DEF OneMore
<1>. HIDE DEF x
<1>. QED BY <1>3, <1>4, <1>7, <1>9

\* A page is what comes next in the listing.
LEMMA AppendedIds ==
    ASSUME NEW s \in Seq(Hardware), Distinct(s), hardware = s, NEW r \in Seq(Hardware),
           NEW page, page = Page(Len(r)), NEW u, u = r \o page
    PROVE  /\ u \in Seq(Hardware) /\ Len(u) = Len(r) + Len(page) /\ page \in Seq(Hardware)
           /\ ToSet(u) \subseteq ToSet(r) \cup ToSet(s)
           /\ IdsOf(u) = IdsOf(r) \cup IdsOf(page)
           /\ Cardinality(IdsOf(page)) = Len(page)
           /\ IdsIn(s, 1, Len(u)) \subseteq IdsIn(s, 1, Len(r)) \cup IdsOf(page)
           /\ IdsOf(page) \subseteq IdsIn(s, Len(r) + 1, Len(s))
           /\ IdsIn(s, Len(u) + 1, Len(s)) \subseteq
                 IdsIn(s, Len(r) + 1, Len(s)) \ IdsOf(page)
           /\ Len(page) < Limit => Len(u) >= Len(s)
<1>. DEFINE n == Len(r)
            m == Len(page)
<1>1. /\ Len(s) \in Nat /\ DOMAIN s = 1..Len(s) /\ n \in Nat /\ DOMAIN r = 1..n
      /\ Limit \in Nat \ {0}
  BY WeeklyAssumption
<1>2. /\ page \in Seq(Hardware)
      /\ m = IF n >= Len(s) THEN 0 ELSE IF n + Limit < Len(s) THEN Limit ELSE Len(s) - n
      /\ \A j \in DOMAIN page : n + j \in DOMAIN s /\ page[j] = s[n + j]
  BY <1>1, Appended
<1>3. m \in Nat /\ DOMAIN page = 1..m
  BY <1>2
<1>4. /\ u \in Seq(Hardware) /\ Len(u) = n + m
      /\ \A j \in 1 .. n + m : u[j] = IF j <= n THEN r[j] ELSE page[j - n]
  <2>1. n = Len(r) /\ m = Len(page) /\ n \in Nat /\ m \in Nat /\ page \in Seq(Hardware)
    BY <1>1, <1>2, <1>3
  <2>. HIDE DEF n, m
  <2>. QED BY <2>1, Joined
<1>. HIDE DEF n, m
<1>5. DOMAIN u = 1 .. n + m
  BY <1>1, <1>3, <1>4
<1>6. /\ \A j \in 1..n : j \in DOMAIN u /\ u[j] = r[j]
      /\ \A j \in 1..m : n + j \in DOMAIN u /\ u[n + j] = page[j]
      /\ \A j \in DOMAIN u : j \in 1..n \/ \E k \in 1..m : j = n + k
  <2>1. \A j \in 1..n : j \in DOMAIN u /\ u[j] = r[j]
    BY <1>1, <1>3, <1>4, <1>5
  <2>2. \A j \in 1..m : n + j \in 1 .. n + m /\ ~ (n + j <= n) /\ (n + j) - n = j
    BY <1>1, <1>3
  <2>3. \A j \in 1..m : n + j \in DOMAIN u /\ u[n + j] = page[j]
    BY <1>4, <1>5, <2>2
  <2>4. \A j \in DOMAIN u : j \notin 1..n => j - n \in 1..m /\ j = n + (j - n)
    BY <1>1, <1>3, <1>5
  <2>. QED BY <2>1, <2>3, <2>4
<1>7. ToSet(u) \subseteq ToSet(r) \cup ToSet(s)
  <2>1. \A j \in 1..n : u[j] \in ToSet(r)
    BY <1>1, <1>6 DEF ToSet
  <2>2. \A j \in 1..m : u[n + j] \in ToSet(s)
    BY <1>2, <1>3, <1>6 DEF ToSet
  <2>3. \A j \in DOMAIN u : u[j] \in ToSet(r) \cup ToSet(s)
    BY <1>6, <2>1, <2>2
  <2>. QED BY <2>3 DEF ToSet
<1>8. IdsOf(u) = IdsOf(r) \cup IdsOf(page)
  <2>1. /\ IdsOf(u) = {u[j].id : j \in DOMAIN u} /\ IdsOf(r) = {r[j].id : j \in 1..n}
        /\ IdsOf(page) = {page[j].id : j \in 1..m}
    BY <1>1, <1>2, <1>3, <1>4, AllIds
  <2>2. \A j \in 1..n : r[j].id \in IdsOf(u)
    BY <1>6, <2>1
  <2>3. \A j \in 1..m : page[j].id \in IdsOf(u)
    BY <1>6, <2>1
  <2>4. ASSUME NEW j \in DOMAIN u PROVE u[j].id \in IdsOf(r) \cup IdsOf(page)
    <3>1. CASE j \in 1..n
      BY <1>6, <2>1, <3>1
    <3>2. ASSUME NEW k \in 1..m, j = n + k PROVE u[j].id \in IdsOf(page)
      BY <1>6, <2>1, <3>2
    <3>. QED BY <1>6, <3>1, <3>2
  <2>5. IdsOf(u) \subseteq IdsOf(r) \cup IdsOf(page)
    BY <2>1, <2>4, Zenon
  <2>6. IdsOf(r) \subseteq IdsOf(u) /\ IdsOf(page) \subseteq IdsOf(u)
    BY <2>1, <2>2, <2>3, Zenon
  <2>. QED BY <2>5, <2>6
<1>9. Cardinality(IdsOf(page)) = m
  <2>1. \A j, k \in 1..m : n + j = n + k => j = k
    BY <1>1, <1>3
  <2>2. Distinct(page)
    BY <1>2, <1>3, <2>1 DEF Distinct
  <2>. QED BY <1>2, <2>2, DistinctIds DEF m
\* The positions of the listing: those of the page, and those before and after it.
<1>10. /\ IdsOf(page) = {s[n + j].id : j \in 1..m}
       /\ \A j \in 1..m : n + j \in DOMAIN s \cap (n + 1 .. n + m)
  <2>1. \A j \in 1..m : n + j \in DOMAIN s /\ page[j] = s[n + j]
    BY <1>2, <1>3
  <2>2. \A j \in 1..m : n + j \in n + 1 .. n + m
    BY <1>1, <1>3
  <2>3. IdsOf(page) = {page[j].id : j \in 1..m}
    BY <1>2, <1>3, AllIds
  <2>. QED BY <2>1, <2>2, <2>3
<1>11. \A j \in DOMAIN s : j \in n + 1 .. n + m => s[j].id \in IdsOf(page)
  <2>1. \A j \in DOMAIN s : j \in n + 1 .. n + m => j - n \in 1..m /\ n + (j - n) = j
    BY <1>1, <1>3
  <2>. QED BY <1>10, <2>1
<1>12. IdsIn(s, 1, n + m) \subseteq IdsIn(s, 1, n) \cup IdsOf(page)
  <2>1. \A j \in DOMAIN s : j \in 1 .. n + m => j \in 1..n \/ j \in n + 1 .. n + m
    BY <1>1, <1>3
  <2>. QED BY <1>11, <2>1 DEF IdsIn
<1>13. IdsOf(page) \subseteq IdsIn(s, n + 1, Len(s))
  <2>1. \A j \in DOMAIN s : j \in n + 1 .. n + m => j \in n + 1 .. Len(s)
    BY <1>1, <1>3
  <2>. QED BY <1>10, <2>1 DEF IdsIn
<1>14. IdsIn(s, n + m + 1, Len(s)) \subseteq IdsIn(s, n + 1, Len(s)) \ IdsOf(page)
  <2>1. \A j \in DOMAIN s : j \in n + m + 1 .. Len(s) =>
           j \in n + 1 .. Len(s) /\ \A k \in 1..m : j # n + k
    BY <1>1, <1>3
  <2>2. \A j \in DOMAIN s, k \in 1..m : s[j].id = s[n + k].id => j = n + k
    BY <1>10 DEF Distinct
  <2>. QED BY <1>10, <2>1, <2>2 DEF IdsIn
<1>15. m < Limit => n + m >= Len(s)
  <2>1. CASE n >= Len(s)
    BY <1>1, <1>3, <2>1
  <2>2. CASE ~ (n >= Len(s)) /\ n + Limit < Len(s)
    BY <1>1, <1>2, <2>2
  <2>3. CASE ~ (n >= Len(s)) /\ ~ (n + Limit < Len(s))
    BY <1>1, <1>2, <2>3
  <2>. QED BY <2>1, <2>2, <2>3
<1>. QED BY <1>2, <1>4, <1>7, <1>8, <1>9, <1>12, <1>13, <1>14, <1>15 DEF n, m

-----------------------------------------------------------------------------
(* The inductive invariant.                                                *)

\* What the requests so far have gone past, and what they have not.
Behind == IdsIn(hardware, 1, Len(rows))
Ahead == IdsIn(hardware, Len(rows) + 1, Len(hardware))

\* An asset kept all along and gone past without a row slipped behind the offset when
\* another one was deleted.
MissedAreDeletions == Cardinality((kept \cap Behind) \ IdsOf(rows)) <= deletions

\* A row that is repeated, or still to be, moved past the offset when an asset was created.
RepeatedAreCreated ==
    Len(rows) - Cardinality(IdsOf(rows)) + Cardinality(IdsOf(rows) \cap Ahead)
        <= Cardinality(created)

\* Whenever it is listed, the row of an asset that is still silent says so.
SilentAreListed ==
    \A r \in ToSet(hardware) \cup ToSet(rows) :
        r.id \in silent => IsReported(r) /\ IsSilent(r, generated)

IInv ==
    /\ TypeOK /\ IsFiniteSet(created)
    /\ MissedAreDeletions /\ RepeatedAreCreated
    /\ pc = "mailing" => short \/ Len(hardware) <= Len(rows)
    /\ SilentAreListed

LEMMA WeeksTyped ==
    ASSUME TypeOK PROVE WeekOf(generated) \in Weeks
<1>1. /\ generated \in Nat /\ LastDay \in Nat /\ generated <= LastDay
      /\ DaysPerWeek \in Nat \ {0}
  BY WeeklyAssumption DEF TypeOK
<1>2. \A a, b \in Nat, d \in Nat \ {0} : a <= b => a \div d \in Nat /\ a \div d <= b \div d
  OBVIOUS
<1>. QED BY <1>1, <1>2 DEF WeekOf, Weeks

\* Inventory changes no id.
LEMMA Redated ==
    ASSUME NEW h \in Hardware, NEW d \in Days
    PROVE  \E a \in Hardware : a = [h EXCEPT !.last = d] /\ a.id = h.id /\ a.last = d
<1>1. /\ [h EXCEPT !.last = d] \in Hardware
      /\ [h EXCEPT !.last = d].id = h.id /\ [h EXCEPT !.last = d].last = d
  BY DEF Hardware
<1>. QED BY <1>1

LEMMA SameIds ==
    ASSUME NEW s \in Seq(Hardware), NEW t \in Seq(Hardware), DOMAIN t = DOMAIN s,
           \A j \in DOMAIN s : t[j].id = s[j].id
    PROVE  /\ IdsOf(t) = IdsOf(s) /\ (Distinct(s) => Distinct(t))
           /\ \A from, to : IdsIn(t, from, to) = IdsIn(s, from, to)
<1>1. IdsOf(t) = IdsOf(s)
  <2>1. IdsOf(t) = {t[j].id : j \in DOMAIN s} /\ IdsOf(s) = {s[j].id : j \in DOMAIN s}
    BY AllIds
  <2>2. IdsOf(t) \subseteq IdsOf(s) /\ IdsOf(s) \subseteq IdsOf(t)
    BY <2>1, Zenon
  <2>. QED BY <2>2
<1>2. Distinct(s) => Distinct(t)
  BY DEF Distinct
<1>3. \A from, to : IdsIn(t, from, to) = IdsIn(s, from, to)
  BY DEF IdsIn
<1>. QED BY <1>1, <1>2, <1>3

LEMMA InventoryDoes ==
    ASSUME TypeOK, NEW i \in DOMAIN hardware, NEW d \in 0 .. day + 1, Inventory(i, d)
    PROVE  /\ hardware' \in Seq(Hardware) /\ Len(hardware') = Len(hardware)
           /\ Distinct(hardware') /\ IdsOf(hardware') = IdsOf(hardware)
           /\ \A from, to : IdsIn(hardware', from, to) = IdsIn(hardware, from, to)
           /\ \A h \in ToSet(hardware') :
                 h \in ToSet(hardware) \/ (h.id = hardware[i].id /\ h.last = d)
<1>1. hardware \in Seq(Hardware) /\ Distinct(hardware) /\ hardware[i] \in Hardware /\ d \in Days
  <2>1. hardware \in Seq(Hardware) /\ Distinct(hardware) /\ day \in Nat /\ day <= LastDay
    BY WeeklyAssumption DEF TypeOK
  <2>2. d \in Days
    BY <2>1, WeeklyAssumption DEF Days
  <2>. QED BY <2>1, <2>2
<1>2. PICK a \in Hardware : /\ a = [hardware[i] EXCEPT !.last = d]
                            /\ a.id = hardware[i].id /\ a.last = d
  BY <1>1, Redated
<1>3. hardware' = [hardware EXCEPT ![i] = a]
  BY <1>2 DEF Inventory
<1>4. /\ hardware' \in Seq(Hardware) /\ Len(hardware') = Len(hardware)
      /\ DOMAIN hardware' = DOMAIN hardware
      /\ \A j \in DOMAIN hardware : hardware'[j] = IF j = i THEN a ELSE hardware[j]
  BY <1>1, <1>3
<1>5. \A j \in DOMAIN hardware : hardware'[j].id = hardware[j].id
  BY <1>2, <1>4
<1>6. \A h \in ToSet(hardware') : h \in ToSet(hardware) \/ h = a
  BY <1>4 DEF ToSet
<1>7. /\ IdsOf(hardware') = IdsOf(hardware) /\ Distinct(hardware')
      /\ \A from, to : IdsIn(hardware', from, to) = IdsIn(hardware, from, to)
  BY <1>1, <1>4, <1>5, SameIds
<1>. QED BY <1>2, <1>4, <1>6, <1>7, Zenon

LEMMA TypeKept == ASSUME TypeOK, [Next]_vars PROVE TypeOK'
<1>. USE DEF TypeOK
<1>0. /\ hardware \in Seq(Hardware) /\ rows \in Seq(Hardware) /\ Distinct(hardware)
      /\ day \in Days /\ generated \in FirstDay .. day
  BY WeeklyAssumption DEF Days
<1>1. CASE Start
  <2>1. /\ pc' = "listing" /\ generated' = day /\ rows' = <<>>
        /\ kept' = IdsOf(hardware) /\ silent' \subseteq kept'
        /\ created' = {} /\ deletions' = 0 /\ short' = FALSE
        /\ UNCHANGED <<hardware, day, mailed, changes>>
    BY <1>1 DEF Start, IdsOf
  <2>2. generated' \in FirstDay .. day' /\ deletions' \in 0 .. changes'
    BY <2>1, WeeklyAssumption
  <2>3. rows' \in Seq(Hardware) /\ IdsOf(hardware') = IdsOf(hardware)
    BY <2>1
  <2>4. /\ kept' \subseteq IdsOf(hardware') /\ created' \subseteq AssetIds
        /\ short' \in BOOLEAN
    BY <2>1, <2>3
  <2>. QED BY <2>1, <2>2, <2>3, <2>4
<1>2. CASE FetchPage
  <2>1. PICK page \in {Page(Len(rows)), <<>>} :
          /\ rows' = rows \o page /\ pc' \in {"listing", "mailing"}
          /\ short' = (short \/ page # Page(Len(rows)))
    BY <1>2 DEF FetchPage
  <2>2. rows' \in Seq(Hardware)
    <3>1. CASE page = Page(Len(rows))
      BY <1>0, <2>1, <3>1, AppendedIds
    <3>2. CASE page = <<>>
      BY <1>0, <2>1, <3>2
    <3>. QED BY <3>1, <3>2
  <2>3. UNCHANGED <<hardware, day, generated, mailed, kept, silent, created, deletions, changes>>
    BY <1>2 DEF FetchPage
  <2>. QED BY <2>1, <2>2, <2>3
<1>3. ASSUME Leave, mailed' \subseteq Weeks PROVE TypeOK'
  <2>1. /\ pc' = "idle" /\ rows' = <<>> /\ kept' = {} /\ silent' = {} /\ created' = {}
        /\ deletions' = 0 /\ short' = FALSE /\ UNCHANGED <<hardware, day, generated, changes>>
    BY <1>3 DEF Leave
  <2>2. 0 \in 0 .. changes /\ <<>> \in Seq(Hardware)
    BY WeeklyAssumption
  <2>. QED BY <1>3, <2>1, <2>2
<1>4. CASE Fail
  BY <1>3, <1>4 DEF Fail
<1>5. CASE Mail
  BY <1>3, <1>5, WeeksTyped DEF Mail
<1>6. ASSUME NEW i \in DOMAIN hardware, NEW d \in 0 .. day + 1, Inventory(i, d) PROVE TypeOK'
  <2>2. hardware' \in Seq(Hardware) /\ Distinct(hardware') /\ IdsOf(hardware') = IdsOf(hardware)
    BY <1>6, InventoryDoes
  <2>3. /\ UNCHANGED <<day, pc, generated, rows, mailed, kept, created, deletions, short>>
        /\ changes' = changes + 1 /\ changes < MaxChanges /\ silent' \subseteq silent
    BY <1>6 DEF Inventory, Change, job
  <2>4. changes' \in 0 .. MaxChanges /\ deletions' \in 0 .. changes'
    BY <2>3, WeeklyAssumption
  <2>. QED BY <2>2, <2>3, <2>4
<1>7. ASSUME NEW a \in NewAssets, NEW i \in 1 .. Len(hardware) + 1, Create(a, i) PROVE TypeOK'
  <2>1. PICK asset \in Hardware :
          asset = [id |-> a.id, category |-> a.category, created |-> day, last |-> Never]
    BY <1>0, WeeklyAssumption DEF Hardware
  <2>2. /\ asset.id = a.id /\ a.id \in AssetIds /\ a.id \notin IdsOf(hardware)
        /\ hardware' = InsertAt(hardware, i, asset)
    BY <1>7, <2>1, WeeklyAssumption DEF Create
  <2>3. /\ hardware' \in Seq(Hardware) /\ Distinct(hardware')
        /\ IdsOf(hardware) \subseteq IdsOf(hardware')
    BY <1>0, <2>2, Inserted, InsertedIds
  <2>4. /\ UNCHANGED <<day, pc, generated, rows, mailed, kept, silent, deletions, short>>
        /\ created' = created \cup {a.id}
        /\ changes' = changes + 1 /\ changes < MaxChanges
    BY <1>7 DEF Create, Change, job
  <2>5. changes' \in 0 .. MaxChanges /\ deletions' \in 0 .. changes'
    BY <2>4, WeeklyAssumption
  <2>. QED BY <2>2, <2>3, <2>4, <2>5
<1>8. ASSUME NEW i \in DOMAIN hardware, Delete(i) PROVE TypeOK'
  <2>1. /\ hardware' = RemoveAt(hardware, i) /\ deletions' = deletions + 1
        /\ kept' = kept \ {hardware[i].id} /\ silent' = silent \ {hardware[i].id}
        /\ UNCHANGED <<day, pc, generated, rows, mailed, created, short>>
        /\ changes' = changes + 1 /\ changes < MaxChanges
    BY <1>8 DEF Delete, Change, job
  <2>2. /\ hardware' \in Seq(Hardware) /\ Distinct(hardware')
        /\ IdsOf(hardware) \ {hardware[i].id} \subseteq IdsOf(hardware')
    BY <1>0, <2>1, Removed, RemovedIds
  <2>3. changes' \in 0 .. MaxChanges /\ deletions' \in 0 .. changes'
    BY <2>1, WeeklyAssumption
  <2>. QED BY <2>1, <2>2, <2>3
<1>9. CASE TimePasses
  <2>1. /\ day < LastDay /\ day' = day + 1
        /\ UNCHANGED <<hardware, pc, generated, rows, mailed, kept, silent, created,
                       deletions, short, changes>>
    BY <1>9 DEF TimePasses, job, history
  <2>2. day' \in FirstDay .. LastDay /\ generated' \in FirstDay .. day'
    BY <2>1, WeeklyAssumption
  <2>. QED BY <2>1, <2>2
<1>10. CASE UNCHANGED vars
  BY <1>10 DEF vars, job, history
<1>. QED BY <1>1, <1>2, <1>4, <1>5, <1>6, <1>7, <1>8, <1>9, <1>10 DEF Next, Job, Meanwhile

-----------------------------------------------------------------------------
(* What a step does to the listing.                                        *)

LEMMA FetchDoes ==
    ASSUME TypeOK, FetchPage
    PROVE  \E ids :
             /\ IdsOf(rows') = IdsOf(rows) \cup ids /\ IsFiniteSet(ids)
             /\ Len(rows') = Len(rows) + Cardinality(ids)
             /\ Behind' \subseteq Behind \cup ids
             /\ ids \subseteq Ahead /\ Ahead' \subseteq Ahead \ ids
             /\ ToSet(rows') \subseteq ToSet(rows) \cup ToSet(hardware)
             /\ pc' = "mailing" => short' \/ Len(hardware) <= Len(rows')
             /\ UNCHANGED <<hardware, day, generated, mailed, kept, silent, created, deletions>>
<1>. DEFINE whole == Page(Len(rows))
<1>. HIDE DEF whole
<1>a. PICK page \in {whole, <<>>}, counted \in BOOLEAN :
        /\ rows' = rows \o page
        /\ pc' = IF IsLast(page, rows', counted) THEN "mailing" ELSE "listing"
        /\ short' = (short \/ page # whole)
        /\ UNCHANGED <<hardware, day, generated, mailed, kept, silent, created, deletions>>
  BY DEF FetchPage, whole
<1>b. CASE page # whole
  <2>1. page = <<>> /\ short'
    BY <1>a, <1>b
  <2>2. rows \in Seq(Hardware) /\ rows \o <<>> = rows /\ Len(rows) \in Nat
    BY DEF TypeOK
  <2>3. rows' = rows /\ hardware' = hardware
    BY <1>a, <2>1, <2>2
  <2>4. IsFiniteSet({}) /\ Cardinality({}) = 0
    BY FS_EmptySet
  <2>5. Behind' = Behind /\ Ahead' = Ahead
    BY <2>3 DEF Behind, Ahead
  <2>6. /\ IdsOf(rows') = IdsOf(rows) \cup {}
        /\ Len(rows') = Len(rows) + Cardinality({})
        /\ Behind' \subseteq Behind \cup {} /\ {} \subseteq Ahead /\ Ahead' \subseteq Ahead \ {}
        /\ ToSet(rows') \subseteq ToSet(rows) \cup ToSet(hardware)
    BY <2>2, <2>3, <2>4, <2>5
  <2>. QED BY <1>a, <2>1, <2>4, <2>6
<1>c. SUFFICES ASSUME page = whole
               PROVE  \E ids :
             /\ IdsOf(rows') = IdsOf(rows) \cup ids /\ IsFiniteSet(ids)
             /\ Len(rows') = Len(rows) + Cardinality(ids)
             /\ Behind' \subseteq Behind \cup ids
             /\ ids \subseteq Ahead /\ Ahead' \subseteq Ahead \ ids
             /\ ToSet(rows') \subseteq ToSet(rows) \cup ToSet(hardware)
             /\ pc' = "mailing" => short' \/ Len(hardware) <= Len(rows')
             /\ UNCHANGED <<hardware, day, generated, mailed, kept, silent, created, deletions>>
  BY <1>b
<1>1. /\ rows' = rows \o whole
      /\ pc' = IF IsLast(whole, rows', counted) THEN "mailing" ELSE "listing"
      /\ UNCHANGED <<hardware, day, generated, mailed, kept, silent, created, deletions>>
  BY <1>a, <1>c
<1>2. hardware \in Seq(Hardware) /\ Distinct(hardware) /\ rows \in Seq(Hardware)
  BY DEF TypeOK
<1>3. /\ rows' \in Seq(Hardware) /\ Len(rows') = Len(rows) + Len(whole) /\ whole \in Seq(Hardware)
      /\ ToSet(rows') \subseteq ToSet(rows) \cup ToSet(hardware)
      /\ IdsOf(rows') = IdsOf(rows) \cup IdsOf(whole)
      /\ Cardinality(IdsOf(whole)) = Len(whole)
      /\ IdsIn(hardware, 1, Len(rows')) \subseteq IdsIn(hardware, 1, Len(rows)) \cup IdsOf(whole)
      /\ IdsOf(whole) \subseteq IdsIn(hardware, Len(rows) + 1, Len(hardware))
      /\ IdsIn(hardware, Len(rows') + 1, Len(hardware)) \subseteq
            IdsIn(hardware, Len(rows) + 1, Len(hardware)) \ IdsOf(whole)
      /\ Len(whole) < Limit => Len(rows') >= Len(hardware)
  BY <1>1, <1>2, AppendedIds DEF whole
<1>4. IsFiniteSet(IdsOf(whole))
  BY <1>3, AllIds
<1>5. pc' = "mailing" => Len(hardware) <= Len(rows')
  BY <1>1, <1>2, <1>3 DEF IsLast
<1>6. hardware' = hardware
  BY <1>1
<1>7. Behind' \subseteq Behind \cup IdsOf(whole)
  BY <1>3, <1>6 DEF Behind
<1>8. IdsOf(whole) \subseteq Ahead /\ Ahead' \subseteq Ahead \ IdsOf(whole)
  BY <1>3, <1>6 DEF Ahead
<1>. QED BY <1>1, <1>3, <1>4, <1>5, <1>7, <1>8

LEMMA CreateDoes ==
    ASSUME TypeOK, NEW a \in NewAssets, NEW i \in 1 .. Len(hardware) + 1, Create(a, i)
    PROVE  /\ a.id \notin kept /\ a.id \notin silent /\ a.id \notin created
           /\ created' = created \cup {a.id}
           /\ Behind' \subseteq Behind \cup {a.id}
           /\ OneMore(Ahead, Ahead')
           /\ \A h \in ToSet(hardware') : h \in ToSet(hardware) \/ h.id = a.id
           /\ pc = "listing"
           /\ UNCHANGED <<day, pc, generated, rows, mailed, kept, silent, deletions>>
<1>1. hardware \in Seq(Hardware) /\ day \in Days /\ Len(rows) \in Nat
  BY WeeklyAssumption DEF TypeOK, Days
<1>2. PICK asset \in Hardware :
        asset = [id |-> a.id, category |-> a.category, created |-> day, last |-> Never]
  BY <1>1, WeeklyAssumption DEF Hardware
<1>3. /\ asset.id = a.id /\ a.id \notin IdsOf(hardware) \cup created
      /\ hardware' = InsertAt(hardware, i, asset)
      /\ pc = "listing" /\ created' = created \cup {a.id}
      /\ UNCHANGED <<day, pc, generated, rows, mailed, kept, silent, deletions>>
  BY <1>2 DEF Create, Change, job
<1>4. /\ \A h \in ToSet(hardware') : h \in ToSet(hardware) \/ h = asset
      /\ IdsIn(hardware', 1, Len(rows)) \subseteq IdsIn(hardware, 1, Len(rows)) \cup {asset.id}
      /\ OneMore(IdsIn(hardware, Len(rows) + 1, Len(hardware)),
                 IdsIn(hardware', Len(rows) + 1, Len(hardware')))
  <2>1. PICK n \in Nat : n = Len(rows)
    BY <1>1, Zenon
  <2>2. PICK t : t = hardware'
    OBVIOUS
  <2>3. hardware \in Seq(Hardware) /\ t = InsertAt(hardware, i, asset)
    BY <1>1, <1>3, <2>2, Zenon
  <2>4. \A h \in ToSet(t) : h \in ToSet(hardware) \/ h = asset
    BY <2>3, InsertedIds
  <2>5. IdsIn(t, 1, n) \subseteq IdsIn(hardware, 1, n) \cup {asset.id}
    BY <2>3, InsertedIds
  <2>6. OneMore(IdsIn(hardware, n + 1, Len(hardware)), IdsIn(t, n + 1, Len(t)))
    BY <2>3, InsertedIds
  <2>. QED BY <2>1, <2>2, <2>4, <2>5, <2>6, Zenon
<1>5. kept \subseteq IdsOf(hardware) /\ silent \subseteq kept
  BY DEF TypeOK
<1>6. rows' = rows
  BY <1>3
<1>7. Behind' \subseteq Behind \cup {a.id}
  BY <1>3, <1>4, <1>6 DEF Behind
<1>8. OneMore(Ahead, Ahead')
  BY <1>4, <1>6 DEF Ahead
<1>. QED BY <1>3, <1>4, <1>5, <1>7, <1>8

LEMMA DeleteDoes ==
    ASSUME TypeOK, NEW i \in DOMAIN hardware, Delete(i)
    PROVE  /\ kept' \subseteq kept /\ silent' \subseteq silent
           /\ deletions' = deletions + 1
           /\ OneMore(Behind, Behind')
           /\ Ahead' \subseteq Ahead
           /\ ToSet(hardware') \subseteq ToSet(hardware)
           /\ pc = "listing"
           /\ UNCHANGED <<day, pc, generated, rows, mailed, created>>
<1>1. hardware \in Seq(Hardware) /\ Len(rows) \in Nat
  BY DEF TypeOK
<1>2. /\ hardware' = RemoveAt(hardware, i) /\ deletions' = deletions + 1
      /\ kept' \subseteq kept /\ silent' \subseteq silent /\ pc = "listing"
      /\ UNCHANGED <<day, pc, generated, rows, mailed, created>>
  BY DEF Delete, Change, job
<1>3. /\ \A h \in ToSet(hardware') : h \in ToSet(hardware)
      /\ OneMore(IdsIn(hardware, 1, Len(rows)), IdsIn(hardware', 1, Len(rows)))
      /\ IdsIn(hardware', Len(rows) + 1, Len(hardware')) \subseteq
            IdsIn(hardware, Len(rows) + 1, Len(hardware))
  <2>1. PICK n \in Nat : n = Len(rows)
    BY <1>1, Zenon
  <2>2. PICK t : t = hardware'
    OBVIOUS
  <2>3. hardware \in Seq(Hardware) /\ t = RemoveAt(hardware, i)
    BY <1>1, <1>2, <2>2, Zenon
  <2>4. /\ \A h \in ToSet(t) : h \in ToSet(hardware)
        /\ OneMore(IdsIn(hardware, 1, n), IdsIn(t, 1, n))
        /\ IdsIn(t, n + 1, Len(t)) \subseteq IdsIn(hardware, n + 1, Len(hardware))
    BY <2>3, RemovedIds
  <2>. QED BY <2>1, <2>2, <2>4, Zenon
<1>4. rows' = rows
  BY <1>2
<1>5. OneMore(Behind, Behind')
  BY <1>3, <1>4 DEF Behind
<1>6. Ahead' \subseteq Ahead
  BY <1>3, <1>4 DEF Ahead
<1>. QED BY <1>2, <1>3, <1>5, <1>6

\* Start, Fail and Mail begin anew.
Anew == rows' = <<>> /\ created' = {} /\ deletions' = 0

LEMMA AnewDoes ==
    ASSUME TypeOK, Start \/ Fail \/ Mail PROVE Anew /\ hardware' = hardware /\ pc' # "mailing"
BY DEF Start, Fail, Mail, Leave, Anew

-----------------------------------------------------------------------------
(* The counts.                                                             *)

LEMMA MissedKept ==
    ASSUME TypeOK, MissedAreDeletions, [Next]_vars PROVE MissedAreDeletions'
<1>. DEFINE missed == (kept \cap Behind) \ IdsOf(rows)
<1>0. IsFiniteSet(missed) /\ Cardinality(missed) \in Nat /\ deletions \in Nat
  <2>1. IsFiniteSet(Behind)
    BY IdsFinite DEF TypeOK, Behind
  <2>2. IsFiniteSet(missed)
    BY <2>1, FS_Intersection, FS_Difference
  <2>. QED BY <2>2, FS_CardinalityType, WeeklyAssumption DEF TypeOK
<1>1. Cardinality(missed) <= deletions
  BY DEF MissedAreDeletions
<1>2. ASSUME missed' \subseteq missed, deletions' = deletions PROVE MissedAreDeletions'
  <2>. HIDE DEF missed
  <2>1. IsFiniteSet(missed') /\ Cardinality(missed') <= Cardinality(missed)
    BY <1>0, <1>2, FS_Subset
  <2>2. Cardinality(missed') \in Nat
    BY <2>1, FS_CardinalityType
  <2>3. Cardinality(missed') <= deletions'
    BY <1>0, <1>1, <1>2, <2>1, <2>2
  <2>. QED BY <2>3 DEF MissedAreDeletions, missed
<1>3. ASSUME NEW x, missed' \subseteq missed \cup {x}, deletions' = deletions + 1
      PROVE  MissedAreDeletions'
  <2>. HIDE DEF missed
  <2>1. IsFiniteSet(missed \cup {x}) /\ Cardinality(missed \cup {x}) <= Cardinality(missed) + 1
    BY <1>0, FS_AddElement
  <2>2. Cardinality(missed \cup {x}) \in Nat
    BY <2>1, FS_CardinalityType
  <2>3. IsFiniteSet(missed') /\ Cardinality(missed') <= Cardinality(missed \cup {x})
    BY <1>3, <2>1, FS_Subset
  <2>4. Cardinality(missed') \in Nat
    BY <2>3, FS_CardinalityType
  <2>5. Cardinality(missed') <= deletions'
    BY <1>0, <1>1, <1>3, <2>1, <2>2, <2>3, <2>4
  <2>. QED BY <2>5 DEF MissedAreDeletions, missed
<1>4. CASE Start \/ Fail \/ Mail
  <2>1. rows' = <<>> /\ deletions' = 0
    BY <1>4, AnewDoes DEF Anew
  <2>2. Behind' = {}
    BY <2>1 DEF Behind, IdsIn
  <2>3. missed' = {}
    BY <2>2
  <2>4. Cardinality(missed') = 0
    <3>. HIDE DEF missed
    <3>. QED BY <2>3, FS_EmptySet
  <2>5. Cardinality(missed') <= deletions'
    BY <2>1, <2>4
  <2>. QED BY <2>5 DEF MissedAreDeletions
<1>5. CASE FetchPage
  <2>1. PICK ids : /\ IdsOf(rows') = IdsOf(rows) \cup ids /\ Behind' \subseteq Behind \cup ids
                   /\ kept' = kept /\ deletions' = deletions
    BY <1>5, FetchDoes
  <2>. QED BY <1>2, <2>1
<1>6. ASSUME NEW i \in DOMAIN hardware, NEW d \in 0 .. day + 1, Inventory(i, d)
      PROVE  MissedAreDeletions'
  <2>1. UNCHANGED <<rows, kept, deletions>>
    BY <1>6 DEF Inventory, Change, job
  <2>2. Behind' = Behind
    BY <1>6, <2>1, InventoryDoes DEF Behind
  <2>. QED BY <1>2, <2>1, <2>2
<1>7. ASSUME NEW a \in NewAssets, NEW i \in 1 .. Len(hardware) + 1, Create(a, i)
      PROVE  MissedAreDeletions'
  <2>1. /\ a.id \notin kept /\ Behind' \subseteq Behind \cup {a.id}
        /\ UNCHANGED <<rows, kept, deletions>>
    BY <1>7, CreateDoes
  <2>. QED BY <1>2, <2>1
<1>8. ASSUME NEW i \in DOMAIN hardware, Delete(i) PROVE MissedAreDeletions'
  <2>1. PICK x : Behind' \subseteq Behind \cup {x}
    BY <1>8, DeleteDoes DEF OneMore
  <2>2. kept' \subseteq kept /\ rows' = rows /\ deletions' = deletions + 1
    BY <1>8, DeleteDoes
  <2>. QED BY <1>3, <2>1, <2>2
<1>9. CASE TimePasses \/ UNCHANGED vars
  <2>1. UNCHANGED <<hardware, rows, kept, deletions>>
    BY <1>9 DEF TimePasses, vars, job, history
  <2>2. missed' = missed
    BY <2>1 DEF Behind
  <2>. QED BY <1>2, <2>1, <2>2
<1>. QED BY <1>4, <1>5, <1>6, <1>7, <1>8, <1>9 DEF Next, Job, Meanwhile

LEMMA Grown ==
    ASSUME NEW S, IsFiniteSet(S), NEW T, OneMore(S, T)
    PROVE  /\ IsFiniteSet(T) /\ Cardinality(T) \in Nat
           /\ Cardinality(T) <= Cardinality(S) + 1
<1>1. PICK x : T \subseteq S \cup {x}
  BY DEF OneMore
<1>2. /\ IsFiniteSet(S \cup {x}) /\ Cardinality(S) \in Nat
      /\ Cardinality(S \cup {x}) <= Cardinality(S) + 1
  BY FS_AddElement, FS_CardinalityType
<1>3. IsFiniteSet(T) /\ Cardinality(T) <= Cardinality(S \cup {x})
  BY <1>1, <1>2, FS_Subset
<1>4. Cardinality(T) \in Nat /\ Cardinality(S \cup {x}) \in Nat
  BY <1>2, <1>3, FS_CardinalityType
<1>. QED BY <1>2, <1>3, <1>4

\* A page adds its rows; those among them that were listed before are not to be repeated.
LEMMA PageCounts ==
    ASSUME NEW L, NEW B, NEW ids, IsFiniteSet(L), IsFiniteSet(B), IsFiniteSet(ids),
           ids \subseteq B, NEW C, C \subseteq B \ ids
    PROVE  /\ Cardinality(L) \in Nat /\ Cardinality(ids) \in Nat
           /\ Cardinality(L \cap B) \in Nat
           /\ Cardinality(L \cup ids) \in Nat /\ Cardinality((L \cup ids) \cap C) \in Nat
           /\ Cardinality(ids) - Cardinality(L \cup ids) + Cardinality((L \cup ids) \cap C)
                 <= Cardinality(L \cap B) - Cardinality(L)
<1>1. IsFiniteSet(L \cap ids) /\ IsFiniteSet(L \cap B)
  BY FS_Intersection
<1>2. /\ IsFiniteSet(L \cup ids)
      /\ Cardinality(L \cup ids) = Cardinality(L) + Cardinality(ids) - Cardinality(L \cap ids)
  BY FS_Union
<1>3. /\ IsFiniteSet((L \cap B) \ ids)
      /\ Cardinality((L \cap B) \ ids) = Cardinality(L \cap B) - Cardinality((L \cap B) \cap ids)
  BY <1>1, FS_Difference
<1>4. (L \cap B) \cap ids = L \cap ids
  OBVIOUS
<1>5. (L \cup ids) \cap C \subseteq (L \cap B) \ ids
  OBVIOUS
<1>6. /\ IsFiniteSet((L \cup ids) \cap C)
      /\ Cardinality((L \cup ids) \cap C) <= Cardinality((L \cap B) \ ids)
  BY <1>3, <1>5, FS_Subset
<1>7. /\ Cardinality(L) \in Nat /\ Cardinality(ids) \in Nat
      /\ Cardinality(L \cap ids) \in Nat /\ Cardinality(L \cap B) \in Nat
      /\ Cardinality(L \cup ids) \in Nat /\ Cardinality((L \cap B) \ ids) \in Nat
      /\ Cardinality((L \cup ids) \cap C) \in Nat
  BY <1>1, <1>2, <1>3, <1>6, FS_CardinalityType
<1>8. Cardinality((L \cap B) \cap ids) = Cardinality(L \cap ids)
  <2>1. PICK S : S = (L \cap B) \cap ids
    OBVIOUS
  <2>2. S = L \cap ids
    BY <1>4, <2>1
  <2>. QED BY <2>1, <2>2, Zenon
<1>9. Cardinality((L \cap B) \ ids) = Cardinality(L \cap B) - Cardinality(L \cap ids)
  BY <1>3, <1>8, Zenon
<1>. QED BY <1>2, <1>6, <1>7, <1>9

LEMMA CreatedFinite ==
    ASSUME TypeOK, IsFiniteSet(created), [Next]_vars
    PROVE  IsFiniteSet(created')
<1>1. CASE Start \/ Fail \/ Mail
  BY <1>1, AnewDoes, FS_EmptySet DEF Anew
<1>2. ASSUME NEW a \in NewAssets, NEW i \in 1 .. Len(hardware) + 1, Create(a, i)
      PROVE  IsFiniteSet(created')
  BY <1>2, FS_AddElement DEF Create
<1>3. CASE UNCHANGED created
  BY <1>3
<1>. QED
  BY <1>1, <1>2, <1>3
  DEF Next, Job, Meanwhile, FetchPage, TimePasses, Inventory, Delete, vars, history

LEMMA RepeatedKept ==
    ASSUME TypeOK, IsFiniteSet(created), RepeatedAreCreated, [Next]_vars
    PROVE  RepeatedAreCreated'
<1>. DEFINE listed == IdsOf(rows)
            again == listed \cap Ahead
<1>0. /\ rows \in Seq(Hardware) /\ Len(rows) \in Nat
      /\ IsFiniteSet(listed) /\ IsFiniteSet(Ahead) /\ IsFiniteSet(again)
      /\ Cardinality(listed) \in Nat /\ Cardinality(again) \in Nat
      /\ Cardinality(created) \in Nat
  <2>1. rows \in Seq(Hardware) /\ hardware \in Seq(Hardware)
    BY DEF TypeOK
  <2>2. Len(rows) \in Nat /\ Len(rows) + 1 \in Int /\ Len(hardware) \in Int
    BY <2>1
  <2>3. IsFiniteSet(listed) /\ IsFiniteSet(Ahead)
    BY <2>1, <2>2, AllIds, IdsFinite DEF Ahead
  <2>4. IsFiniteSet(again)
    BY <2>3, FS_Intersection
  <2>. QED BY <2>1, <2>2, <2>3, <2>4, FS_CardinalityType
<1>1. Len(rows) - Cardinality(listed) + Cardinality(again) <= Cardinality(created)
  BY DEF RepeatedAreCreated
<1>2. ASSUME rows' = rows, Ahead' \subseteq Ahead, created' = created
      PROVE  RepeatedAreCreated'
  <2>1. listed' = listed /\ again' \subseteq again
    BY <1>2
  <2>. HIDE DEF listed, again
  <2>2. IsFiniteSet(again') /\ Cardinality(again') <= Cardinality(again)
    BY <1>0, <2>1, FS_Subset
  <2>3. Cardinality(again') \in Nat
    BY <2>2, FS_CardinalityType
  <2>4. Len(rows') - Cardinality(listed') + Cardinality(again') <= Cardinality(created')
    BY <1>0, <1>1, <1>2, <2>1, <2>2, <2>3
  <2>. QED BY <2>4 DEF RepeatedAreCreated, listed, again
<1>3. CASE Start \/ Fail \/ Mail
  <2>1. rows' = <<>> /\ created' = {}
    BY <1>3, AnewDoes DEF Anew
  <2>2. listed' = {} /\ again' = {} /\ Len(rows') = 0
    BY <2>1 DEF IdsOf, ToSet
  <2>. HIDE DEF listed, again
  <2>3. Cardinality(listed') = 0 /\ Cardinality(again') = 0 /\ Cardinality(created') = 0
    BY <2>1, <2>2, FS_EmptySet
  <2>4. Len(rows') - Cardinality(listed') + Cardinality(again') <= Cardinality(created')
    BY <2>2, <2>3
  <2>. QED BY <2>4 DEF RepeatedAreCreated, listed, again
<1>4. CASE FetchPage
  <2>1. PICK ids : /\ listed' = listed \cup ids /\ IsFiniteSet(ids)
                   /\ Len(rows') = Len(rows) + Cardinality(ids)
                   /\ ids \subseteq Ahead /\ Ahead' \subseteq Ahead \ ids
                   /\ created' = created
    BY <1>4, FetchDoes
  <2>2. again = listed \cap Ahead /\ again' = (listed \cup ids) \cap Ahead'
    BY <2>1
  <2>. HIDE DEF listed, again
  <2>3. PICK C : C = Ahead'
    OBVIOUS
  <2>4. C \subseteq Ahead \ ids
    BY <2>1, <2>3
  <2>5. /\ Cardinality(ids) \in Nat /\ Cardinality(listed \cup ids) \in Nat
        /\ Cardinality((listed \cup ids) \cap C) \in Nat
        /\ Cardinality(ids) - Cardinality(listed \cup ids)
              + Cardinality((listed \cup ids) \cap C)
              <= Cardinality(listed \cap Ahead) - Cardinality(listed)
    BY <1>0, <2>1, <2>4, PageCounts
  <2>6. Len(rows') - Cardinality(listed') + Cardinality(again') <= Cardinality(created')
    BY <1>0, <1>1, <2>1, <2>2, <2>3, <2>5
  <2>. QED BY <2>6 DEF RepeatedAreCreated, listed, again
<1>5. ASSUME NEW i \in DOMAIN hardware, NEW d \in 0 .. day + 1, Inventory(i, d)
      PROVE  RepeatedAreCreated'
  <2>1. UNCHANGED <<rows, created>>
    BY <1>5 DEF Inventory, Change, job
  <2>2. Ahead' = Ahead
    BY <1>5, <2>1, InventoryDoes DEF Ahead
  <2>. QED BY <1>2, <2>1, <2>2
<1>6. ASSUME NEW a \in NewAssets, NEW i \in 1 .. Len(hardware) + 1, Create(a, i)
      PROVE  RepeatedAreCreated'
  <2>1. /\ OneMore(Ahead, Ahead') /\ rows' = rows
        /\ a.id \notin created /\ created' = created \cup {a.id}
    BY <1>6, CreateDoes
  <2>2. listed' = listed /\ OneMore(again, again')
    BY <2>1 DEF OneMore
  <2>. HIDE DEF listed, again
  <2>3. Cardinality(again') \in Nat /\ Cardinality(again') <= Cardinality(again) + 1
    BY <1>0, <2>2, Grown
  <2>4. Cardinality(created') = Cardinality(created) + 1
    BY <2>1, FS_AddElement
  <2>5. Len(rows') - Cardinality(listed') + Cardinality(again') <= Cardinality(created')
    BY <1>0, <1>1, <2>1, <2>2, <2>3, <2>4
  <2>. QED BY <2>5 DEF RepeatedAreCreated, listed, again
<1>7. ASSUME NEW i \in DOMAIN hardware, Delete(i) PROVE RepeatedAreCreated'
  BY <1>2, <1>7, DeleteDoes
<1>8. CASE TimePasses \/ UNCHANGED vars
  <2>1. UNCHANGED <<hardware, rows, created>>
    BY <1>8 DEF TimePasses, vars, job, history
  <2>. QED BY <1>2, <2>1 DEF Ahead
<1>. QED BY <1>3, <1>4, <1>5, <1>6, <1>7, <1>8 DEF Next, Job, Meanwhile

LEMMA SilentKept ==
    ASSUME TypeOK, SilentAreListed, [Next]_vars PROVE SilentAreListed'
<1>0. \A r \in ToSet(hardware) \cup ToSet(rows) :
        r.id \in silent => IsReported(r) /\ IsSilent(r, generated)
  BY DEF SilentAreListed
<1>1. ASSUME silent' \subseteq silent, generated' = generated,
             \A r \in ToSet(hardware') \cup ToSet(rows') :
                r.id \in silent' => r \in ToSet(hardware) \cup ToSet(rows)
      PROVE  SilentAreListed'
  BY <1>0, <1>1 DEF SilentAreListed, IsReported, IsSilent
<1>2. CASE Start
  <2>1. /\ generated' = day /\ rows' = <<>> /\ hardware' = hardware
        /\ silent' = {r.id : r \in {h \in ToSet(hardware) : IsReported(h) /\ IsSilent(h, day)}}
    BY <1>2 DEF Start
  <2>2. \A g, h \in ToSet(hardware) : g.id = h.id => g = h
    BY DEF TypeOK, Distinct, ToSet
  <2>3. ToSet(rows') = {}
    BY <2>1 DEF ToSet
  <2>4. \A h \in ToSet(hardware) : h.id \in silent' => IsReported(h) /\ IsSilent(h, day)
    BY <2>1, <2>2
  <2>. QED BY <2>1, <2>3, <2>4 DEF SilentAreListed, IsReported, IsSilent
<1>3. ASSUME silent' = {} PROVE SilentAreListed'
  BY <1>3 DEF SilentAreListed
<1>4. CASE Fail \/ Mail
  BY <1>3, <1>4 DEF Fail, Mail, Leave
<1>5. CASE FetchPage
  <2>1. /\ ToSet(rows') \subseteq ToSet(rows) \cup ToSet(hardware)
        /\ UNCHANGED <<hardware, generated, silent>>
    BY <1>5, FetchDoes
  <2>. QED BY <1>1, <2>1
<1>6. ASSUME NEW i \in DOMAIN hardware, NEW d \in 0 .. day + 1, Inventory(i, d)
      PROVE  SilentAreListed'
  <2>1. UNCHANGED <<rows, generated>> /\ silent' = silent \ {hardware[i].id}
    BY <1>6 DEF Inventory, Change, job
  <2>2. \A h \in ToSet(hardware') :
           h \in ToSet(hardware) \/ (h.id = hardware[i].id /\ h.last = d)
    BY <1>6, InventoryDoes
  <2>. QED BY <1>1, <2>1, <2>2
<1>7. ASSUME NEW a \in NewAssets, NEW i \in 1 .. Len(hardware) + 1, Create(a, i)
      PROVE  SilentAreListed'
  <2>1. /\ \A h \in ToSet(hardware') : h \in ToSet(hardware) \/ h.id = a.id
        /\ a.id \notin silent /\ UNCHANGED <<rows, generated, silent>>
    BY <1>7, CreateDoes
  <2>. QED BY <1>1, <2>1
<1>8. ASSUME NEW i \in DOMAIN hardware, Delete(i) PROVE SilentAreListed'
  <2>1. /\ ToSet(hardware') \subseteq ToSet(hardware) /\ silent' \subseteq silent
        /\ UNCHANGED <<rows, generated>>
    BY <1>8, DeleteDoes
  <2>. QED BY <1>1, <2>1
<1>9. CASE TimePasses \/ UNCHANGED vars
  <2>1. UNCHANGED <<hardware, rows, generated, silent>>
    BY <1>9 DEF TimePasses, vars, job, history
  <2>. QED BY <1>1, <2>1
<1>. QED BY <1>2, <1>4, <1>5, <1>6, <1>7, <1>8, <1>9 DEF Next, Job, Meanwhile

-----------------------------------------------------------------------------
(* The theorems.                                                           *)

LEMMA Invariance == Spec => []IInv
<1>1. Init => IInv
  <2>. SUFFICES ASSUME Init PROVE IInv
    OBVIOUS
  <2>1. hardware \in Seq(Hardware) /\ Distinct(hardware)
    BY WeeklyAssumption DEF Init
  <2>2. /\ day = FirstDay /\ pc = "idle" /\ generated = FirstDay /\ rows = <<>>
        /\ mailed = {} /\ kept = {} /\ silent = {} /\ created = {} /\ short = FALSE
        /\ deletions = 0 /\ changes = 0
    BY DEF Init
  <2>3. TypeOK
    <3>1. day \in FirstDay .. LastDay /\ generated \in FirstDay .. day
      BY <2>2, WeeklyAssumption
    <3>2. rows \in Seq(Hardware) /\ deletions \in 0 .. changes /\ changes \in 0 .. MaxChanges
      BY <2>2, WeeklyAssumption
    <3>. QED BY <2>1, <2>2, <3>1, <3>2 DEF TypeOK
  <2>4. IdsOf(rows) = {} /\ Len(rows) = 0
    BY <2>2 DEF IdsOf, ToSet
  <2>5. MissedAreDeletions
    <3>1. (kept \cap Behind) \ IdsOf(rows) = {}
      BY <2>2
    <3>2. Cardinality((kept \cap Behind) \ IdsOf(rows)) = 0
      BY <3>1, FS_EmptySet, Zenon
    <3>. QED BY <2>2, <3>2 DEF MissedAreDeletions
  <2>6. RepeatedAreCreated
    <3>1. IdsOf(rows) \cap Ahead = {}
      BY <2>4
    <3>2. /\ Cardinality(IdsOf(rows) \cap Ahead) = 0 /\ Cardinality(IdsOf(rows)) = 0
          /\ Cardinality(created) = 0
      BY <2>2, <2>4, <3>1, FS_EmptySet, Zenon
    <3>. QED BY <2>4, <3>2 DEF RepeatedAreCreated
  <2>7. IsFiniteSet(created) /\ SilentAreListed /\ pc # "mailing"
    BY <2>2, FS_EmptySet DEF SilentAreListed
  <2>. QED BY <2>3, <2>5, <2>6, <2>7 DEF IInv
<1>2. IInv /\ [Next]_vars => IInv'
  <2>. SUFFICES ASSUME IInv, [Next]_vars PROVE IInv'
    OBVIOUS
  <2>1. /\ TypeOK' /\ IsFiniteSet(created)' /\ MissedAreDeletions' /\ RepeatedAreCreated'
        /\ SilentAreListed'
    BY TypeKept, CreatedFinite, MissedKept, RepeatedKept, SilentKept DEF IInv
  <2>2. pc' = "mailing" => short' \/ Len(hardware') <= Len(rows')
    <3>1. CASE FetchPage
      BY <3>1, FetchDoes DEF IInv
    <3>2. CASE Start \/ Fail \/ Mail
      BY <3>2, AnewDoes DEF IInv
    <3>3. CASE pc' = "listing"
      BY <3>3
    <3>4. CASE UNCHANGED <<hardware, rows, pc, short>>
      BY <3>4 DEF IInv
    <3>. QED
      BY <3>1, <3>2, <3>3, <3>4
      DEF Next, Job, Meanwhile, TimePasses, Inventory, Create, Delete, Change, vars, job, history
  <2>. QED BY <2>1, <2>2 DEF IInv
<1>. QED BY <1>1, <1>2, PTL DEF Spec

\* The variables keep their types, whatever happens to the fleet during a listing: no two
\* assets come to share an id, no week is mailed outside the calendar, and an asset said to
\* have been there all along is in Snipe-IT.
THEOREM TypeCorrect == Spec => []TypeOK
<1>1. IInv => TypeOK
  BY DEF IInv
<1>. QED BY <1>1, Invariance, PTL

LEMMA NoneLost ==
    ASSUME IInv, pc = "mailing"
    PROVE  short \/ Cardinality(kept \ IdsOf(rows)) <= deletions
<1>. SUFFICES ASSUME ~ short PROVE Cardinality(kept \ IdsOf(rows)) <= deletions
  OBVIOUS
<1>1. /\ hardware \in Seq(Hardware) /\ rows \in Seq(Hardware)
      /\ kept \subseteq IdsOf(hardware) /\ Len(hardware) <= Len(rows)
  BY DEF IInv, TypeOK
<1>2. DOMAIN hardware \subseteq 1..Len(rows)
  BY <1>1
<1>3. IdsOf(hardware) \subseteq Behind
  BY <1>1, <1>2, AllIds DEF Behind, IdsIn
<1>4. kept \ IdsOf(rows) = (kept \cap Behind) \ IdsOf(rows)
  BY <1>1, <1>3
<1>. QED BY <1>4, Zenon DEF IInv, MissedAreDeletions

\* A report that is mailed lists the fleet (list_assets): of the assets that were there all
\* along it lacks at most one for each deletion meanwhile, unless an answer without rows
\* ended the listing, and it repeats at most one row for each asset created, whatever the
\* size of the fleet and of a page.
THEOREM FleetListed == Spec => []ListsTheFleet
<1>1. IInv => ListsTheFleet
  <2>. SUFFICES ASSUME IInv, pc = "mailing"
                PROVE  /\ short \/ Cardinality(kept \ IdsOf(rows)) <= deletions
                       /\ Len(rows) - Cardinality(IdsOf(rows)) <= Cardinality(created)
    BY DEF ListsTheFleet
  <2>1. /\ hardware \in Seq(Hardware) /\ rows \in Seq(Hardware) /\ IsFiniteSet(created)
        /\ kept \subseteq IdsOf(hardware)
    BY DEF IInv, TypeOK
  <2>2. Len(rows) \in Nat /\ Len(hardware) \in Nat
    BY <2>1
  <2>5. short \/ Cardinality(kept \ IdsOf(rows)) <= deletions
    BY NoneLost
  <2>6. IsFiniteSet(IdsOf(rows)) /\ IsFiniteSet(IdsOf(rows) \cap Ahead)
    BY <2>1, AllIds, FS_Intersection
  <2>7. /\ Cardinality(IdsOf(rows)) \in Nat /\ Cardinality(IdsOf(rows) \cap Ahead) \in Nat
        /\ Cardinality(created) \in Nat
    BY <2>1, <2>6, FS_CardinalityType
  <2>8. RepeatedAreCreated
    BY DEF IInv
  <2>9. Len(rows) - Cardinality(IdsOf(rows)) <= Cardinality(created)
    BY <2>2, <2>7, <2>8 DEF RepeatedAreCreated
  <2>. QED BY <2>5, <2>9
<1>. QED BY <1>1, Invariance, PTL

-----------------------------------------------------------------------------
(* The order of the table.                                                 *)

\* R is a strict order of F, in which Before are the elements before e.
Orders(R, F) ==
    /\ \A x, y \in F : x # y => <<x, y>> \in R \/ <<y, x>> \in R
    /\ \A x \in F : <<x, x>> \notin R
    /\ \A x, y, z \in F : <<x, y>> \in R /\ <<y, z>> \in R => <<x, z>> \in R

Before(F, R, e) == {f \in F : <<f, e>> \in R}

\* Every place in the order is that of an element, and every element has one of its own.
LEMMA Places ==
    ASSUME NEW F, IsFiniteSet(F), NEW R, Orders(R, F), NEW n \in Nat, n = Cardinality(F)
    PROVE  /\ \A k \in 1..n : \E e \in F : Cardinality(Before(F, R, e)) = k - 1
           /\ \A x, y \in F : Cardinality(Before(F, R, x)) < Cardinality(Before(F, R, y))
                                 => <<x, y>> \in R
           /\ \A e \in F : Cardinality(Before(F, R, e)) + 1 \in 1..n
           /\ \A x, y \in F : Cardinality(Before(F, R, x)) = Cardinality(Before(F, R, y))
                                 => x = y
<1>1. PICK rank : rank = [e \in F |-> Cardinality(Before(F, R, e))]
  OBVIOUS
<1>2. ASSUME NEW e \in F
      PROVE  IsFiniteSet(Before(F, R, e)) /\ rank[e] \in Nat /\ rank[e] < n
  <2>1. PICK B : B = Before(F, R, e)
    OBVIOUS
  <2>2. B \in SUBSET F /\ e \notin B
    BY <2>1 DEF Before, Orders
  <2>3. IsFiniteSet(B) /\ Cardinality(B) <= n /\ (n = Cardinality(B) => F = B)
    BY <2>2, FS_Subset
  <2>4. Cardinality(B) \in Nat /\ Cardinality(B) # n
    BY <2>2, <2>3, FS_CardinalityType
  <2>5. Cardinality(B) < n
    BY <2>3, <2>4
  <2>. QED BY <1>1, <2>1, <2>3, <2>4, <2>5
<1>3. ASSUME NEW x \in F, NEW y \in F, <<x, y>> \in R PROVE rank[x] < rank[y]
  <2>1. PICK B : B = Before(F, R, x)
    OBVIOUS
  <2>2. PICK C : C = Before(F, R, y)
    OBVIOUS
  <2>3. B \in SUBSET C /\ B # C
    BY <1>3, <2>1, <2>2 DEF Before, Orders
  <2>4. IsFiniteSet(C) /\ rank[x] = Cardinality(B) /\ rank[y] = Cardinality(C)
    BY <1>1, <1>2, <2>1, <2>2
  <2>5. Cardinality(B) <= Cardinality(C) /\ Cardinality(B) # Cardinality(C)
    BY <2>3, <2>4, FS_Subset
  <2>6. rank[x] \in Nat /\ rank[y] \in Nat
    BY <1>2
  <2>. QED BY <2>4, <2>5, <2>6
<1>4. \A x, y \in F : rank[x] <= rank[y] => x = y \/ <<x, y>> \in R
  <2>1. ASSUME NEW x \in F, NEW y \in F, rank[x] <= rank[y], x # y PROVE <<x, y>> \in R
    <3>1. rank[x] \in Nat /\ rank[y] \in Nat
      BY <1>2
    <3>2. ~ (rank[y] < rank[x])
      BY <2>1, <3>1
    <3>. QED BY <1>3, <2>1, <3>2 DEF Orders
  <2>. QED BY <2>1
<1>5. \A x, y \in F : rank[x] = rank[y] => x = y
  <2>1. ASSUME NEW x \in F, NEW y \in F, rank[x] = rank[y], x # y PROVE FALSE
    <3>1. rank[x] \in Nat /\ rank[y] \in Nat
      BY <1>2
    <3>2. ~ (rank[x] < rank[y]) /\ ~ (rank[y] < rank[x])
      BY <2>1, <3>1
    <3>. QED BY <1>3, <2>1, <3>2 DEF Orders
  <2>. QED BY <2>1
<1>6. rank \in Injection(F, 0 .. n - 1)
  <2>1. \A e \in F : rank[e] \in 0 .. n - 1
    BY <1>2
  <2>. QED BY <1>1, <1>5, <2>1 DEF Injection, IsInjective
<1>7. IsFiniteSet(0 .. n - 1) /\ Cardinality(0 .. n - 1) = n
  <2>1. 0 \in Int /\ n - 1 \in Int
    OBVIOUS
  <2>2. /\ IsFiniteSet(0 .. n - 1)
        /\ Cardinality(0 .. n - 1) = IF 0 > n - 1 THEN 0 ELSE (n - 1) - 0 + 1
    BY <2>1, FS_Interval
  <2>. QED BY <2>2
<1>8. rank \in Surjection(F, 0 .. n - 1)
  BY <1>6, <1>7, FS_Injection
<1>9. \A k \in 0 .. n - 1 : \E e \in F : rank[e] = k
  BY <1>8 DEF Surjection
<1>10. \A k \in 1..n : k - 1 \in 0 .. n - 1
  OBVIOUS
<1>11. \A x, y \in F : rank[x] < rank[y] => <<x, y>> \in R
  <2>1. ASSUME NEW x \in F, NEW y \in F, rank[x] < rank[y] PROVE <<x, y>> \in R
    <3>1. rank[x] \in Nat /\ rank[y] \in Nat
      BY <1>2
    <3>2. rank[x] <= rank[y] /\ x # y
      BY <2>1, <3>1
    <3>. QED BY <1>4, <3>2
  <2>. QED BY <2>1
<1>12. \A k \in 1..n : \E e \in F : rank[e] = k - 1
  BY <1>9, <1>10
<1>13. \A e \in F : rank[e] + 1 \in 1..n
  BY <1>2
<1>. QED BY <1>1, <1>5, <1>11, <1>12, <1>13

\* The key of a row is made of numbers.
LEMMA KeyTyped ==
    ASSUME NEW r \in Hardware, NEW at \in Nat
    PROVE  /\ StatusOf(r, at) \in {"never", "critical", "overdue", "current"}
           /\ priority[StatusOf(r, at)] \in 0..3 /\ AgeDays(r, at) \in Nat /\ r.id \in Nat
<1>1. StatusOf(r, at) \in {"never", "critical", "overdue", "current"}
  BY DEF StatusOf
<1>2. priority[StatusOf(r, at)] \in 0..3
  BY <1>1 DEF priority
<1>3. r.id \in Nat /\ Reference(r) \in Nat
  <2>1. Days \subseteq Nat
    BY WeeklyAssumption DEF Days
  <2>2. r.id \in AssetIds /\ r.created \in Days /\ r.last \in Days \cup {Never}
    BY DEF Hardware
  <2>3. AssetIds \subseteq Nat
    BY WeeklyAssumption
  <2>. QED BY <2>1, <2>2, <2>3 DEF Reference
<1>4. AgeDays(r, at) \in Nat
  BY <1>3 DEF AgeDays
<1>. QED BY <1>1, <1>2, <1>3, <1>4

Reported == {i \in DOMAIN rows : IsReported(rows[i])}
Coming(at) == {p \in Reported \X Reported : ComesBefore(p[1], p[2], at)}

LEMMA TableOrdered ==
    ASSUME TypeOK, NEW at \in Nat
    PROVE  IsFiniteSet(Reported) /\ Orders(Coming(at), Reported)
<1>1. rows \in Seq(Hardware) /\ Len(rows) \in Nat /\ DOMAIN rows = 1..Len(rows)
  BY DEF TypeOK
<1>2. IsFiniteSet(Reported)
  <2>1. IsFiniteSet(1..Len(rows))
    BY <1>1, FS_Interval
  <2>2. Reported \in SUBSET (1..Len(rows))
    BY <1>1 DEF Reported
  <2>. QED BY <2>1, <2>2, FS_Subset
<1>p. PICK P : P = [i \in Reported |-> priority[StatusOf(rows[i], at)]]
  OBVIOUS
<1>a. PICK A : A = [i \in Reported |-> AgeDays(rows[i], at)]
  OBVIOUS
<1>i. PICK I : I = [i \in Reported |-> rows[i].id]
  OBVIOUS
<1>3. \A i \in Reported : i \in Int /\ P[i] \in Int /\ A[i] \in Int /\ I[i] \in Int
  <2>1. \A i \in Reported : i \in Int /\ rows[i] \in Hardware
    BY <1>1 DEF Reported
  <2>. QED BY <1>p, <1>a, <1>i, <2>1, KeyTyped
<1>4. \A i, j \in Reported : Precedes(rows[i], rows[j], at) <=>
         \/ P[i] < P[j]
         \/ P[i] = P[j] /\ A[i] > A[j]
         \/ P[i] = P[j] /\ A[i] = A[j] /\ I[i] < I[j]
  BY <1>p, <1>a, <1>i DEF Precedes
<1>5. \A i, j \in Reported : <<i, j>> \in Coming(at) <=> ComesBefore(i, j, at)
  BY DEF Coming
<1>6. \A i, j \in Reported : <<i, j>> \in Coming(at) <=>
         \/ P[i] < P[j]
         \/ P[i] = P[j] /\ A[i] > A[j]
         \/ P[i] = P[j] /\ A[i] = A[j] /\ I[i] < I[j]
         \/ P[i] = P[j] /\ A[i] = A[j] /\ I[i] = I[j] /\ i < j
  <2>. TAKE i, j \in Reported
  <2>1. ComesBefore(i, j, at) <=>
          \/ Precedes(rows[i], rows[j], at)
          \/ i < j /\ ~ Precedes(rows[j], rows[i], at)
    BY DEF ComesBefore
  <2>2. /\ P[i] \in Int /\ A[i] \in Int /\ I[i] \in Int
        /\ P[j] \in Int /\ A[j] \in Int /\ I[j] \in Int
    BY <1>3
  <2>3. Precedes(rows[i], rows[j], at) <=>
          \/ P[i] < P[j]
          \/ P[i] = P[j] /\ A[i] > A[j]
          \/ P[i] = P[j] /\ A[i] = A[j] /\ I[i] < I[j]
    BY <1>4
  <2>4. Precedes(rows[j], rows[i], at) <=>
          \/ P[j] < P[i]
          \/ P[j] = P[i] /\ A[j] > A[i]
          \/ P[j] = P[i] /\ A[j] = A[i] /\ I[j] < I[i]
    BY <1>4
  <2>5. (<<i, j>> \in Coming(at)) <=> ComesBefore(i, j, at)
    BY <1>5
  <2>. QED BY <2>1, <2>2, <2>3, <2>4, <2>5
<1>. QED BY <1>2, <1>3, <1>6 DEF Orders

\* Of two places in the table, the first has the more urgent row; every row has a place.
LEMMA TableSorted ==
    ASSUME TypeOK, NEW at \in Nat
    PROVE  /\ InventoryRows(at) \in Seq(Hardware)
           /\ \A k, l \in DOMAIN InventoryRows(at) : k < l =>
                 LET r == InventoryRows(at)[k]
                     q == InventoryRows(at)[l]
                 IN  /\ priority[StatusOf(r, at)] <= priority[StatusOf(q, at)]
                     /\ StatusOf(r, at) = StatusOf(q, at) => AgeDays(r, at) >= AgeDays(q, at)
           /\ \A i \in Reported :
                 \E k \in DOMAIN InventoryRows(at) : InventoryRows(at)[k] = rows[i]
<1>. DEFINE R == Coming(at)
            t == InventoryRows(at)
<1>1. IsFiniteSet(Reported) /\ Orders(R, Reported)
  BY TableOrdered
<1>2. PICK n \in Nat : n = Cardinality(Reported)
  BY <1>1, FS_CardinalityType, Zenon
<1>a. PICK row : row = [k \in 1..n |->
                         CHOOSE i \in Reported : Cardinality(Before(Reported, R, i)) = k - 1]
  OBVIOUS
<1>3. t = [k \in 1..n |-> rows[row[k]]]
  <2>1. \A i \in Reported :
           Before(Reported, R, i) = {j \in Reported : ComesBefore(j, i, at)}
    BY DEF Before, Coming
  <2>2. \A k \in 1..n : row[k] = CHOOSE i \in Reported :
           Cardinality({j \in Reported : ComesBefore(j, i, at)}) = k - 1
    BY <1>a, <2>1
  <2>3. t = [k \in 1..Cardinality(Reported) |-> rows[CHOOSE i \in Reported :
                Cardinality({j \in Reported : ComesBefore(j, i, at)}) = k - 1]]
    BY DEF InventoryRows, Reported
  <2>. QED BY <1>2, <2>2, <2>3
<1>. HIDE DEF R, t
<1>4. /\ \A k \in 1..n : \E e \in Reported : Cardinality(Before(Reported, R, e)) = k - 1
      /\ \A x, y \in Reported :
            Cardinality(Before(Reported, R, x)) < Cardinality(Before(Reported, R, y))
               => <<x, y>> \in R
      /\ \A e \in Reported : Cardinality(Before(Reported, R, e)) + 1 \in 1..n
      /\ \A x, y \in Reported :
            Cardinality(Before(Reported, R, x)) = Cardinality(Before(Reported, R, y)) => x = y
  BY <1>1, <1>2, Places
<1>5. \A k \in 1..n : row[k] \in Reported /\ Cardinality(Before(Reported, R, row[k])) = k - 1
  BY <1>a, <1>4
<1>6. \A i \in Reported : rows[i] \in Hardware
  BY DEF Reported, TypeOK
<1>7. t \in Seq(Hardware) /\ DOMAIN t = 1..n /\ \A k \in 1..n : t[k] = rows[row[k]]
  BY <1>3, <1>5, <1>6
<1>8. ASSUME NEW k \in 1..n, NEW l \in 1..n, k < l
      PROVE  /\ priority[StatusOf(t[k], at)] <= priority[StatusOf(t[l], at)]
             /\ StatusOf(t[k], at) = StatusOf(t[l], at) => AgeDays(t[k], at) >= AgeDays(t[l], at)
  <2>1. k - 1 < l - 1
    BY <1>8
  <2>2. <<row[k], row[l]>> \in R
    BY <1>4, <1>5, <2>1
  <2>3. ComesBefore(row[k], row[l], at)
    BY <2>2 DEF R, Coming
  <2>4. Precedes(t[k], t[l], at) \/ ~ Precedes(t[l], t[k], at)
    BY <1>7, <2>3 DEF ComesBefore
  <2>5. t[k] \in Hardware /\ t[l] \in Hardware
    BY <1>7
  <2>6. /\ priority[StatusOf(t[k], at)] \in Int /\ priority[StatusOf(t[l], at)] \in Int
        /\ AgeDays(t[k], at) \in Int /\ AgeDays(t[l], at) \in Int
    BY <2>5, KeyTyped
  <2>. QED BY <2>4, <2>6 DEF Precedes
<1>9. ASSUME NEW i \in Reported PROVE \E k \in 1..n : t[k] = rows[i]
  <2>1. PICK k \in 1..n : k = Cardinality(Before(Reported, R, i)) + 1
    BY <1>4
  <2>2. IsFiniteSet(Before(Reported, R, i))
    BY <1>1, FS_Subset DEF Before
  <2>3. Cardinality(Before(Reported, R, i)) \in Nat
    BY <2>2, FS_CardinalityType
  <2>4. Cardinality(Before(Reported, R, row[k])) = Cardinality(Before(Reported, R, i))
    BY <1>5, <2>1, <2>3
  <2>5. row[k] = i
    BY <1>4, <1>5, <2>4
  <2>. QED BY <1>7, <2>5
<1>. QED BY <1>7, <1>8, <1>9 DEF t

\* The cut of weekly_max_rows.
LEMMA CutAt ==
    ASSUME NEW table \in Seq(Hardware)
    PROVE  \E m \in Nat :
             /\ m <= Len(table)
             /\ \A r \in ToSet(Shown(table)) : \E k \in 1..m : r = table[k]
             /\ \A k \in 1..m : table[k] \in ToSet(Shown(table))
             /\ \A q \in ToSet(SubSeq(table, Len(Shown(table)) + 1, Len(table))) :
                   \E l \in m + 1 .. Len(table) : q = table[l]
<1>1. Len(table) \in Nat /\ DOMAIN table = 1..Len(table) /\ MaxRows \in Nat
  BY WeeklyAssumption
<1>. DEFINE most == IF Len(table) < MaxRows THEN Len(table) ELSE MaxRows
<1>2. most \in Nat /\ most <= Len(table)
  BY <1>1
<1>3. PICK m \in Nat : m = most
  BY <1>2, Zenon
<1>4. PICK shown : shown = Shown(table)
  OBVIOUS
<1>5. m <= Len(table) /\ shown = SubSeq(table, 1, m)
  BY <1>2, <1>3, <1>4 DEF Shown
<1>. HIDE DEF most
<1>6. Len(shown) = m /\ DOMAIN shown = 1..m /\ \A j \in 1..m : shown[j] = table[j]
  <2>1. \A j \in 1..m : table[j] \in Hardware
    BY <1>1, <1>5
  <2>. QED BY <1>1, <1>5, <2>1, SubSeqProperties
<1>7. PICK dropped : dropped = SubSeq(table, m + 1, Len(table))
  OBVIOUS
<1>8. \A q \in ToSet(dropped) : \E l \in m + 1 .. Len(table) : q = table[l]
  <2>1. \A j \in m + 1 .. Len(table) : table[j] \in Hardware
    BY <1>1
  <2>2. /\ DOMAIN dropped = 1 .. Len(table) - m
        /\ \A j \in 1 .. Len(table) - m : dropped[j] = table[m + j]
    BY <1>1, <1>5, <1>7, <2>1, SubSeqProperties
  <2>3. \A j \in 1 .. Len(table) - m : m + j \in m + 1 .. Len(table)
    BY <1>1, <1>5
  <2>. QED BY <2>2, <2>3 DEF ToSet
<1>9. \A r \in ToSet(shown) : \E k \in 1..m : r = table[k]
  BY <1>6 DEF ToSet
<1>10. \A k \in 1..m : table[k] \in ToSet(shown)
  BY <1>6 DEF ToSet
<1>11. dropped = SubSeq(table, Len(Shown(table)) + 1, Len(table))
  BY <1>4, <1>6, <1>7
<1>. QED BY <1>4, <1>5, <1>8, <1>9, <1>10, <1>11, Zenon

\* The status of a row speaks of its data.
LEMMA StatusSays ==
    ASSUME NEW r \in Hardware, NEW at \in Nat
    PROVE  /\ StatusOf(r, at) = "never" <=> r.last = Never
           /\ StatusOf(r, at) = "critical" => AgeDays(r, at) >= CriticalDays
           /\ StatusOf(r, at) = "overdue" =>
                 AgeDays(r, at) >= StaleDays /\ AgeDays(r, at) < CriticalDays
           /\ StatusOf(r, at) = "current" => AgeDays(r, at) < StaleDays
           /\ StatusOf(r, at) \in {"never", "critical"} <=> IsSilent(r, at)
<1>1. AgeDays(r, at) \in Nat
  BY KeyTyped
<1>2. StaleDays \in Nat \ {0} /\ CriticalDays \in Nat \ {0} /\ StaleDays < CriticalDays
  BY WeeklyAssumption
<1>3. r.last # Never => (AgeDays(r, at) >= CriticalDays <=> at - r.last >= CriticalDays)
  <2>1. r.last # Never => r.last \in Nat
    BY WeeklyAssumption DEF Hardware, Days
  <2>2. r.last # Never => AgeDays(r, at) = IF at < r.last THEN 0 ELSE at - r.last
    BY DEF AgeDays, Reference
  <2>. QED BY <1>2, <2>1, <2>2
<1>4. CASE r.last = Never
  BY <1>4 DEF StatusOf, IsSilent
<1>5. CASE r.last # Never
  BY <1>1, <1>2, <1>3, <1>5 DEF StatusOf, IsSilent
<1>. QED BY <1>4, <1>5

\* weekly_max_rows cuts off no computer in favour of one that is less urgent
\* (build_inventory_rows, weekly_report): whatever was listed, a row that is left out has
\* sent data if any row shown has, and has not been silent for longer than one of its kind.
THEOREM WorstFirst == Spec => []WorstAreShown
<1>1. IInv => WorstAreShown
  <2>. SUFFICES ASSUME IInv PROVE WorstAreShown
    OBVIOUS
  <2>. DEFINE table == InventoryRows(generated)
              shown == Shown(table)
              dropped == SubSeq(table, Len(shown) + 1, Len(table))
              status(r) == StatusOf(r, generated)
              age(r) == AgeDays(r, generated)
  <2>1. generated \in Nat /\ TypeOK
    BY WeeklyAssumption DEF IInv, TypeOK
  <2>2. /\ table \in Seq(Hardware)
        /\ \A k, l \in DOMAIN table : k < l =>
              /\ priority[status(table[k])] <= priority[status(table[l])]
              /\ status(table[k]) = status(table[l]) => age(table[k]) >= age(table[l])
    BY <2>1, TableSorted
  <2>3. Len(table) \in Nat /\ DOMAIN table = 1..Len(table)
    BY <2>2
  <2>. HIDE DEF table
  <2>4. PICK m \in Nat :
          /\ m <= Len(table)
          /\ \A r \in ToSet(shown) : \E k \in 1..m : r = table[k]
          /\ \A q \in ToSet(dropped) : \E l \in m + 1 .. Len(table) : q = table[l]
    BY <2>2, CutAt
  <2>5. ASSUME NEW q \in ToSet(dropped), NEW r \in ToSet(shown)
        PROVE  \/ r.last = Never /\ q.last # Never
               \/ (r.last = Never <=> q.last = Never) /\ age(q) <= age(r)
    <3>1. PICK k \in 1..m : r = table[k]
      BY <2>4
    <3>2. PICK l \in m + 1 .. Len(table) : q = table[l]
      BY <2>4
    <3>3. k \in DOMAIN table /\ l \in DOMAIN table /\ k < l
      BY <2>3, <2>4
    <3>4. q \in Hardware /\ r \in Hardware
      BY <2>2, <3>1, <3>2, <3>3
    <3>5. /\ priority[status(r)] <= priority[status(q)]
          /\ status(r) = status(q) => age(r) >= age(q)
      BY <2>2, <3>1, <3>2, <3>3
    <3>6. /\ status(q) \in {"never", "critical", "overdue", "current"}
          /\ status(r) \in {"never", "critical", "overdue", "current"}
          /\ age(q) \in Nat /\ age(r) \in Nat
      BY <2>1, <3>4, KeyTyped
    <3>7. ASSUME NEW x \in {q, r}
          PROVE  /\ status(x) = "never" <=> x.last = Never
                 /\ status(x) = "critical" => age(x) >= CriticalDays
                 /\ status(x) = "overdue" => age(x) >= StaleDays /\ age(x) < CriticalDays
                 /\ status(x) = "current" => age(x) < StaleDays
      BY <2>1, <3>4, StatusSays
    <3>8. StaleDays \in Nat /\ CriticalDays \in Nat /\ StaleDays < CriticalDays
      BY WeeklyAssumption
    <3>. HIDE DEF status, age, shown, dropped
    <3>9. CASE status(r) = status(q)
      BY <3>5, <3>6, <3>7, <3>9
    <3>10. CASE status(r) = "never" /\ status(q) # "never"
      BY <3>7, <3>10
    <3>11. CASE status(r) = "critical" /\ status(q) \in {"overdue", "current"}
      BY <3>6, <3>7, <3>8, <3>11
    <3>12. CASE status(r) = "overdue" /\ status(q) = "current"
      BY <3>6, <3>7, <3>8, <3>12
    <3>. QED BY <3>5, <3>6, <3>9, <3>10, <3>11, <3>12 DEF priority
  <2>. QED BY <2>5 DEF WorstAreShown, table
<1>. QED BY <1>1, Invariance, PTL

\* The report shows the computers it is for: of those that had been silent for
\* weekly_critical_days when it was started and still are, it lacks at most one for each
\* deletion meanwhile, unless the table is full of such computers or an answer without rows
\* ended the listing (list_assets, build_inventory_rows, weekly_report); for any fleet,
\* page size, categories and limits.
THEOREM SilenceShown == Spec => []SilentAreShown
<1>1. IInv => SilentAreShown
  <2>. DEFINE table == InventoryRows(generated)
              shown == Shown(table)
              status(r) == StatusOf(r, generated)
  <2>. SUFFICES ASSUME IInv, pc = "mailing", ~ short,
                       NEW r \in ToSet(shown), ~ IsSilent(r, generated)
                PROVE  Cardinality(silent \ IdsOf(shown)) <= deletions
    BY DEF SilentAreShown
  <2>1. generated \in Nat /\ TypeOK
    BY WeeklyAssumption DEF IInv, TypeOK
  <2>2. /\ table \in Seq(Hardware)
        /\ \A k, l \in DOMAIN table : k < l =>
              priority[status(table[k])] <= priority[status(table[l])]
        /\ \A i \in Reported : \E k \in DOMAIN table : table[k] = rows[i]
    BY <2>1, TableSorted
  <2>3. Len(table) \in Nat /\ DOMAIN table = 1..Len(table)
    BY <2>2
  <2>. HIDE DEF table
  <2>4. PICK m \in Nat :
          /\ m <= Len(table)
          /\ \A x \in ToSet(shown) : \E k \in 1..m : x = table[k]
          /\ \A k \in 1..m : table[k] \in ToSet(shown)
    BY <2>2, CutAt
  <2>5. ASSUME NEW i \in DOMAIN rows, rows[i].id \in silent PROVE rows[i] \in ToSet(shown)
    <3>1. IsReported(rows[i]) /\ IsSilent(rows[i], generated)
      BY <2>5 DEF IInv, SilentAreListed, ToSet
    <3>2. PICK l \in DOMAIN table : table[l] = rows[i]
      BY <2>2, <3>1 DEF Reported
    <3>3. PICK k \in 1..m : r = table[k]
      BY <2>4
    <3>4. r \in Hardware /\ rows[i] \in Hardware /\ k \in DOMAIN table
      BY <2>2, <2>3, <2>4, <3>2, <3>3
    <3>5. status(rows[i]) \in {"never", "critical"} /\ status(r) \in {"overdue", "current"}
      BY <2>1, <3>1, <3>4, StatusSays, KeyTyped
    <3>. HIDE DEF status
    <3>6. priority[status(rows[i])] < priority[status(r)]
      BY <3>5 DEF priority
    <3>7. ~ (k < l)
      <4>1. priority[status(rows[i])] \in Nat /\ priority[status(r)] \in Nat
        BY <3>5 DEF priority
      <4>. QED BY <2>2, <3>2, <3>3, <3>4, <3>6, <4>1
    <3>8. l \in 1..m
      BY <2>3, <3>2, <3>3, <3>7
    <3>. QED BY <2>4, <3>2, <3>8
  <2>. HIDE DEF shown
  <2>6. ASSUME NEW id \in silent \ IdsOf(shown) PROVE id \in kept \ IdsOf(rows)
    <3>1. id \in kept
      BY <2>1 DEF TypeOK
    <3>2. \A i \in DOMAIN rows : rows[i].id # id
      BY <2>5 DEF IdsOf
    <3>3. id \notin IdsOf(rows)
      BY <2>1, <3>2, AllIds DEF TypeOK
    <3>. QED BY <3>1, <3>3
  <2>7. IsFiniteSet(kept \ IdsOf(rows))
    <3>1. hardware \in Seq(Hardware) /\ kept \in SUBSET IdsOf(hardware)
      BY <2>1 DEF TypeOK
    <3>2. IsFiniteSet(kept)
      BY <3>1, AllIds, FS_Subset
    <3>. QED BY <3>2, FS_Difference
  <2>8. /\ IsFiniteSet(silent \ IdsOf(shown))
        /\ Cardinality(silent \ IdsOf(shown)) <= Cardinality(kept \ IdsOf(rows))
    BY <2>6, <2>7, FS_Subset
  <2>9. /\ Cardinality(silent \ IdsOf(shown)) \in Nat
        /\ Cardinality(kept \ IdsOf(rows)) \in Nat
    BY <2>7, <2>8, FS_CardinalityType
  <2>10. Cardinality(kept \ IdsOf(rows)) <= deletions /\ deletions \in Nat
    BY <2>1, NoneLost, WeeklyAssumption DEF TypeOK
  <2>. QED BY <2>8, <2>9, <2>10
<1>. QED BY <1>1, Invariance, PTL

=============================================================================
