---------------------------- MODULE MailProgProofs ----------------------------
(***************************************************************************)
(* What MailProg queues is valid and tells as much as OCI accepts, for      *)
(* every subject, every value, every limit and every layout of the table,   *)
(* and concurrent processes keep the bound of the queue.  The argument is   *)
(* that a longer prefix of a value makes a larger table, although a value   *)
(* is wrapped by the width of its characters; a binary search can then      *)
(* leave out whatever is longer than a table that does not fit.             *)
(***************************************************************************)
EXTENDS MailProg, FiniteSetTheorems, WellFoundedInduction, TLAPS

\* The whole table does not fit, nor does any cut one.
NoTableFits ==
    ~Fits(WholeTable) /\ \A k \in 1..Longest : ~Fits(CutTable(k))

\* What a search sees of a character.
Typed == [json : 1..MaxJson, cols : Nat, utf8 : 1..4]

\* The title is within its bytes, also where a character is cut.
TitleFits == title \in Seq(Typed) /\ Utf8(title) <= MaxTitle

\* While the longest table is searched: what was found is the table just below
\* the interval, and what is above the interval does not fit.
TableSearch ==
    /\ pc \in {"check", "title", "table"} => best = NoTable
    /\ pc = "search" =>
         /\ ~Fits(WholeTable)
         /\ low >= 1 /\ high <= Longest
         /\ \/ low = 1 /\ best = NoTable
            \/ low > 1 /\ best = CutTable(low - 1) /\ Fits(best)
         /\ \A k \in (high + 1)..Longest : ~Fits(CutTable(k))

\* The same while the longest text is searched, where no text always fits.
TextSearch ==
    pc = "limit" =>
      /\ NoTableFits
      /\ high <= Len(text)
      /\ (low = 0 /\ best = CutText(0)) \/ (low > 0 /\ best = CutText(low - 1))
      /\ Fits(best)
      /\ \A n \in (high + 1)..Len(text) : ~Fits(CutText(n))

\* The body that the search ends with.
Tables == {CutTable(k) : k \in 1..Longest}
Texts  == {CutText(n) : n \in 0..Len(text)}
Chosen(b) ==
    /\ Fits(b)
    /\ IF Fits(WholeTable) THEN b = WholeTable
       ELSE IF Best(Tables) # {} THEN b \in Best(Tables)
       ELSE b \in Best(Texts)
BodyChosen == pc \in {"write", "queued"} => Chosen(body)

MailProgInv ==
    TypeOK /\ QueueBounded /\ TitleFits /\ TableSearch /\ TextSearch /\ BodyChosen

-----------------------------------------------------------------------------
(* Numbers and finite sets *)

\* What is assumed of the sizes, for arithmetic.
LEMMA Sizes ==
    /\ MaxJson \in Nat /\ MaxJson >= 2
    /\ Width \in Nat /\ Width > 0 /\ MaxTitle \in Nat /\ MaxTitle > 0
    /\ Limit \in Nat /\ Limit > 0
    /\ MaxQueued \in Nat /\ MaxQueued > 0 /\ MaxMailProgs \in Nat /\ MaxMailProgs > 0
    /\ LineChars \in Nat /\ HeadChars \in Nat /\ SuffixChars \in Nat
    /\ DefaultTitle \in Nat /\ DefaultTitle <= MaxTitle
    /\ MaxTitle * MaxJson + SuffixChars + 4 <= Limit
  <1>1. /\ {Width, MaxTitle, Limit, MaxQueued, MaxMailProgs} \subseteq Nat \ {0}
        /\ {LineChars, HeadChars, SuffixChars, DefaultTitle} \subseteq Nat
        /\ MaxJson \in Nat \ {0, 1} /\ DefaultTitle <= MaxTitle
        /\ MaxTitle * MaxJson + SuffixChars + 4 <= Limit
    BY MailProgAssumption
  <1> QED
    BY <1>1

\* A set of numbers has a least one.
LEMMA LeastOf ==
    ASSUME NEW S \in SUBSET Nat, S # {}
    PROVE  \E x \in S : \A y \in S : x <= y
  <1> DEFINE R == {ss \in Nat \X Nat : ss[1] < ss[2]}
  <1>1. IsWellFoundedOn(R, Nat)
    BY NatLessThanWellFounded DEF OpToRel
  <1>2. PICK x \in S : \A y \in S : ~(<<y, x>> \in R)
    <2> HIDE DEF R
    <2> QED
      BY <1>1, WFMin
  <1>3. ASSUME NEW y \in S PROVE x <= y
    <2>1. <<y, x>> \in Nat \X Nat /\ ~(<<y, x>> \in R)
      BY <1>2
    <2>2. ~(y < x)
      BY <2>1
    <2> QED
      BY <2>1, <2>2
  <1> QED
    BY <1>3

\* A bounded set of numbers has a greatest one.
LEMMA GreatestOf ==
    ASSUME NEW n \in Nat, NEW S \in SUBSET (0..n), S # {}
    PROVE  \E x \in S : \A y \in S : y <= x
  <1> DEFINE T == {n - x : x \in S}
  <1>1. T \in SUBSET Nat /\ T # {}
    <2>1. \A x \in S : n - x \in Nat
      OBVIOUS
    <2> QED
      BY <2>1
  <1>2. PICK t \in T : \A y \in T : t <= y
    <2> HIDE DEF T
    <2> QED
      BY <1>1, LeastOf
  <1>3. PICK x \in S : t = n - x
    OBVIOUS
  <1>4. \A y \in S : n - y \in T
    OBVIOUS
  <1>5. \A y \in S : y <= x
    BY <1>2, <1>3, <1>4
  <1> QED
    BY <1>5

\* A part of a finite set has no more elements.
LEMMA PartCount ==
    ASSUME NEW T, IsFiniteSet(T), NEW S \in SUBSET T
    PROVE  /\ IsFiniteSet(S) /\ Cardinality(S) \in Nat
           /\ Cardinality(T) \in Nat /\ Cardinality(S) <= Cardinality(T)
  BY FS_Subset, FS_CardinalityType

\* As many pairs as a rectangle has.
LEMMA GridCount ==
    ASSUME NEW n \in Nat, NEW m \in Nat
    PROVE  /\ IsFiniteSet((1..n) \X (1..m))
           /\ Cardinality((1..n) \X (1..m)) = n * m
  <1>1. /\ IsFiniteSet(1..n) /\ Cardinality(1..n) = n
        /\ IsFiniteSet(1..m) /\ Cardinality(1..m) = m
    BY FS_Interval
  <1>2. /\ IsFiniteSet((1..n) \X (1..m))
        /\ Cardinality((1..n) \X (1..m)) = Cardinality(1..n) * Cardinality(1..m)
    <2> DEFINE S == 1..n
               T == 1..m
    <2>1. IsFiniteSet(S) /\ IsFiniteSet(T)
      BY <1>1
    <2> HIDE DEF S, T
    <2>2. IsFiniteSet(S \X T) /\ Cardinality(S \X T) = Cardinality(S) * Cardinality(T)
      BY <2>1, FS_Product
    <2> QED
      BY <2>2 DEF S, T
  <1>3. Cardinality(1..n) * Cardinality(1..m) = n * m
    BY <1>1
  <1> QED
    BY <1>2, <1>3

-----------------------------------------------------------------------------
(* Sizes of texts *)

\* The bytes of a text are at most MaxJson for each of its characters.
LEMMA SizeBounds ==
    ASSUME NEW t \in Seq(Typed)
    PROVE  /\ IsFiniteSet(Bytes(t)) /\ Size(t) \in Nat
           /\ Size(t) <= Len(t) * MaxJson
  <1>1. Len(t) \in Nat /\ DOMAIN t = 1..Len(t)
    OBVIOUS
  <1>2. Bytes(t) \in SUBSET ((1..Len(t)) \X (1..MaxJson))
    BY <1>1 DEF Bytes
  <1>3. MaxJson \in Nat
    BY Sizes
  <1>4. /\ IsFiniteSet((1..Len(t)) \X (1..MaxJson))
        /\ Cardinality((1..Len(t)) \X (1..MaxJson)) = Len(t) * MaxJson
    BY <1>1, <1>3, GridCount
  <1> DEFINE G == (1..Len(t)) \X (1..MaxJson)
  <1>5. /\ IsFiniteSet(Bytes(t)) /\ Cardinality(Bytes(t)) \in Nat
        /\ Cardinality(Bytes(t)) <= Cardinality(G)
    <2> HIDE DEF G
    <2> QED
      BY <1>2, <1>4, PartCount DEF G
  <1> QED
    BY <1>4, <1>5 DEF Size

\* A text has no more characters than bytes of UTF-8.
LEMMA Utf8Bounds ==
    ASSUME NEW t \in Seq(Typed)
    PROVE  Utf8(t) \in Nat /\ Len(t) <= Utf8(t)
  <1> DEFINE B == {b \in (DOMAIN t) \X (1..4) : b[2] <= t[b[1]].utf8}
  <1>1. Len(t) \in Nat /\ DOMAIN t = 1..Len(t) /\ 1 \in Nat /\ 4 \in Nat
    OBVIOUS
  <1>2. B \in SUBSET ((1..Len(t)) \X (1..4))
    BY <1>1
  <1>3. (1..Len(t)) \X (1..1) \in SUBSET B
    <2> SUFFICES ASSUME NEW i \in 1..Len(t) PROVE <<i, 1>> \in B
      OBVIOUS
    <2>1. t[i] \in Typed
      BY <1>1
    <2> QED
      BY <1>1, <2>1 DEF Typed
  <1>4. IsFiniteSet(B)
    BY <1>1, <1>2, GridCount, PartCount
  <1>5. Cardinality((1..Len(t)) \X (1..1)) = Len(t) * 1
    BY <1>1, GridCount
  <1> HIDE DEF B
  <1>6. Cardinality(B) \in Nat /\ Cardinality((1..Len(t)) \X (1..1)) <= Cardinality(B)
    BY <1>3, <1>4, PartCount
  <1> QED
    BY <1>1, <1>5, <1>6 DEF Utf8, B

\* A character of a text.
LEMMA Element ==
    ASSUME NEW t \in Seq(Typed), NEW i \in 1..Len(t)
    PROVE  /\ t[i].json \in 1..MaxJson /\ t[i].cols \in Nat /\ t[i].utf8 \in 1..4
           /\ t[i].json \in Nat
  <1>1. t[i] \in Typed
    OBVIOUS
  <1> QED
    BY <1>1, Sizes DEF Typed

\* A prefix of a text.
LEMMA Prefix ==
    ASSUME NEW S, NEW t \in Seq(S), NEW a \in 0..Len(t)
    PROVE  /\ SubSeq(t, 1, a) \in Seq(S) /\ Len(SubSeq(t, 1, a)) = a
           /\ DOMAIN SubSeq(t, 1, a) = 1..a
           /\ \A i \in 1..a : SubSeq(t, 1, a)[i] = t[i]
  OBVIOUS

\* The columns used in the row after one more character of c columns.
Used(u, c) == LET used == u + c IN IF used > Width THEN c ELSE used

\* The columns used after each of the first n characters of a value.
FillsTo(f, v, n) ==
    /\ f \in [0..n -> Nat] /\ f[0] = 0
    /\ \A i \in 1..n : f[i] = Used(f[i - 1], v[i].cols)

\* There are such columns for every prefix, one character after the other.
LEMMA FillsExist ==
    ASSUME NEW v \in Seq(Typed)
    PROVE  \A n \in 0..Len(v) : \E f : FillsTo(f, v, n)
  <1> DEFINE Bad == {n \in 0..Len(v) : ~ \E f : FillsTo(f, v, n)}
  <1> SUFFICES ASSUME Bad # {} PROVE FALSE
    OBVIOUS
  <1>1. Bad \in SUBSET Nat
    OBVIOUS
  <1>2. PICK n \in Bad : \A y \in Bad : n <= y
    <2> HIDE DEF Bad
    <2> QED
      BY <1>1, LeastOf
  <1>3. n \in 0..Len(v) /\ ~ \E f : FillsTo(f, v, n)
    OBVIOUS
  <1>4. CASE n = 0
    <2>1. FillsTo([i \in 0..0 |-> 0], v, 0)
      BY DEF FillsTo
    <2> QED
      BY <1>3, <1>4, <2>1
  <1>5. CASE n > 0
    <2>1. n - 1 \in 0..Len(v) /\ ~(n - 1 \in Bad)
      BY <1>2, <1>3, <1>5
    <2>2. PICK f : FillsTo(f, v, n - 1)
      BY <2>1
    <2> DEFINE g == [i \in 0..n |-> IF i = n THEN Used(f[n - 1], v[n].cols) ELSE f[i]]
    <2>3. v[n].cols \in Nat /\ n \in Nat /\ n \in 1..Len(v)
      BY <1>3, <1>5, Element
    <2>4. f[n - 1] \in Nat
      BY <1>5, <2>2, <2>3 DEF FillsTo
    <2>5. Used(f[n - 1], v[n].cols) \in Nat
      BY <2>3, <2>4 DEF Used
    <2>6. \A i \in 0..(n - 1) : g[i] = f[i] /\ f[i] \in Nat
      BY <2>2, <2>3 DEF FillsTo
    <2>7. g[n] = Used(f[n - 1], v[n].cols)
      BY <2>3
    <2>8. g \in [0..n -> Nat]
      <3>1. \A i \in 0..n : i = n \/ i \in 0..(n - 1)
        BY <2>3
      <3>2. \A i \in 0..n : g[i] \in Nat
        BY <2>5, <2>6, <2>7, <3>1
      <3> QED
        BY <3>2
    <2>9. g[0] = 0
      BY <1>5, <2>2, <2>3, <2>6 DEF FillsTo
    <2>10. ASSUME NEW i \in 1..n PROVE g[i] = Used(g[i - 1], v[i].cols)
      <3>1. CASE i = n
        BY <2>3, <2>6, <2>7, <3>1
      <3>2. CASE i # n
        <4>1. i \in 1..(n - 1) /\ i - 1 \in 0..(n - 1)
          BY <2>3, <3>2
        <4>2. f[i] = Used(f[i - 1], v[i].cols)
          BY <2>2, <4>1 DEF FillsTo
        <4> HIDE DEF g
        <4> QED
          BY <2>6, <4>1, <4>2
      <3> QED
        BY <3>1, <3>2
    <2>11. FillsTo(g, v, n)
      <3> HIDE DEF g
      <3> QED
        BY <2>8, <2>9, <2>10 DEF FillsTo
    <2> QED
      BY <1>3, <2>11
  <1> QED
    BY <1>3, <1>4, <1>5

\* split_display_chunks adds up the columns as it goes through the characters.
LEMMA FilledFills ==
    ASSUME NEW v \in Seq(Typed)
    PROVE  FillsTo(Filled(v), v, Len(v))
  <1> DEFINE Eq(g) == g = [i \in 0..Len(v) |->
                IF i = 0 THEN 0
                ELSE LET used == g[i - 1] + v[i].cols
                     IN  IF used > Width THEN v[i].cols ELSE used]
             h == Filled(v)
             Bad == {n \in 0..Len(v) : ~(h[n] \in Nat)}
  <1>1. Len(v) \in Nat
    OBVIOUS
  <1>2. \E f : Eq(f)
    <2>1. PICK f : FillsTo(f, v, Len(v))
      BY <1>1, FillsExist
    <2>2. Eq(f)
      BY <1>1, <2>1 DEF FillsTo, Used
    <2> QED
      BY <2>2
  <1>3. h = CHOOSE g : Eq(g)
    BY DEF Filled
  <1>4. Eq(h)
    <2> HIDE DEF Eq, h
    <2> QED
      BY <1>2, <1>3
  <1>5. h[0] = 0 /\ \A i \in 1..Len(v) : h[i] = Used(h[i - 1], v[i].cols)
    BY <1>1, <1>4 DEF Used
  <1>6. \A i \in 1..Len(v) : v[i].cols \in Nat
    BY Element
  <1>7. Bad = {}
    <2> SUFFICES ASSUME Bad # {} PROVE FALSE
      OBVIOUS
    <2>1. Bad \in SUBSET Nat
      OBVIOUS
    <2>2. PICK n \in Bad : \A y \in Bad : n <= y
      <3> HIDE DEF Bad
      <3> QED
        BY <2>1, LeastOf
    <2> HIDE DEF h
    <2>3. n \in 0..Len(v) /\ n # 0
      BY <1>5
    <2>4. n - 1 \in 0..Len(v) /\ ~(n - 1 \in Bad) /\ n \in 1..Len(v)
      BY <1>1, <2>2, <2>3
    <2>5. h[n - 1] \in Nat /\ v[n].cols \in Nat
      BY <1>6, <2>4
    <2>6. h[n] \in Nat
      BY <1>5, <2>4, <2>5, Sizes DEF Used
    <2> QED
      BY <2>6
  <1>8. h \in [0..Len(v) -> Nat]
    BY <1>4, <1>7
  <1> QED
    BY <1>5, <1>8 DEF FillsTo

\* A prefix of a value is wrapped as the whole value is.
LEMMA FilledPrefix ==
    ASSUME NEW v \in Seq(Typed), NEW a \in 0..Len(v)
    PROVE  \A i \in 0..a : Filled(SubSeq(v, 1, a))[i] = Filled(v)[i]
  <1> DEFINE p == SubSeq(v, 1, a)
             g == Filled(p)
             h == Filled(v)
             Bad == {n \in 0..a : g[n] # h[n]}
  <1>1. p \in Seq(Typed) /\ Len(p) = a /\ \A i \in 1..a : p[i] = v[i]
    BY Prefix
  <1>2. FillsTo(g, p, a) /\ FillsTo(h, v, Len(v))
    <2> HIDE DEF p
    <2> QED
      BY <1>1, FilledFills
  <1> HIDE DEF p, g, h
  <1> SUFFICES ASSUME Bad # {} PROVE FALSE
    BY DEF p, g, h
  <1>3. Bad \in SUBSET Nat
    OBVIOUS
  <1>4. PICK n \in Bad : \A y \in Bad : n <= y
    <2> HIDE DEF Bad
    <2> QED
      BY <1>3, LeastOf
  <1>5. n \in 0..a /\ g[n] # h[n] /\ n # 0
    BY <1>2 DEF FillsTo
  <1>6. n - 1 \in 0..a /\ ~(n - 1 \in Bad) /\ n \in 1..a /\ n \in 1..Len(v)
    BY <1>4, <1>5
  <1>7. g[n - 1] = h[n - 1]
    BY <1>6
  <1>8. g[n] = Used(g[n - 1], p[n].cols) /\ h[n] = Used(h[n - 1], v[n].cols)
    BY <1>2, <1>6 DEF FillsTo
  <1> QED
    BY <1>1, <1>5, <1>6, <1>7, <1>8

\* What a prefix of a value takes is a part of what the value takes.
LEMMA PrefixParts ==
    ASSUME NEW v \in Seq(Typed), NEW a \in 0..Len(v)
    PROVE  /\ Rows(SubSeq(v, 1, a)) = {i \in Rows(v) : i <= a}
           /\ Bytes(SubSeq(v, 1, a)) = {b \in Bytes(v) : b[1] <= a}
           /\ Beyond(SubSeq(v, 1, a)) = {b \in Beyond(v) : b[1] <= a}
  <1> DEFINE p == SubSeq(v, 1, a)
  <1>1. /\ p \in Seq(Typed) /\ DOMAIN p = 1..a /\ \A i \in 1..a : p[i] = v[i]
        /\ DOMAIN v = 1..Len(v) /\ Len(v) \in Nat
    BY Prefix
  <1>2. \A i \in 0..a : Filled(p)[i] = Filled(v)[i]
    BY FilledPrefix
  <1> HIDE DEF p
  <1>3. \A i : i \in 1..a <=> i \in 1..Len(v) /\ i <= a
    BY <1>1
  <1>4. Rows(p) = {i \in Rows(v) : i <= a}
    <2>1. ASSUME NEW i \in 1..a PROVE i \in Rows(p) <=> i \in Rows(v)
      <3>1. i - 1 \in 0..a
        OBVIOUS
      <3> QED
        BY <1>1, <1>2, <1>3, <3>1 DEF Rows
    <2> QED
      BY <1>1, <1>3, <2>1 DEF Rows
  <1>5. Bytes(p) = {b \in Bytes(v) : b[1] <= a}
    BY <1>1, <1>3 DEF Bytes
  <1>6. Beyond(p) = {b \in Beyond(v) : b[1] <= a}
    BY <1>1, <1>3 DEF Beyond
  <1> QED
    BY <1>4, <1>5, <1>6 DEF p

\* limit_table_value: the longer the prefix of a value, the more it takes.
LEMMA LimitedGrows ==
    ASSUME NEW v \in Seq(Typed), NEW j \in Nat, NEW k \in Nat, j <= k
    PROVE  /\ Limited(v, j) \in Seq(Typed) /\ Len(Limited(v, j)) \in 0..Len(v)
           /\ Rows(Limited(v, j)) \subseteq Rows(Limited(v, k))
           /\ Bytes(Limited(v, j)) \subseteq Bytes(Limited(v, k))
           /\ Beyond(Limited(v, j)) \subseteq Beyond(Limited(v, k))
  <1> DEFINE a == IF j < Len(v) THEN j ELSE Len(v)
             b == IF k < Len(v) THEN k ELSE Len(v)
  <1>1. a \in 0..Len(v) /\ b \in 0..Len(v) /\ a <= b
    OBVIOUS
  <1>2. Limited(v, j) = SubSeq(v, 1, a) /\ Limited(v, k) = SubSeq(v, 1, b)
    BY DEF Limited
  <1> HIDE DEF a, b
  <1>3. SubSeq(v, 1, a) \in Seq(Typed) /\ Len(SubSeq(v, 1, a)) = a
    BY <1>1, Prefix
  <1>4. /\ Rows(SubSeq(v, 1, a)) = {i \in Rows(v) : i <= a}
        /\ Bytes(SubSeq(v, 1, a)) = {x \in Bytes(v) : x[1] <= a}
        /\ Beyond(SubSeq(v, 1, a)) = {x \in Beyond(v) : x[1] <= a}
        /\ Rows(SubSeq(v, 1, b)) = {i \in Rows(v) : i <= b}
        /\ Bytes(SubSeq(v, 1, b)) = {x \in Bytes(v) : x[1] <= b}
        /\ Beyond(SubSeq(v, 1, b)) = {x \in Beyond(v) : x[1] <= b}
    BY <1>1, PrefixParts
  <1>5. /\ Rows(v) \subseteq Nat
        /\ \A x \in Bytes(v) : x[1] \in Nat
        /\ \A x \in Beyond(v) : x[1] \in Nat
    <2>1. DOMAIN v \subseteq Nat
      OBVIOUS
    <2> QED
      BY <2>1 DEF Rows, Bytes, Beyond
  <1>6. /\ \A i \in Rows(v) : i <= a => i <= b
        /\ \A x \in Bytes(v) : x[1] <= a => x[1] <= b
        /\ \A x \in Beyond(v) : x[1] <= a => x[1] <= b
    BY <1>1, <1>5
  <1> QED
    BY <1>1, <1>2, <1>3, <1>4, <1>6

-----------------------------------------------------------------------------
(* Sizes of tables *)

\* The fields are numbered.
LEMMA FieldsAre ==
    /\ Cardinality(Fields) \in Nat /\ Fields = 1..Cardinality(Fields)
    /\ IsFiniteSet(Fields) /\ 1 \in Fields
  BY MailProgAssumption, FS_CardinalityType

\* A text that a subject or a field may hold.
LEMMA TextType ==
    ASSUME NEW t \in Subjects \cup Values
    PROVE  t \in Seq(Typed) /\ \A i \in 1..Len(t) : t[i] \in Characters
  <1>1. t \in Seq(Characters)
    BY MailProgAssumption
  <1>2. Characters \subseteq Typed
    <2>1. 0..Width \subseteq Nat
      BY Sizes
    <2>2. Characters \subseteq [json : 1..MaxJson, cols : 0..Width, utf8 : 1..4]
      BY MailProgAssumption
    <2> QED
      BY <2>1, <2>2 DEF Typed
  <1>3. Seq(Characters) \subseteq Seq(Typed)
    BY <1>2
  <1> QED
    BY <1>1, <1>3

\* The values of the fields are texts, and none is empty.
LEMMA ValueType ==
    ASSUME value \in [Fields -> Values], NEW f \in Fields
    PROVE  /\ value[f] \in Seq(Typed) /\ Len(value[f]) \in Nat /\ Len(value[f]) >= 1
           /\ \A i \in 1..Len(value[f]) : value[f][i] \in Characters
  <1>1. value[f] \in Values
    OBVIOUS
  <1>2. value[f] \in Seq(Typed) /\ \A i \in 1..Len(value[f]) : value[f][i] \in Characters
    BY <1>1, TextType
  <1>3. value[f] # <<>>
    BY <1>1, MailProgAssumption
  <1>4. Len(value[f]) # 0
    BY <1>2, <1>3
  <1> QED
    BY <1>2, <1>4

\* The first n of some numbers have a bound.
BoundedTo(g, n) == \E b \in Nat : \A f \in 1..n : g[f] <= b
LEMMA BoundOf ==
    ASSUME NEW N \in Nat, NEW g \in [1..N -> Nat]
    PROVE  BoundedTo(g, N)
  <1> DEFINE Bad == {n \in 0..N : ~BoundedTo(g, n)}
  <1> SUFFICES ASSUME Bad # {} PROVE FALSE
    OBVIOUS
  <1>1. Bad \in SUBSET Nat
    OBVIOUS
  <1>2. PICK n \in Bad : \A y \in Bad : n <= y
    <2> HIDE DEF Bad
    <2> QED
      BY <1>1, LeastOf
  <1>3. n \in 0..N /\ ~BoundedTo(g, n)
    OBVIOUS
  <1>4. n # 0
    BY <1>3 DEF BoundedTo
  <1>5. n - 1 \in 0..N /\ n \in 1..N /\ BoundedTo(g, n - 1)
    BY <1>2, <1>3, <1>4
  <1>6. PICK b \in Nat : \A f \in 1..(n - 1) : g[f] <= b
    BY <1>5 DEF BoundedTo
  <1>7. g[n] \in Nat
    BY <1>5
  <1>8. ASSUME NEW f \in 1..n PROVE g[f] <= b + g[n]
    <2>1. f \in 1..(n - 1) \/ f = n
      BY <1>5
    <2>2. g[f] \in Nat
      BY <1>5
    <2> QED
      BY <1>6, <1>7, <2>1, <2>2
  <1>9. b + g[n] \in Nat
    BY <1>7
  <1>10. BoundedTo(g, n)
    BY <1>8, <1>9 DEF BoundedTo
  <1> QED
    BY <1>3, <1>10

\* The longest value is as long as any.
LEMMA LongestIs ==
    ASSUME value \in [Fields -> Values]
    PROVE  /\ Longest \in Nat /\ Longest >= 1
           /\ \A f \in Fields : Len(value[f]) <= Longest
  <1> DEFINE g == [f \in Fields |-> Len(value[f])]
             lens == {Len(value[f]) : f \in Fields}
  <1>1. \A f \in Fields : Len(value[f]) \in Nat /\ Len(value[f]) >= 1
    BY ValueType
  <1>2. PICK N \in Nat : Fields = 1..N
    BY FieldsAre
  <1>3. g \in [1..N -> Nat]
    BY <1>1, <1>2
  <1>4. BoundedTo(g, N)
    <2> HIDE DEF g
    <2> QED
      BY <1>3, BoundOf
  <1>5. PICK b \in Nat : \A f \in 1..N : g[f] <= b
    BY <1>4 DEF BoundedTo
  <1>6. \A f \in Fields : Len(value[f]) <= b
    BY <1>2, <1>5
  <1>7. lens \in SUBSET (0..b) /\ lens # {}
    <2>1. \A f \in Fields : Len(value[f]) \in 0..b
      BY <1>1, <1>6
    <2>2. 1 \in Fields
      BY FieldsAre
    <2> QED
      BY <2>1, <2>2
  <1>8. \E n \in lens : \A m \in lens : m <= n
    <2> HIDE DEF lens
    <2> QED
      BY <1>7, GreatestOf
  <1>9. Longest \in lens /\ \A m \in lens : m <= Longest
    <2>1. Longest = CHOOSE n \in lens : \A m \in lens : m <= n
      BY DEF Longest
    <2> HIDE DEF lens
    <2> QED
      BY <1>8, <2>1
  <1> QED
    BY <1>1, <1>9

\* The rows of the table, and its bytes beyond the columns.
TableRows(k)   == UNION {{f} \X Rows(Limited(value[f], k)) : f \in Fields}
TableBeyond(k) == UNION {{f} \X Beyond(Limited(value[f], k)) : f \in Fields}

\* There are finitely many of them.
LEMMA TableFinite ==
    ASSUME value \in [Fields -> Values], NEW k \in Nat
    PROVE  /\ IsFiniteSet(TableRows(k)) /\ IsFiniteSet(TableBeyond(k))
           /\ Size(Limited(value[1], k)) \in Nat
  <1>1. ASSUME NEW f \in Fields
        PROVE  /\ Rows(Limited(value[f], k)) \in SUBSET (1..Longest)
               /\ Beyond(Limited(value[f], k)) \in SUBSET ((1..Longest) \X (1..MaxJson))
    <2> DEFINE t == Limited(value[f], k)
    <2>1. t \in Seq(Typed) /\ Len(t) \in 0..Len(value[f])
      BY ValueType, LimitedGrows
    <2>2. Len(value[f]) \in Nat /\ Len(value[f]) <= Longest /\ Longest \in Nat
      BY ValueType, LongestIs
    <2> HIDE DEF t
    <2>3. DOMAIN t \subseteq 1..Longest
      BY <2>1, <2>2
    <2>4. Rows(t) \in SUBSET (1..Longest) /\ Beyond(t) \in SUBSET ((1..Longest) \X (1..MaxJson))
      BY <2>3 DEF Rows, Beyond
    <2> QED
      BY <2>4 DEF t
  <1>2. IsFiniteSet(1..Longest) /\ IsFiniteSet((1..Longest) \X (1..MaxJson))
    <2>1. Longest \in Nat /\ MaxJson \in Nat
      BY LongestIs, Sizes
    <2>2. IsFiniteSet(1..Longest)
      BY <2>1, FS_Interval
    <2>3. IsFiniteSet((1..Longest) \X (1..MaxJson))
      BY <2>1, GridCount
    <2> QED
      BY <2>2, <2>3
  <1>3. IsFiniteSet(Fields \X (1..Longest))
    BY <1>2, FieldsAre, FS_Product
  <1>4. IsFiniteSet(Fields \X ((1..Longest) \X (1..MaxJson)))
    BY <1>2, FieldsAre, FS_Product
  <1>5. TableRows(k) \in SUBSET (Fields \X (1..Longest))
    BY <1>1 DEF TableRows
  <1>6. TableBeyond(k) \in SUBSET (Fields \X ((1..Longest) \X (1..MaxJson)))
    BY <1>1 DEF TableBeyond
  <1>7. IsFiniteSet(TableRows(k))
    BY <1>3, <1>5, FS_Subset
  <1>8. IsFiniteSet(TableBeyond(k))
    BY <1>4, <1>6, FS_Subset
  <1>9. Size(Limited(value[1], k)) \in Nat
    <2>1. Limited(value[1], k) \in Seq(Typed)
      BY FieldsAre, ValueType, LimitedGrows
    <2> QED
      BY <2>1, SizeBounds
  <1> QED
    BY <1>7, <1>8, <1>9

\* The size of a table is made of its rows, of what goes beyond them and of the
\* cluster's name.
LEMMA TableSizeIs ==
    ASSUME value \in [Fields -> Values], NEW k \in Nat
    PROVE  /\ TableSize(k) = HeadChars
                + (LineChars + Width + 2) * Cardinality(TableRows(k))
                + Cardinality(TableBeyond(k)) + Size(Limited(value[1], k))
           /\ Cardinality(TableRows(k)) \in Nat /\ Cardinality(TableBeyond(k)) \in Nat
           /\ Size(Limited(value[1], k)) \in Nat
  <1> DEFINE cut == [f \in Fields |-> Limited(value[f], k)]
  <1>1. \A f \in Fields : cut[f] = Limited(value[f], k)
    OBVIOUS
  <1> HIDE DEF cut
  <1>2. UNION {{f} \X Rows(cut[f]) : f \in Fields} = TableRows(k)
    BY <1>1 DEF TableRows
  <1>3. UNION {{f} \X Beyond(cut[f]) : f \in Fields} = TableBeyond(k)
    BY <1>1 DEF TableBeyond
  <1>4. cut[1] = Limited(value[1], k)
    BY <1>1, FieldsAre
  <1>5. TableSize(k) = HeadChars
          + (LineChars + Width + 2) * Cardinality(UNION {{f} \X Rows(cut[f]) : f \in Fields})
          + Cardinality(UNION {{f} \X Beyond(cut[f]) : f \in Fields}) + Size(cut[1])
    BY DEF TableSize, cut
  <1>6. /\ Cardinality(TableRows(k)) \in Nat /\ Cardinality(TableBeyond(k)) \in Nat
        /\ Size(Limited(value[1], k)) \in Nat
    BY TableFinite, FS_CardinalityType
  <1> QED
    BY <1>2, <1>3, <1>4, <1>5, <1>6

\* The binary search for the longest values: a table with longer values is not
\* smaller.
LEMMA TablesGrow ==
    ASSUME value \in [Fields -> Values], NEW j \in Nat, NEW k \in Nat, j <= k
    PROVE  TableSize(j) \in Nat /\ TableSize(k) \in Nat /\ TableSize(j) <= TableSize(k)
  <1>1. ASSUME NEW f \in Fields
        PROVE  /\ Rows(Limited(value[f], j)) \subseteq Rows(Limited(value[f], k))
               /\ Beyond(Limited(value[f], j)) \subseteq Beyond(Limited(value[f], k))
    BY ValueType, LimitedGrows
  <1>2. TableRows(j) \in SUBSET TableRows(k)
    BY <1>1 DEF TableRows
  <1>3. TableBeyond(j) \in SUBSET TableBeyond(k)
    BY <1>1 DEF TableBeyond
  <1>4. IsFiniteSet(TableRows(k)) /\ IsFiniteSet(TableBeyond(k))
    BY TableFinite
  <1>5. Cardinality(TableRows(j)) <= Cardinality(TableRows(k))
    BY <1>2, <1>4, PartCount
  <1>6. Cardinality(TableBeyond(j)) <= Cardinality(TableBeyond(k))
    BY <1>3, <1>4, PartCount
  <1>7. Size(Limited(value[1], j)) <= Size(Limited(value[1], k))
    <2>1. /\ Limited(value[1], k) \in Seq(Typed)
          /\ Bytes(Limited(value[1], j)) \in SUBSET Bytes(Limited(value[1], k))
      BY FieldsAre, ValueType, LimitedGrows
    <2>2. IsFiniteSet(Bytes(Limited(value[1], k)))
      BY <2>1, SizeBounds
    <2> QED
      BY <2>1, <2>2, PartCount DEF Size
  <1> DEFINE c  == LineChars + Width + 2
             rj == Cardinality(TableRows(j))
             rk == Cardinality(TableRows(k))
  <1>8. c \in Nat /\ rj \in Nat /\ rk \in Nat /\ HeadChars \in Nat
    BY TableSizeIs, Sizes
  <1>9. /\ TableSize(j) = HeadChars + c * rj
             + Cardinality(TableBeyond(j)) + Size(Limited(value[1], j))
        /\ TableSize(k) = HeadChars + c * rk
             + Cardinality(TableBeyond(k)) + Size(Limited(value[1], k))
        /\ Cardinality(TableBeyond(j)) \in Nat /\ Size(Limited(value[1], j)) \in Nat
        /\ Cardinality(TableBeyond(k)) \in Nat /\ Size(Limited(value[1], k)) \in Nat
    BY TableSizeIs
  <1> HIDE DEF c, rj, rk
  <1>10. c * rj \in Nat /\ c * rk \in Nat /\ c * rj <= c * rk
    <2>1. rj <= rk
      BY <1>5 DEF rj, rk
    <2>2. \A a, b, d \in Nat : a <= b => d * a \in Nat /\ d * b \in Nat /\ d * a <= d * b
      OBVIOUS
    <2> QED
      BY <1>8, <2>1, <2>2
  <1> QED
    BY <1>6, <1>7, <1>8, <1>9, <1>10

\* Sizes of the candidates are numbers.
LEMMA CandidateTypes ==
    ASSUME value \in [Fields -> Values]
    PROVE  /\ WholeTable \in [shown : Nat, size : Nat]
           /\ \A k \in Nat : CutTable(k) \in [shown : Nat, size : Nat]
           /\ \A n \in Nat : CutText(n) \in [shown : Nat, size : Nat]
           /\ NoTable \in [shown : Nat, size : Nat]
  <1>1. Longest \in Nat /\ \A k \in Nat : TableSize(k) \in Nat
    BY LongestIs, TablesGrow
  <1>2. ASSUME NEW n \in Nat
        PROVE  Cardinality({b \in (1..n) \X (1..MaxJson) : b[2] <= text[b[1]]}) \in Nat
    BY Sizes, GridCount, PartCount
  <1> QED
    BY <1>1, <1>2, Sizes DEF WholeTable, CutTable, CutText, NoTable

\* A longer text is not smaller.
LEMMA TextsGrow ==
    ASSUME NEW m \in Nat, NEW n \in Nat, m <= n
    PROVE  CutText(m).size \in Nat /\ CutText(n).size \in Nat
           /\ CutText(m).size <= CutText(n).size
  <1> DEFINE B(l) == {b \in (1..l) \X (1..MaxJson) : b[2] <= text[b[1]]}
  <1>1. IsFiniteSet((1..n) \X (1..MaxJson))
    BY Sizes, GridCount
  <1>2. B(n) \in SUBSET ((1..n) \X (1..MaxJson)) /\ B(m) \in SUBSET B(n)
    OBVIOUS
  <1>3. CutText(m).size = Cardinality(B(m)) + SuffixChars + 4
        /\ CutText(n).size = Cardinality(B(n)) + SuffixChars + 4
    BY DEF CutText
  <1> HIDE DEF B
  <1>4. IsFiniteSet(B(n))
    BY <1>1, <1>2, PartCount
  <1>5. /\ Cardinality(B(m)) \in Nat /\ Cardinality(B(n)) \in Nat
        /\ Cardinality(B(m)) <= Cardinality(B(n))
    BY <1>2, <1>4, PartCount
  <1> QED
    BY <1>3, <1>5, Sizes

\* A larger candidate does not fit where a smaller one does not.
LEMMA FitsLess ==
    ASSUME TitleFits, NEW c, NEW d, c.size \in Nat, d.size \in Nat,
           c.size <= d.size, ~Fits(c)
    PROVE  ~Fits(d)
  <1>1. Size(title) \in Nat
    BY SizeBounds DEF TitleFits, Typed
  <1> QED
    BY <1>1, Sizes DEF Fits, PayloadSize

-----------------------------------------------------------------------------
(* The title *)

\* The shortest text, the suffix alone, fits with every title.
LEMMA SuffixFits ==
    ASSUME TitleFits, NEW c, c.size = SuffixChars + 4
    PROVE  Fits(c)
  <1>1. title \in Seq(Typed)
    BY DEF TitleFits, Typed
  <1>2. Len(title) \in Nat /\ Len(title) <= MaxTitle
    BY <1>1, Utf8Bounds, Sizes DEF TitleFits
  <1>3. Size(title) \in Nat /\ Size(title) <= Len(title) * MaxJson
    BY <1>1, SizeBounds
  <1>4. \A a, b, m \in Nat : a <= b => a * m \in Nat /\ b * m \in Nat /\ a * m <= b * m
    OBVIOUS
  <1>5. /\ Len(title) * MaxJson \in Nat /\ MaxTitle * MaxJson \in Nat
        /\ Len(title) * MaxJson <= MaxTitle * MaxJson
    BY <1>2, <1>4, Sizes
  <1> QED
    BY <1>3, <1>5, Sizes DEF Fits, PayloadSize

\* sanitize_title cuts what is longer than the limit.
LEMMA CutTitleFits ==
    ASSUME NEW t \in Seq(Typed)
    PROVE  CutTitle(t) \in Seq(Typed) /\ Utf8(CutTitle(t)) <= MaxTitle
  <1> DEFINE ends == {k \in 0..Len(t) : Utf8(SubSeq(t, 1, k)) <= MaxTitle}
             end  == CHOOSE k \in ends : \A m \in ends : m <= k
  <1>1. ends \in SUBSET (0..Len(t)) /\ Len(t) \in Nat
    OBVIOUS
  <1>2. 0 \in ends
    <2>1. Utf8(SubSeq(t, 1, 0)) = 0
      <3>1. DOMAIN SubSeq(t, 1, 0) = {}
        OBVIOUS
      <3>2. Utf8(SubSeq(t, 1, 0)) = Cardinality({})
        BY <3>1 DEF Utf8
      <3> QED
        BY <3>2, FS_EmptySet
    <2> QED
      BY <2>1, Sizes
  <1>3. \E k \in ends : \A m \in ends : m <= k
    <2> HIDE DEF ends
    <2> QED
      BY <1>1, <1>2, GreatestOf
  <1>4. end \in ends
    <2> HIDE DEF ends
    <2> QED
      BY <1>3
  <1>5. CutTitle(t) = SubSeq(t, 1, end)
    BY DEF CutTitle
  <1>6. end \in 0..Len(t) /\ Utf8(SubSeq(t, 1, end)) <= MaxTitle
    BY <1>4
  <1> HIDE DEF end
  <1> QED
    BY <1>5, <1>6, Prefix

\* The title of a message without a subject is short enough.
LEMMA DefaultTitleFits ==
    ASSUME NEW t, t = [i \in 1..DefaultTitle |-> [json |-> 1, cols |-> 1, utf8 |-> 1]]
    PROVE  t \in Seq(Typed) /\ Utf8(t) <= MaxTitle
  <1>1. DefaultTitle \in Nat /\ 1 \in 1..MaxJson
    BY Sizes
  <1>2. [json |-> 1, cols |-> 1, utf8 |-> 1] \in Typed
    BY <1>1 DEF Typed
  <1>3. t \in Seq(Typed) /\ DOMAIN t = 1..DefaultTitle
    BY <1>1, <1>2
  <1> DEFINE B == {b \in (DOMAIN t) \X (1..4) : b[2] <= t[b[1]].utf8}
  <1>4. B = (1..DefaultTitle) \X (1..1)
    BY <1>3
  <1>5. Cardinality((1..DefaultTitle) \X (1..1)) = DefaultTitle * 1
    BY <1>1, GridCount
  <1>6. Utf8(t) = DefaultTitle
    <2>1. DefaultTitle * 1 = DefaultTitle
      BY <1>1
    <2>2. Utf8(t) = Cardinality(B)
      BY DEF Utf8
    <2> HIDE DEF B
    <2> QED
      BY <1>4, <1>5, <2>1, <2>2
  <1> QED
    BY <1>3, <1>6, Sizes

-----------------------------------------------------------------------------
(* The text of the smallest table *)

\* The rows of a table, one after the other.
JoinsTo(f, g, n) ==
    \A i \in 1..n : f[i] = IF i = 1 THEN g[i] ELSE f[i - 1] \o g[i]

LEMMA JoinsExist ==
    ASSUME NEW S, NEW N \in Nat, NEW g \in [1..N -> Seq(S)]
    PROVE  \A n \in 0..N : \E f \in [1..n -> Seq(S)] : JoinsTo(f, g, n)
  <1> DEFINE Joined(n) == \E f \in [1..n -> Seq(S)] : JoinsTo(f, g, n)
             Bad       == {n \in 0..N : ~Joined(n)}
  <1> SUFFICES ASSUME Bad # {} PROVE FALSE
    OBVIOUS
  <1>1. Bad \in SUBSET Nat
    OBVIOUS
  <1>2. PICK n \in Bad : \A y \in Bad : n <= y
    <2> HIDE DEF Bad
    <2> QED
      BY <1>1, LeastOf
  <1>3. n \in 0..N /\ ~Joined(n)
    OBVIOUS
  <1>4. n # 0
    <2>1. [i \in 1..0 |-> g[i]] \in [1..0 -> Seq(S)]
      OBVIOUS
    <2>2. JoinsTo([i \in 1..0 |-> g[i]], g, 0)
      BY DEF JoinsTo
    <2> QED
      BY <1>3, <2>1, <2>2
  <1>5. n - 1 \in 0..N /\ n \in 1..N /\ n - 1 \notin Bad
    <2> HIDE DEF Bad
    <2> QED
      BY <1>2, <1>3, <1>4
  <1>6. Joined(n - 1)
    BY <1>5
  <1>7. PICK f \in [1..(n - 1) -> Seq(S)] : JoinsTo(f, g, n - 1)
    BY <1>6
  <1> HIDE DEF Bad
  <1> DEFINE last == IF n = 1 THEN g[n] ELSE f[n - 1] \o g[n]
             h    == [i \in 1..n |-> IF i = n THEN last ELSE f[i]]
  <1>8. last \in Seq(S)
    <2>1. g[n] \in Seq(S) /\ (n # 1 => f[n - 1] \in Seq(S))
      BY <1>5
    <2> QED
      BY <2>1
  <1>9. \A i \in 1..n : i = n \/ i \in 1..(n - 1)
    BY <1>5
  <1>10. h \in [1..n -> Seq(S)]
    <2> HIDE DEF last
    <2>1. \A i \in 1..n : h[i] \in Seq(S)
      BY <1>8, <1>9
    <2> QED
      BY <2>1
  <1>11. ASSUME NEW i \in 1..n
         PROVE  h[i] = IF i = 1 THEN g[i] ELSE h[i - 1] \o g[i]
    <2>1. h[n] = last /\ \A l \in 1..(n - 1) : h[l] = f[l]
      BY <1>5
    <2>2. i # 1 => i - 1 \in 1..(n - 1)
      BY <1>5
    <2> HIDE DEF h
    <2>3. CASE i = n
      BY <2>1, <2>2, <2>3
    <2>4. CASE i \in 1..(n - 1)
      <3>1. f[i] = IF i = 1 THEN g[i] ELSE f[i - 1] \o g[i]
        BY <1>7, <2>4 DEF JoinsTo
      <3> QED
        BY <2>1, <2>2, <2>4, <3>1
    <2> QED
      BY <1>9, <2>3, <2>4
  <1>12. JoinsTo(h, g, n)
    <2> HIDE DEF h
    <2> QED
      BY <1>11 DEF JoinsTo
  <1> QED
    BY <1>3, <1>10, <1>12

LEMMA FlattenType ==
    ASSUME NEW S, NEW N \in Nat, N # 0, NEW g \in [1..N -> Seq(S)]
    PROVE  FlattenSeq(g) \in Seq(S)
  <1> DEFINE Eq(h) == h = [i \in 1..N |-> IF i = 1 THEN g[i] ELSE h[i - 1] \o g[i]]
             all   == CHOOSE h : Eq(h)
  <1>1. Len(g) = N
    OBVIOUS
  <1>2. PICK f \in [1..N -> Seq(S)] : JoinsTo(f, g, N)
    BY JoinsExist
  <1>3. Eq(f)
    BY <1>2 DEF JoinsTo
  <1>4. Eq(all)
    <2> HIDE DEF Eq
    <2> QED
      BY <1>3
  <1>5. FlattenSeq(g) = all[N]
    BY <1>1 DEF FlattenSeq
  <1> HIDE DEF all
  <1> DEFINE Bad == {n \in 1..N : all[n] \notin Seq(S)}
  <1>6. Bad = {}
    <2> SUFFICES ASSUME Bad # {} PROVE FALSE
      OBVIOUS
    <2>1. Bad \in SUBSET Nat
      OBVIOUS
    <2>2. PICK n \in Bad : \A y \in Bad : n <= y
      <3> HIDE DEF Bad
      <3> QED
        BY <2>1, LeastOf
    <2>3. n \in 1..N /\ all[n] \notin Seq(S)
      OBVIOUS
    <2>4. all[n] = IF n = 1 THEN g[n] ELSE all[n - 1] \o g[n]
      BY <1>4, <2>3
    <2>5. n # 1
      BY <2>3, <2>4
    <2>6. n - 1 \in 1..N /\ n - 1 \notin Bad
      <3> HIDE DEF Bad
      <3> QED
        BY <2>2, <2>3, <2>5
    <2>7. all[n - 1] \in Seq(S) /\ g[n] \in Seq(S)
      BY <2>3, <2>6
    <2> QED
      BY <2>3, <2>4, <2>5, <2>7
  <1>7. N \in 1..N
    OBVIOUS
  <1>8. N \notin Bad
    <2> HIDE DEF Bad
    <2> QED
      BY <1>6
  <1> QED
    BY <1>5, <1>7, <1>8

\* The smallest table is a text, of characters with their sizes.
LEMMA SmallestTableType ==
    ASSUME value \in [Fields -> Values]
    PROVE  SmallestTable \in Seq(Nat)
  <1> DEFINE row(f) == Plain(LineChars) \o <<value[f][1].json>>
                         \o Plain(Width - value[f][1].cols) \o <<2>>
             rows   == [f \in Fields |-> row(f)]
  <1>1. \A n \in Nat : Plain(n) \in Seq(Nat)
    BY DEF Plain
  <1>2. ASSUME NEW f \in Fields
        PROVE  /\ value[f][1].json \in Nat
               /\ Width - value[f][1].cols \in Nat
    <2>1. value[f] \in Seq(Typed) /\ 1 \in 1..Len(value[f])
          /\ value[f][1] \in Characters
      BY ValueType
    <2>2. value[f][1].json \in Nat
      BY <2>1, Element
    <2>3. value[f][1] \in [json : 1..MaxJson, cols : 0..Width, utf8 : 1..4]
      BY <2>1, MailProgAssumption
    <2> QED
      BY <2>2, <2>3, Sizes
  <1>3. ASSUME NEW f \in Fields PROVE row(f) \in Seq(Nat)
    <2>1. Plain(LineChars) \in Seq(Nat)
      BY <1>1, Sizes
    <2>2. Plain(Width - value[f][1].cols) \in Seq(Nat)
      BY <1>1, <1>2
    <2>3. <<value[f][1].json>> \in Seq(Nat) /\ <<2>> \in Seq(Nat)
      BY <1>2
    <2>4. \A a, b, c, d \in Seq(Nat) : a \o b \o c \o d \in Seq(Nat)
      OBVIOUS
    <2> QED
      BY <2>1, <2>2, <2>3, <2>4
  <1>4. PICK N \in Nat : Fields = 1..N
    BY FieldsAre
  <1>5. N # 0
    BY <1>4, FieldsAre
  <1>6. rows \in [1..N -> Seq(Nat)]
    <2> HIDE DEF row
    <2> QED
      BY <1>3, <1>4
  <1>7. FlattenSeq(rows) \in Seq(Nat)
    <2> HIDE DEF rows
    <2> QED
      BY <1>5, <1>6, FlattenType
  <1>8. SmallestTable =
          Plain(HeadChars) \o FlattenSeq(rows) \o <<value[1][1].json>> \o Suffix
    BY DEF SmallestTable
  <1>9. Plain(HeadChars) \in Seq(Nat) /\ <<value[1][1].json>> \in Seq(Nat)
    BY <1>1, <1>2, FieldsAre, Sizes
  <1>10. Suffix \in Seq(Nat)
    <2>1. Plain(SuffixChars) \in Seq(Nat) /\ <<2, 2>> \in Seq(Nat)
      BY <1>1, Sizes
    <2> QED
      BY <2>1 DEF Suffix
  <1>11. \A a, b, c, d \in Seq(Nat) : a \o b \o c \o d \in Seq(Nat)
    OBVIOUS
  <1> HIDE DEF rows
  <1> QED
    BY <1>7, <1>8, <1>9, <1>10, <1>11

-----------------------------------------------------------------------------
(* Types and the queue *)

LEMMA InitHolds == Init => MailProgInv
  <1> SUFFICES ASSUME Init PROVE MailProgInv
    OBVIOUS
  <1>1. Utf8(<<>>) = 0
    <2>1. Utf8(<<>>) = Cardinality({})
      BY DEF Utf8
    <2> QED
      BY <2>1, FS_EmptySet
  <1>2. TypeOK
    <2>1. NoTable \in [shown : Nat, size : Nat]
      BY DEF NoTable
    <2>2. queued \in 0..(MaxQueued + MaxMailProgs) /\ others \in 0..(MaxMailProgs - 1)
      BY Sizes DEF Init
    <2> QED
      BY <2>1, <2>2 DEF Init, TypeOK
  <1>3. QueueBounded
    BY Sizes DEF Init, QueueBounded, Writing
  <1>4. TitleFits
    BY <1>1, Sizes DEF Init, TitleFits
  <1>5. TableSearch /\ TextSearch /\ BodyChosen
    BY DEF Init, TableSearch, TextSearch, BodyChosen
  <1> QED
    BY <1>2, <1>3, <1>4, <1>5 DEF MailProgInv

\* A step that leaves the queue alone goes on writing, or ends.
LEMMA SameQueue ==
    ASSUME TypeOK, QueueBounded, UNCHANGED <<queued, others>>,
           Writing' => Writing \/ queued < MaxQueued
    PROVE  /\ QueueBounded'
           /\ (queued \in 0..(MaxQueued + MaxMailProgs) /\ others \in 0..(MaxMailProgs - 1))'
  BY Sizes DEF TypeOK, QueueBounded

\* Concurrent processes overshoot the limit by no more than passed the check.
LEMMA StepQueue ==
    ASSUME TypeOK, QueueBounded, [Next]_vars
    PROVE  /\ QueueBounded'
           /\ (queued \in 0..(MaxQueued + MaxMailProgs) /\ others \in 0..(MaxMailProgs - 1))'
  <1>1. CASE QueueHasCapacity
    <2>1. Writing' => queued < MaxQueued
      BY <1>1, Sizes DEF QueueHasCapacity, Full, Writing, TypeOK
    <2> QED
      BY <1>1, <2>1, SameQueue DEF QueueHasCapacity
  <1>2. CASE SanitizeTitle
    BY <1>2, SameQueue DEF SanitizeTitle, Writing
  <1>3. CASE StartTable
    BY <1>3, SameQueue DEF StartTable, Writing
  <1>4. CASE SearchTable
    BY <1>4, SameQueue DEF SearchTable, Writing
  <1>5. CASE EndTable
    BY <1>5, SameQueue DEF EndTable, Writing
  <1>6. CASE LimitText
    BY <1>6, SameQueue DEF LimitText, Writing
  <1>7. CASE EndText
    BY <1>7, SameQueue DEF EndText, Writing
  <1>8. CASE WriteMessage
    BY <1>8, Sizes DEF WriteMessage, Writing, TypeOK, QueueBounded
  <1>9. CASE Environment
    <2> DEFINE w == IF Writing THEN 1 ELSE 0
    <2>1. w \in 0..1 /\ w' = w
      BY <1>9 DEF Environment, Writing
    <2>2. /\ MaxQueued \in Nat /\ MaxMailProgs \in Nat /\ MaxMailProgs > 0
          /\ queued \in Nat /\ others \in 0..(MaxMailProgs - 1)
          /\ queued + others + w <= MaxQueued + MaxMailProgs - 1
      BY Sizes DEF TypeOK, QueueBounded
    <2>3. \/ queued < MaxQueued /\ others < MaxMailProgs - 1
             /\ others' = others + 1 /\ queued' = queued
          \/ others > 0 /\ others' = others - 1 /\ queued' \in {queued, queued + 1}
          \/ queued > 0 /\ queued' = queued - 1 /\ others' = others
      BY <1>9, <2>2 DEF Environment, Full
    <2>4. queued' \in Nat /\ others' \in 0..(MaxMailProgs - 1)
      BY <2>2, <2>3
    <2>5. queued' + others' + w <= MaxQueued + MaxMailProgs - 1
      BY <2>1, <2>2, <2>3
    <2>6. QueueBounded'
      BY <2>1, <2>5 DEF QueueBounded
    <2>7. queued' \in 0..(MaxQueued + MaxMailProgs)
      <3> HIDE DEF w
      <3>1. w \in Nat /\ queued' \in Nat /\ others' \in Nat
        BY <2>1, <2>2, <2>4
      <3>2. \A a, b, c, m, n \in Nat : a + b + c <= m + n - 1 => a <= m + n
        OBVIOUS
      <3>3. queued' <= MaxQueued + MaxMailProgs
        BY <2>2, <2>5, <3>1, <3>2
      <3> QED
        BY <2>2, <3>1, <3>3
    <2> QED
      BY <2>4, <2>6, <2>7
  <1>10. CASE UNCHANGED vars
    BY <1>10, SameQueue DEF vars, Writing
  <1> QED
    BY <1>1, <1>2, <1>3, <1>4, <1>5, <1>6, <1>7, <1>8, <1>9, <1>10 DEF Next, Step

\* The middle of an interval is in it.
LEMMA MidpointIs ==
    ASSUME TypeOK, low <= high
    PROVE  /\ Midpoint \in Nat /\ low <= Midpoint /\ Midpoint <= high
           /\ low \in Nat /\ high \in Nat
  BY DEF TypeOK, Midpoint

\* A round of a search keeps the bounds of its interval.
LEMMA NarrowType ==
    ASSUME TypeOK, low <= high, NEW c \in [shown : Nat, size : Nat], Narrow(c, Midpoint)
    PROVE  /\ low' \in Nat /\ high' \in Int /\ low' <= high' + 1
           /\ best' \in [shown : Nat, size : Nat]
  <1>1. /\ Midpoint \in Nat /\ low <= Midpoint /\ Midpoint <= high
        /\ low \in Nat /\ high \in Nat
    BY MidpointIs
  <1>2. CASE Fits(c)
    BY <1>1, <1>2 DEF Narrow
  <1>3. CASE ~Fits(c)
    BY <1>1, <1>3 DEF Narrow, TypeOK
  <1> QED
    BY <1>2, <1>3

\* Every variable keeps its type.
LEMMA StepType ==
    ASSUME TypeOK, QueueBounded, TitleFits', [Next]_vars
    PROVE  TypeOK'
  <1>1. (queued \in 0..(MaxQueued + MaxMailProgs) /\ others \in 0..(MaxMailProgs - 1))'
    BY StepQueue
  <1>2. title' \in Seq([json : Nat, cols : Nat, utf8 : Nat])
    <2> DEFINE T == [json : Nat, cols : Nat, utf8 : Nat]
    <2>1. 1..MaxJson \subseteq Nat /\ 1..4 \subseteq Nat
      BY Sizes
    <2>2. Typed \subseteq T
      BY <2>1 DEF Typed
    <2> HIDE DEF T
    <2>3. Seq(Typed) \subseteq Seq(T)
      BY <2>2
    <2>4. title' \in Seq(Typed)
      BY DEF TitleFits, Typed
    <2> QED
      BY <2>3, <2>4 DEF T
  <1>3. subject' \in Subjects /\ value' \in [Fields -> Values]
    BY DEF TypeOK, Next, Step, vars, job, QueueHasCapacity, SanitizeTitle,
       StartTable, SearchTable, EndTable, LimitText, EndText, WriteMessage, Environment
  <1>4. pc' \in {"check", "title", "table", "search", "limit", "write", "queued",
                 "dropped"}
    BY DEF TypeOK, Next, Step, vars, QueueHasCapacity, SanitizeTitle,
       StartTable, SearchTable, EndTable, LimitText, EndText, WriteMessage, Environment
  <1>5. /\ WholeTable \in [shown : Nat, size : Nat]
        /\ \A k \in Nat : CutTable(k) \in [shown : Nat, size : Nat]
        /\ \A n \in Nat : CutText(n) \in [shown : Nat, size : Nat]
    BY CandidateTypes DEF TypeOK
  <1> DEFINE Searched == /\ low \in Nat /\ high \in Int /\ low <= high + 1
                         /\ best \in [shown : Nat, size : Nat]
                         /\ body \in [shown : Nat, size : Nat]
                         /\ text \in Seq(Nat)
  <1>6. Searched'
    <2>1. CASE QueueHasCapacity \/ SanitizeTitle \/ WriteMessage \/ Environment
               \/ UNCHANGED vars
      BY <2>1 DEF TypeOK, search, vars, QueueHasCapacity, SanitizeTitle,
         WriteMessage, Environment
    <2>2. CASE StartTable
      <3>1. Longest \in Nat /\ Longest >= 1
        BY LongestIs DEF TypeOK
      <3>2. body' = WholeTable \/ body' = body
        BY <2>2 DEF StartTable
      <3>3. \/ low' = low /\ high' = high
            \/ low' = 1 /\ high' = Longest
        BY <2>2 DEF StartTable
      <3>4. best' = best /\ text' = text
        BY <2>2 DEF StartTable
      <3>5. Searched
        BY DEF TypeOK
      <3> QED
        <4>1. low' \in Nat /\ high' \in Int /\ low' <= high' + 1
          BY <3>1, <3>3, <3>5
        <4>2. body' \in [shown : Nat, size : Nat]
          BY <1>5, <3>2, <3>5
        <4> QED
          BY <3>4, <3>5, <4>1, <4>2
    <2>3. CASE SearchTable
      <3>1. /\ low' \in Nat /\ high' \in Int /\ low' <= high' + 1
            /\ best' \in [shown : Nat, size : Nat]
        BY <2>3, <1>5, MidpointIs, NarrowType DEF SearchTable
      <3> QED
        BY <2>3, <3>1 DEF TypeOK, SearchTable
    <2>4. CASE EndTable
      <3>1. SmallestTable \in Seq(Nat) /\ Len(SmallestTable) \in Nat
        BY SmallestTableType DEF TypeOK
      <3>2. [shown |-> 0, size |-> SuffixChars + 4] \in [shown : Nat, size : Nat]
        BY Sizes
      <3> QED
        BY <2>4, <3>1, <3>2 DEF TypeOK, EndTable, search
    <2>5. CASE LimitText
      <3>1. /\ low' \in Nat /\ high' \in Int /\ low' <= high' + 1
            /\ best' \in [shown : Nat, size : Nat]
        BY <2>5, <1>5, MidpointIs, NarrowType DEF LimitText
      <3> QED
        BY <2>5, <3>1 DEF TypeOK, LimitText
    <2>6. CASE EndText
      BY <2>6 DEF TypeOK, EndText, search
    <2> QED
      BY <2>1, <2>2, <2>3, <2>4, <2>5, <2>6 DEF Next, Step
  <1> QED
    BY <1>1, <1>2, <1>3, <1>4, <1>6 DEF TypeOK

\* sanitize_title makes the only title, and it is short enough.
LEMMA StepTitle ==
    ASSUME TypeOK, TitleFits, [Next]_vars
    PROVE  TitleFits'
  <1>1. CASE SanitizeTitle
    <2>1. subject \in Seq(Typed)
      BY TextType DEF TypeOK
    <2>2. CutTitle(subject) \in Seq(Typed) /\ Utf8(CutTitle(subject)) <= MaxTitle
      BY <2>1, CutTitleFits
    <2> DEFINE t == [i \in 1..DefaultTitle |-> [json |-> 1, cols |-> 1, utf8 |-> 1]]
    <2>3. t \in Seq(Typed) /\ Utf8(t) <= MaxTitle
      BY DefaultTitleFits
    <2> HIDE DEF t
    <2>4. title' = CutTitle(subject) \/ title' = t
      BY <1>1 DEF SanitizeTitle, t
    <2> QED
      BY <2>2, <2>3, <2>4 DEF TitleFits, Typed
  <1>2. CASE UNCHANGED title
    BY <1>2 DEF TitleFits
  <1> QED
    BY <1>1, <1>2 DEF Next, Step, vars, QueueHasCapacity, StartTable, SearchTable,
       EndTable, LimitText, EndText, WriteMessage, Environment

-----------------------------------------------------------------------------
(* The searches *)

\* After the title is made, neither it nor the values change, and so neither do
\* the candidates nor what fits.
LEMMA SameSizes ==
    ASSUME UNCHANGED <<value, title>>
    PROVE  /\ Longest' = Longest /\ WholeTable' = WholeTable
           /\ \A k : CutTable(k)' = CutTable(k)
           /\ \A c : Fits(c)' <=> Fits(c)
  BY DEF Longest, WholeTable, CutTable, TableSize, Limited, Fits, PayloadSize

\* The texts change with the text only.
LEMMA SameTexts ==
    ASSUME UNCHANGED text
    PROVE  \A n : CutText(n)' = CutText(n)
  BY DEF CutText

\* A round of the search for the longest values keeps what is known of it.
LEMMA StepTables ==
    ASSUME MailProgInv, SearchTable
    PROVE  TableSearch'
  <1>1. /\ pc = "search" /\ pc' = "search" /\ low <= high
        /\ UNCHANGED <<value, title>> /\ Narrow(CutTable(Midpoint), Midpoint)
    BY DEF SearchTable, job
  <1>2. /\ ~Fits(WholeTable) /\ low >= 1 /\ high <= Longest
        /\ \/ low = 1 /\ best = NoTable
           \/ low > 1 /\ best = CutTable(low - 1) /\ Fits(best)
        /\ \A k \in (high + 1)..Longest : ~Fits(CutTable(k))
    BY <1>1 DEF MailProgInv, TableSearch
  <1>3. /\ Midpoint \in Nat /\ low <= Midpoint /\ Midpoint <= high
        /\ low \in Nat /\ high \in Nat
    BY <1>1, MidpointIs DEF MailProgInv
  <1>4. Longest \in Nat
    BY LongestIs DEF MailProgInv, TypeOK
  <1>5. /\ Longest' = Longest /\ WholeTable' = WholeTable
        /\ \A k : CutTable(k)' = CutTable(k)
        /\ \A c : Fits(c)' <=> Fits(c)
    BY <1>1, SameSizes
  <1>6. /\ low' >= 1 /\ high' <= Longest
        /\ \/ low' = 1 /\ best' = NoTable
           \/ low' > 1 /\ best' = CutTable(low' - 1) /\ Fits(best')
        /\ \A k \in (high' + 1)..Longest : ~Fits(CutTable(k))
    <2>1. CASE Fits(CutTable(Midpoint))
      <3>1. best' = CutTable(Midpoint) /\ low' = Midpoint + 1 /\ high' = high
        BY <1>1, <2>1 DEF Narrow
      <3>2. low' - 1 = Midpoint /\ low' > 1
        BY <1>2, <1>3, <3>1
      <3> QED
        BY <1>2, <1>3, <2>1, <3>1, <3>2
    <2>2. CASE ~Fits(CutTable(Midpoint))
      <3>1. best' = best /\ low' = low /\ high' = Midpoint - 1
        BY <1>1, <2>2 DEF Narrow
      <3>2. ASSUME NEW k \in Midpoint..Longest PROVE ~Fits(CutTable(k))
        <4>1. k \in Nat /\ Midpoint <= k
          BY <1>3
        <4>2. /\ TableSize(Midpoint) \in Nat /\ TableSize(k) \in Nat
              /\ TableSize(Midpoint) <= TableSize(k)
          BY <1>3, <4>1, TablesGrow DEF MailProgInv, TypeOK
        <4>3. /\ CutTable(Midpoint).size \in Nat /\ CutTable(k).size \in Nat
              /\ CutTable(Midpoint).size <= CutTable(k).size
          BY <4>2, Sizes DEF CutTable
        <4> QED
          BY <2>2, <4>3, FitsLess DEF MailProgInv
      <3>3. (high' + 1)..Longest = Midpoint..Longest
        BY <1>3, <3>1
      <3> QED
        BY <1>2, <1>3, <1>4, <3>1, <3>2, <3>3
    <2> QED
      BY <2>1, <2>2
  <1>7. ~Fits(WholeTable)'
    BY <1>2, <1>5
  <1>8. Fits(best)' <=> Fits(best')
    BY <1>1 DEF Fits, PayloadSize
  <1>9. /\ \A k \in (high' + 1)..Longest : ~Fits(CutTable(k))'
    BY <1>5, <1>6 DEF Fits, PayloadSize
  <1> QED
    BY <1>1, <1>5, <1>6, <1>7, <1>8, <1>9 DEF TableSearch

\* A round of the search for the longest text does so as well.
LEMMA StepTexts ==
    ASSUME MailProgInv, LimitText
    PROVE  TextSearch'
  <1>1. /\ pc = "limit" /\ pc' = "limit" /\ low <= high
        /\ UNCHANGED <<value, title, text>> /\ Narrow(CutText(Midpoint), Midpoint)
    BY DEF LimitText, job
  <1>2. /\ NoTableFits /\ high <= Len(text)
        /\ (low = 0 /\ best = CutText(0)) \/ (low > 0 /\ best = CutText(low - 1))
        /\ Fits(best)
        /\ \A n \in (high + 1)..Len(text) : ~Fits(CutText(n))
    BY <1>1 DEF MailProgInv, TextSearch
  <1>3. /\ Midpoint \in Nat /\ low <= Midpoint /\ Midpoint <= high
        /\ low \in Nat /\ high \in Nat
    BY <1>1, MidpointIs DEF MailProgInv
  <1>4. Len(text) \in Nat
    BY DEF MailProgInv, TypeOK
  <1>5. /\ Longest' = Longest /\ WholeTable' = WholeTable
        /\ \A k : CutTable(k)' = CutTable(k)
        /\ \A c : Fits(c)' <=> Fits(c)
    BY <1>1, SameSizes
  <1>6. \A n : CutText(n)' = CutText(n)
    BY <1>1, SameTexts
  <1>7. /\ high' <= Len(text)
        /\ (low' = 0 /\ best' = CutText(0)) \/ (low' > 0 /\ best' = CutText(low' - 1))
        /\ Fits(best')
        /\ \A n \in (high' + 1)..Len(text) : ~Fits(CutText(n))
    <2>1. CASE Fits(CutText(Midpoint))
      <3>1. best' = CutText(Midpoint) /\ low' = Midpoint + 1 /\ high' = high
        BY <1>1, <2>1 DEF Narrow
      <3>2. low' - 1 = Midpoint /\ low' > 0
        BY <1>3, <3>1
      <3> QED
        BY <1>2, <2>1, <3>1, <3>2
    <2>2. CASE ~Fits(CutText(Midpoint))
      <3>1. best' = best /\ low' = low /\ high' = Midpoint - 1
        BY <1>1, <2>2 DEF Narrow
      <3>2. ASSUME NEW n \in Midpoint..Len(text) PROVE ~Fits(CutText(n))
        <4>1. n \in Nat /\ Midpoint <= n
          BY <1>3
        <4>2. /\ CutText(Midpoint).size \in Nat /\ CutText(n).size \in Nat
              /\ CutText(Midpoint).size <= CutText(n).size
          BY <1>3, <4>1, TextsGrow
        <4> QED
          BY <2>2, <4>2, FitsLess DEF MailProgInv
      <3>3. (high' + 1)..Len(text) = Midpoint..Len(text)
        BY <1>3, <3>1
      <3> QED
        BY <1>2, <1>3, <1>4, <3>1, <3>2, <3>3
    <2> QED
      BY <2>1, <2>2
  <1>8. NoTableFits'
    BY <1>2, <1>5 DEF NoTableFits, Fits, PayloadSize
  <1>9. Fits(best)' <=> Fits(best')
    BY <1>1 DEF Fits, PayloadSize
  <1>10. \A n \in (high' + 1)..Len(text) : ~Fits(CutText(n))'
    BY <1>6, <1>7, <1>5 DEF Fits, PayloadSize
  <1>11. \/ low' = 0 /\ best' = CutText(0)'
         \/ low' > 0 /\ best' = CutText(low - 1)'
    BY <1>6, <1>7
  <1> QED
    BY <1>1, <1>7, <1>8, <1>9, <1>10, <1>11 DEF TextSearch

\* build_notification_body_for_publish: the search begins with all values.
LEMMA StartSearch ==
    ASSUME MailProgInv, StartTable
    PROVE  TableSearch'
  <1>1. /\ pc = "table" /\ UNCHANGED <<value, title, best>>
        /\ Fits(WholeTable) => pc' = "write"
        /\ ~Fits(WholeTable) => low' = 1 /\ high' = Longest /\ pc' = "search"
    BY DEF StartTable, job
  <1>2. best = NoTable
    BY <1>1 DEF MailProgInv, TableSearch
  <1>3. CASE Fits(WholeTable)
    BY <1>1, <1>3 DEF TableSearch
  <1>4. CASE ~Fits(WholeTable)
    <2>1. Longest \in Nat
      BY LongestIs DEF MailProgInv, TypeOK
    <2>2. Longest' = Longest /\ ~Fits(WholeTable)'
      BY <1>1, <1>4, SameSizes
    <2>3. (high' + 1)..Longest' = {}
      BY <1>1, <1>4, <2>1, <2>2
    <2> QED
      BY <1>1, <1>2, <1>4, <2>1, <2>2, <2>3 DEF TableSearch, NoTable
  <1> QED
    BY <1>3, <1>4

\* The search without a table that fits goes on with the text of the smallest.
LEMMA StartText ==
    ASSUME MailProgInv, EndTable
    PROVE  TextSearch'
  <1> SUFFICES ASSUME pc' = "limit" PROVE TextSearch'
    BY DEF TextSearch
  <1>1. /\ pc = "search" /\ low > high /\ UNCHANGED <<value, title>>
        /\ best = NoTable /\ text' = SmallestTable
        /\ low' = 0 /\ high' = Len(SmallestTable)
        /\ best' = [shown |-> 0, size |-> SuffixChars + 4]
    BY DEF EndTable, job
  <1>2. /\ ~Fits(WholeTable) /\ low >= 1 /\ low <= high + 1
        /\ low \in Nat /\ high \in Int /\ Longest \in Nat
        /\ \A k \in (high + 1)..Longest : ~Fits(CutTable(k))
    BY <1>1, LongestIs DEF MailProgInv, TableSearch, TypeOK
  <1>3. low = 1
    <2>1. CASE low > 1 /\ best = CutTable(low - 1)
      <3>1. CutTable(low - 1).shown = low - 1 /\ NoTable.shown = 0
        BY DEF CutTable, NoTable
      <3> QED
        BY <1>1, <1>2, <2>1, <3>1
    <2> QED
      BY <1>1, <2>1 DEF MailProgInv, TableSearch
  <1>4. NoTableFits
    <2>1. high + 1 = 1
      BY <1>1, <1>2, <1>3
    <2> QED
      BY <1>2, <2>1 DEF NoTableFits
  <1>5. NoTableFits'
    BY <1>1, <1>4, SameSizes DEF NoTableFits, Fits, PayloadSize
  <1>6. text' \in Seq(Nat) /\ Len(text') \in Nat
    BY <1>1, SmallestTableType DEF MailProgInv, TypeOK
  <1>7. (high' + 1)..Len(text') = {}
    BY <1>1, <1>6
  <1>8. CutText(0)' = best'
    <2>1. (1..0) \X (1..MaxJson) = {}
      OBVIOUS
    <2>2. {b \in (1..0) \X (1..MaxJson) : b[2] <= text'[b[1]]} = {}
      BY <2>1
    <2>3. Cardinality({}) = 0
      BY FS_EmptySet
    <2>4. CutText(0)' = [shown |-> 0, size |-> 0 + SuffixChars + 4]
      BY <2>2, <2>3 DEF CutText
    <2> QED
      BY <1>1, <2>4, Sizes
  <1>9. Fits(best)'
    <2>1. best'.size = SuffixChars + 4
      BY <1>1
    <2>2. Fits(best')
      BY <2>1, SuffixFits DEF MailProgInv
    <2> QED
      BY <1>1, <2>2 DEF Fits, PayloadSize
  <1> QED
    BY <1>1, <1>5, <1>6, <1>7, <1>8, <1>9 DEF TextSearch

-----------------------------------------------------------------------------
(* What is chosen *)

\* What is chosen depends on the title, the values and the text alone.
LEMMA SameChoice ==
    ASSUME UNCHANGED <<value, title, text>>
    PROVE  Chosen(body)' <=> Chosen(body')
  <1>1. /\ Longest' = Longest /\ WholeTable' = WholeTable
        /\ \A k : CutTable(k)' = CutTable(k)
        /\ \A c : Fits(c)' <=> Fits(c)
    BY SameSizes
  <1>2. \A n : CutText(n)' = CutText(n)
    BY SameTexts
  <1>3. Tables' = Tables /\ Texts' = Texts
    BY <1>1, <1>2 DEF Tables, Texts
  <1>4. Best(Tables)' = Best(Tables) /\ Best(Texts)' = Best(Texts)
    BY <1>3 DEF Best, Fits, PayloadSize
  <1>5. /\ Fits(body)' <=> Fits(body')
        /\ Fits(WholeTable)' <=> Fits(WholeTable)
    BY <1>1 DEF Fits, PayloadSize
  <1> QED
    BY <1>1, <1>4, <1>5 DEF Chosen

\* No table is best where none fits.
LEMMA NoBestTable == ASSUME NoTableFits PROVE Best(Tables) = {}
  BY DEF NoTableFits, Best, Tables

\* build_notification_body_for_publish ends with the longest values that fit.
LEMMA EndOfTables ==
    ASSUME MailProgInv, EndTable, pc' = "write"
    PROVE  Chosen(body)'
  <1>1. /\ pc = "search" /\ low > high /\ UNCHANGED <<value, title, text>>
        /\ best # NoTable /\ body' = best
    BY DEF EndTable, job, search
  <1>2. /\ ~Fits(WholeTable) /\ low > 1 /\ low <= high + 1 /\ high <= Longest
        /\ low \in Nat /\ high \in Int /\ Longest \in Nat
        /\ best = CutTable(low - 1) /\ Fits(best)
        /\ \A k \in (high + 1)..Longest : ~Fits(CutTable(k))
    BY <1>1, LongestIs DEF MailProgInv, TableSearch, TypeOK
  <1>3. low - 1 = high /\ high \in 1..Longest
    BY <1>1, <1>2
  <1>4. best \in Tables
    BY <1>2, <1>3 DEF Tables
  <1>5. ASSUME NEW d \in Tables, Fits(d) PROVE d.shown <= best.shown
    <2>1. PICK k \in 1..Longest : d = CutTable(k)
      BY DEF Tables
    <2>2. k <= high
      BY <1>2, <1>3, <1>5, <2>1
    <2>3. d.shown = k /\ best.shown = high
      BY <1>2, <1>3, <2>1 DEF CutTable
    <2> QED
      BY <2>2, <2>3
  <1>6. best \in Best(Tables)
    BY <1>2, <1>4, <1>5 DEF Best
  <1>7. Chosen(best)
    BY <1>2, <1>6 DEF Chosen
  <1> QED
    BY <1>1, <1>7, SameChoice

\* fit_body_to_publish_limit ends with the longest text that fits.
LEMMA EndOfTexts ==
    ASSUME MailProgInv, EndText
    PROVE  Chosen(body)'
  <1>1. /\ pc = "limit" /\ low > high /\ UNCHANGED <<value, title, text>>
        /\ body' = best
    BY DEF EndText, job, search
  <1>2. /\ NoTableFits /\ high <= Len(text) /\ Fits(best)
        /\ (low = 0 /\ best = CutText(0)) \/ (low > 0 /\ best = CutText(low - 1))
        /\ \A n \in (high + 1)..Len(text) : ~Fits(CutText(n))
        /\ low \in Nat /\ high \in Int /\ low <= high + 1 /\ Len(text) \in Nat
    BY <1>1 DEF MailProgInv, TextSearch, TypeOK
  <1>3. low = high + 1
    BY <1>1, <1>2
  <1>4. low > 0
    <2>1. CASE low = 0
      <3>1. 0 \in (high + 1)..Len(text) /\ best = CutText(0)
        BY <1>2, <1>3, <2>1
      <3> QED
        BY <1>2, <3>1
    <2> QED
      BY <1>2, <2>1
  <1>5. high \in 0..Len(text) /\ best = CutText(high)
    BY <1>2, <1>3, <1>4
  <1>6. best \in Texts
    BY <1>5 DEF Texts
  <1>7. ASSUME NEW d \in Texts, Fits(d) PROVE d.shown <= best.shown
    <2>1. PICK n \in 0..Len(text) : d = CutText(n)
      BY DEF Texts
    <2>2. n <= high
      BY <1>2, <1>5, <1>7, <2>1
    <2>3. d.shown = n /\ best.shown = high
      BY <1>5, <2>1 DEF CutText
    <2> QED
      BY <2>2, <2>3
  <1>8. best \in Best(Texts)
    BY <1>2, <1>6, <1>7 DEF Best
  <1>9. Chosen(best)
    BY <1>2, <1>8, NoBestTable DEF Chosen, NoTableFits
  <1> QED
    BY <1>1, <1>9, SameChoice

\* Only the ends of the searches choose a body.
LEMMA StepChosen ==
    ASSUME MailProgInv, [Next]_vars
    PROVE  BodyChosen'
  <1>1. CASE StartTable
    <2> SUFFICES ASSUME pc' = "write" PROVE Chosen(body)'
      BY <1>1 DEF StartTable, BodyChosen
    <2>1. /\ Fits(WholeTable) /\ body' = WholeTable
          /\ UNCHANGED <<value, title, text>>
      BY <1>1 DEF StartTable, job
    <2>2. Chosen(body')
      BY <2>1 DEF Chosen
    <2> QED
      BY <2>1, <2>2, SameChoice
  <1>2. CASE EndTable
    BY <1>2, EndOfTables DEF BodyChosen, EndTable
  <1>3. CASE EndText
    BY <1>3, EndOfTexts DEF BodyChosen
  <1>4. CASE WriteMessage \/ Environment \/ UNCHANGED vars
    <2>1. /\ UNCHANGED <<value, title, text, body>>
          /\ pc' \in {"write", "queued"} => pc \in {"write", "queued"}
      BY <1>4 DEF WriteMessage, Environment, vars, job, search
    <2>2. Chosen(body)' <=> Chosen(body)
      BY <2>1, SameChoice
    <2> QED
      BY <2>1, <2>2 DEF MailProgInv, BodyChosen
  <1>5. CASE QueueHasCapacity \/ SanitizeTitle \/ SearchTable \/ LimitText
    BY <1>5 DEF QueueHasCapacity, SanitizeTitle, SearchTable, LimitText, BodyChosen
  <1> QED
    BY <1>1, <1>2, <1>3, <1>4, <1>5 DEF Next, Step

\* Steps outside a search keep what is known of it.
LEMMA StepSearches ==
    ASSUME MailProgInv, [Next]_vars
    PROVE  TableSearch' /\ TextSearch'
  <1>1. CASE SearchTable
    BY <1>1, StepTables DEF SearchTable, TextSearch
  <1>2. CASE LimitText
    BY <1>2, StepTexts DEF LimitText, TableSearch
  <1>3. CASE StartTable
    BY <1>3, StartSearch DEF StartTable, TextSearch
  <1>4. CASE EndTable
    BY <1>4, StartText DEF EndTable, TableSearch
  <1>5. CASE EndText
    BY <1>5 DEF EndText, TableSearch, TextSearch
  <1>6. CASE QueueHasCapacity \/ SanitizeTitle
    BY <1>6 DEF QueueHasCapacity, SanitizeTitle, search, TableSearch, TextSearch,
       MailProgInv
  <1>7. CASE WriteMessage
    BY <1>7 DEF WriteMessage, TableSearch, TextSearch
  <1>8. CASE Environment \/ UNCHANGED vars
    <2>1. UNCHANGED <<value, title, text, pc, low, high, best>>
      BY <1>8 DEF Environment, vars, job, search
    <2>2. CASE pc \in {"search", "limit"}
      <3>1. /\ Longest' = Longest /\ WholeTable' = WholeTable
            /\ \A k : CutTable(k)' = CutTable(k)
            /\ \A n : CutText(n)' = CutText(n)
        BY <2>1, SameSizes, SameTexts
      <3>2. TableSearch'
        BY <2>1, <3>1 DEF MailProgInv, TableSearch, Fits, PayloadSize
      <3>3. NoTableFits' <=> NoTableFits
        BY <2>1, <3>1 DEF NoTableFits, Fits, PayloadSize
      <3>4. TextSearch'
        BY <2>1, <3>1, <3>3 DEF MailProgInv, TextSearch, Fits, PayloadSize
      <3> QED
        BY <3>2, <3>4
    <2>3. CASE pc \notin {"search", "limit"}
      BY <2>1, <2>3 DEF MailProgInv, TableSearch, TextSearch
    <2> QED
      BY <2>2, <2>3
  <1> QED
    BY <1>1, <1>2, <1>3, <1>4, <1>5, <1>6, <1>7, <1>8 DEF Next, Step

\* The invariant is inductive.
LEMMA StepHolds == MailProgInv /\ [Next]_vars => MailProgInv'
  <1> SUFFICES ASSUME MailProgInv, [Next]_vars PROVE MailProgInv'
    OBVIOUS
  <1>1. TypeOK /\ QueueBounded /\ TitleFits
    BY DEF MailProgInv
  <1>2. TitleFits'
    BY <1>1, StepTitle
  <1>3. TypeOK' /\ QueueBounded'
    BY <1>1, <1>2, StepType, StepQueue
  <1>4. TableSearch' /\ TextSearch' /\ BodyChosen'
    BY StepSearches, StepChosen
  <1> QED
    BY <1>2, <1>3, <1>4 DEF MailProgInv

\* And so it holds in every run of MailProg.
LEMMA MailProgSafe == Spec => []MailProgInv
  BY InitHolds, StepHolds, PTL DEF Spec

\* The searches of MailProg stay within their intervals, and every size is a
\* number, for every text and every layout of the table.
THEOREM TypeCorrect == Spec => []TypeOK
  <1>1. MailProgInv => TypeOK
    BY DEF MailProgInv
  <1> QED
    BY <1>1, MailProgSafe, PTL

\* queue_has_capacity: for every limit and any number of concurrent processes,
\* the queue exceeds the limit only by those that passed the check together.
THEOREM QueueBoundedHolds == Spec => []QueueBounded
  <1>1. MailProgInv => QueueBounded
    BY DEF MailProgInv
  <1> QED
    BY <1>1, MailProgSafe, PTL

\* publish_payload_size and sanitize_title: whatever the subject and the fields
\* hold, OCI and the worker accept the size of what is queued.
THEOREM QueuedIsValidHolds == Spec => []QueuedIsValid
  <1>1. MailProgInv => QueuedIsValid
    BY DEF MailProgInv, TitleFits, BodyChosen, Chosen, QueuedIsValid, Fits
  <1> QED
    BY <1>1, MailProgSafe, PTL

\* build_notification_body_for_publish and fit_body_to_publish_limit: what is
\* queued is the whole table if it fits, else the table with the longest values,
\* or the longest text, that fits; the binary searches miss none.
THEOREM TellsAllHolds == Spec => []TellsAll
  <1>1. MailProgInv => TellsAll
    BY DEF MailProgInv, BodyChosen, Chosen, TellsAll, Tables, Texts
  <1> QED
    BY <1>1, MailProgSafe, PTL

=============================================================================
