--------------------------- MODULE DataFileProofs ---------------------------
(***************************************************************************)
(* The external sort and the search in its images, for data files,           *)
(* partition sizes, pages and windows of any size and any number of          *)
(* processes that end at any point.                                          *)
(*                                                                          *)
(* What the library needs of its input, Distinct and Aligned, is a premise   *)
(* of each result as it is of each property.                                 *)
(***************************************************************************)
EXTENDS DataFile, Integers, FiniteSetTheorems, WellFoundedInduction, TLAPS

LEMMA Numbers ==
  /\ Page \in Nat \ {0} /\ WindowPages \in Nat \ {0}
  /\ PartitionSizes \subseteq Nat \ {0} /\ DataKeys \subseteq Nat /\ Queries \subseteq Nat
BY DataFileAssumption

-----------------------------------------------------------------------------
(* Quotients and remainders, pages and blocks. *)
LEMMA Division ==
  ASSUME NEW n \in Nat, NEW d \in Nat \ {0}
  PROVE  /\ n = d * (n \div d) + (n % d)
         /\ n % d \in 0..(d - 1) /\ n \div d \in Nat
OBVIOUS

LEMMA Product ==
  ASSUME NEW d \in Nat \ {0}, NEW a \in Int, NEW b \in Int
  PROVE  /\ d * a \in Int
         /\ a < b => d * a + d <= d * b
         /\ a \in Nat => d * a \in Nat
<1>1. ASSUME a < b PROVE d * a + d <= d * b
  <2>1. d * (b - a) >= d * 1
    BY <1>1
  <2> QED
    BY <2>1
<1> QED
  BY <1>1

LEMMA Remainder ==
  ASSUME NEW d \in Nat \ {0}, NEW a \in Nat, NEW r \in 0..(d - 1)
  PROVE  (d * a + r) % d = r /\ (d * a + r) \div d = a
<1> DEFINE n == d * a + r
           b == n \div d
           q == n % d
<1>1. n \in Nat /\ d * a \in Nat
  BY Product
<1>2. n = d * b + q /\ q \in 0..(d - 1) /\ b \in Nat
  BY <1>1, Division
<1> HIDE DEF b, q
<1>3. d * b \in Nat
  BY <1>2, Product
<1>4. d * a - d * b = q - r
  BY <1>1, <1>2, <1>3
<1>5. ~(a < b)
  <2>1. a < b => d * a + d <= d * b
    BY <1>2, Product
  <2> QED
    BY <2>1, <1>1, <1>2, <1>3, <1>4
<1>6. ~(b < a)
  <2>1. b < a => d * b + d <= d * a
    BY <1>2, Product
  <2> QED
    BY <2>1, <1>1, <1>2, <1>3, <1>4
<1>7. a = b /\ q = r
  BY <1>1, <1>2, <1>3, <1>4, <1>5, <1>6
<1> QED
  BY <1>7 DEF b, q

LEMMA Multiple ==
  ASSUME NEW d \in Nat \ {0}, NEW n \in Nat, n % d = 0
  PROVE  n = d * (n \div d) /\ n \div d \in Nat
BY Division

LEMMA MultipleOfMultiple ==
  ASSUME NEW d \in Nat \ {0}, NEW e \in Nat \ {0}, NEW n \in Nat, e % d = 0, n % e = 0
  PROVE  n % d = 0
<1> DEFINE x == e \div d
           y == n \div e
<1>1. e = d * x /\ x \in Nat /\ n = e * y /\ y \in Nat
  BY Multiple
<1> HIDE DEF x, y
<1>2. x * y \in Nat /\ n = d * (x * y)
  BY <1>1
<1> QED
  BY <1>2, Remainder

LEMMA SumOfMultiples ==
  ASSUME NEW d \in Nat \ {0}, NEW a \in Nat, NEW b \in Nat, a % d = 0, b % d = 0
  PROVE  (a + b) % d = 0
<1> DEFINE x == a \div d
           y == b \div d
<1>1. a = d * x /\ x \in Nat /\ b = d * y /\ y \in Nat
  BY Multiple
<1> HIDE DEF x, y
<1>2. x + y \in Nat /\ a + b = d * (x + y)
  BY <1>1
<1> QED
  BY <1>2, Remainder

LEMMA Down ==
  ASSUME NEW n \in Nat
  PROVE  PageDown(n) = n - (n % Page) /\ n % Page \in 0..(Page - 1)
<1>1. n = Page * (n \div Page) + (n % Page) /\ n % Page \in 0..(Page - 1) /\ n \div Page \in Nat
  BY Numbers, Division
<1> QED
  BY <1>1, Numbers DEF PageDown

LEMMA Up ==
  ASSUME NEW n \in Nat
  PROVE  /\ PageUp(n) \in Nat /\ PageUp(n) >= n
         /\ n > 0 => PageUp(n) >= Page
<1> DEFINE m == n + Page - 1
           q == m \div Page
           r == m % Page
<1>1. m \in Nat
  BY Numbers
<1>2. m = Page * q + r /\ r \in 0..(Page - 1) /\ q \in Nat
  BY <1>1, Numbers, Division
<1>3. PageUp(n) = Page * q
  BY <1>2, Numbers DEF PageUp, PageDown
<1>4. Page * q \in Nat
  BY <1>2, Numbers, Product
<1> HIDE DEF q, r
<1>5. ASSUME n > 0 PROVE Page * q >= Page
  <2>1. 0 < q => Page * 0 + Page <= Page * q
    BY <1>2, Numbers, Product
  <2>2. q = 0 => Page * q = 0
    BY Numbers
  <2>3. q # 0
    BY <2>2, <1>2, <1>5, Numbers
  <2> QED
    BY <2>1, <2>3, <1>2, Numbers
<1> QED
  BY <1>2, <1>3, <1>4, <1>5, Numbers

(* A mapping from start is as long as it should be when start begins a page  *)
(* or len entries from it end in the same page.                              *)
Fits(start, len) == start % Page = 0 \/ (start % Page) + len <= Page

LEMMA ReadableFits ==
  ASSUME NEW start \in Nat, NEW len \in Nat, Fits(start, len),
         NEW i \in 0..(len - 1), NEW file, Len(file) \in Nat, start + i < Len(file)
  PROVE  Readable(file, start, len, i)
<1>1. PageDown(start) = start - (start % Page) /\ start % Page \in 0..(Page - 1)
  BY Down
<1>2. PageUp(Len(file)) \in Nat /\ PageUp(Len(file)) >= Len(file)
  BY Up
<1>3. PageUp(len) \in Nat /\ PageUp(len) >= len /\ PageUp(len) >= Page
  BY Up
<1>4. start + i < PageDown(start) + PageUp(len)
  BY <1>1, <1>3, Numbers DEF Fits
<1> QED
  BY <1>2, <1>4 DEF Readable

-----------------------------------------------------------------------------
(* Partitions, as blocks of the sorted file. *)
Size == partition_size \in Nat \ {0}
Block(n) == (n - 1) \div partition_size

LEMMA FitsBlock ==
  ASSUME Size, Aligned, NEW s \in Nat, s % partition_size = 0, NEW len \in 0..partition_size
  PROVE  Fits(s, len)
<1>1. CASE partition_size % Page = 0
  BY <1>1, Numbers, MultipleOfMultiple DEF Fits, Size
<1>2. CASE Page % partition_size = 0
  <2> DEFINE a == Page \div partition_size
             b == s \div partition_size
             q == s \div Page
             r == s % Page
  <2>1. Page = partition_size * a /\ a \in Nat /\ s = partition_size * b /\ b \in Nat
    BY <1>2, Numbers, Multiple DEF Size
  <2>2. s = Page * q + r /\ r \in 0..(Page - 1) /\ q \in Nat
    BY Numbers, Division
  <2> HIDE DEF a, b, q, r
  <2>3. a * q \in Nat /\ Page * q = partition_size * (a * q)
    BY <2>1, <2>2 DEF Size
  <2>4. r = partition_size * (b - a * q) /\ b - a * q \in Int
    BY <2>1, <2>2, <2>3 DEF Size
  <2>5. b - a * q < a
    <3>1. a < b - a * q => partition_size * a + partition_size <= partition_size * (b - a * q)
      BY <2>1, <2>4, Product DEF Size
    <3>2. a = b - a * q => r = Page
      BY <2>1, <2>4
    <3>3. partition_size * a \in Nat
      BY <2>1, Numbers
    <3> QED
      BY <3>1, <3>2, <3>3, <2>1, <2>2, <2>4, Numbers DEF Size
  <2>6. partition_size * (b - a * q) + partition_size <= partition_size * a
    BY <2>1, <2>4, <2>5, Product DEF Size
  <2>7. r + len <= Page
    BY <2>1, <2>2, <2>4, <2>6, Numbers DEF Size
  <2> QED
    BY <2>7 DEF Fits, r
<1> QED
  BY <1>1, <1>2 DEF Aligned

LEMMA BlockOf ==
  ASSUME Size, NEW s \in Nat, s % partition_size = 0, NEW n \in (s + 1)..(s + partition_size)
  PROVE  Block(n) = s \div partition_size
<1> DEFINE b == s \div partition_size
<1>1. s = partition_size * b /\ b \in Nat
  BY Multiple DEF Size
<1>2. n - 1 - s \in 0..(partition_size - 1)
  BY DEF Size
<1>3. n - 1 = partition_size * b + (n - 1 - s)
  BY <1>1
<1> HIDE DEF b
<1>4. (partition_size * b + (n - 1 - s)) \div partition_size = b
  BY <1>1, <1>2, Remainder DEF Size
<1> QED
  BY <1>3, <1>4 DEF Block, b

LEMMA BlockBelow ==
  ASSUME Size, NEW s \in Nat, s % partition_size = 0, NEW n \in 1..s
  PROVE  Block(n) # s \div partition_size
<1> DEFINE b == s \div partition_size
           c == (n - 1) \div partition_size
           r == (n - 1) % partition_size
<1>1. s = partition_size * b /\ b \in Nat
  BY Multiple DEF Size
<1>2. n - 1 \in Nat
  OBVIOUS
<1>3. n - 1 = partition_size * c + r /\ c \in Nat /\ r \in 0..(partition_size - 1)
  BY <1>2, Division DEF Size
<1> HIDE DEF b, c, r
<1>4. b # c
  <2> SUFFICES ASSUME b = c PROVE FALSE
    OBVIOUS
  <2>1. n - 1 = s + r
    BY <1>1, <1>3
  <2> QED
    BY <2>1, <1>3
<1> QED
  BY <1>4 DEF Block, b, c

-----------------------------------------------------------------------------
(* Windows.  A partition is looked at through windows that begin at pages, or *)
(* what is left of it fits into one.                                          *)
Partition == [offset : Nat, end : Nat, start : Nat, len : Nat, it : Nat]

Windowed(p) ==
  \/ p.end - p.offset <= lookup_window_size /\ Fits(p.offset, p.end - p.offset)
  \/ p.offset % Page = 0 /\ lookup_window_size % Page = 0

Left(p) == (p.start + p.it + 1)..p.end

LookedAt(p) ==
  /\ p.it < p.len /\ p.start + p.len = p.offset /\ p.offset <= p.end
  /\ Fits(p.start, p.len) /\ Windowed(p)

LEMMA Window ==
  ASSUME Size
  PROVE  /\ lookup_window_size \in Nat \ {0} /\ lookup_window_size <= partition_size
         /\ \/ lookup_window_size = partition_size
            \/ lookup_window_size % Page = 0 /\ partition_size > Page
<1>1. Page * WindowPages \in Nat /\ (Page * WindowPages) % Page = 0
  <2>1. Page * WindowPages \in Nat
    BY Numbers, Product
  <2>2. (Page * WindowPages + 0) % Page = 0
    BY Numbers, Remainder
  <2> QED
    BY <2>1, <2>2
<1>2. Page * WindowPages >= Page
  <2>1. 0 < WindowPages => Page * 0 + Page <= Page * WindowPages
    BY Numbers, Product
  <2> QED
    BY <2>1, Numbers
<1>3. WindowPages * Page = Page * WindowPages
  BY Numbers
<1> QED
  BY <1>1, <1>2, <1>3, Numbers DEF lookup_window_size, Least, Size

LEMMA FirstWindow ==
  ASSUME Size, Aligned, NEW p \in Partition,
         p.offset % partition_size = 0, p.offset <= p.end, p.end <= p.offset + partition_size
  PROVE  Windowed(p)
<1>1. Fits(p.offset, p.end - p.offset)
  BY FitsBlock DEF Partition, Size
<1>2. CASE lookup_window_size = partition_size
  BY <1>1, <1>2 DEF Windowed, Partition, Size
<1>3. CASE lookup_window_size % Page = 0 /\ partition_size > Page
  <2>1. CASE partition_size % Page = 0
    BY <1>3, <2>1, Numbers, MultipleOfMultiple DEF Windowed, Partition, Size
  <2>2. CASE Page % partition_size = 0
    <3>1. Page = partition_size * (Page \div partition_size) /\ Page \div partition_size \in Nat
      BY <2>2, Numbers, Multiple DEF Size
    <3>2. 0 < Page \div partition_size =>
            partition_size * 0 + partition_size <= partition_size * (Page \div partition_size)
      BY <3>1, Product DEF Size
    <3> QED
      BY <3>1, <3>2, <1>3, Numbers DEF Size
  <2> QED
    BY <2>1, <2>2 DEF Aligned
<1> QED
  BY <1>2, <1>3, Window

LEMMA NextWindow ==
  ASSUME Size, NEW p \in Partition, p.offset < p.end, Windowed(p)
  PROVE  LET q == SetLookupWindow(p) IN
         /\ q \in Partition /\ q.end = p.end /\ LookedAt(q)
         /\ Left(q) = (p.offset + 1)..p.end
<1> DEFINE len == Least(lookup_window_size, p.end - p.offset)
           q == SetLookupWindow(p)
<1>1. len \in Nat \ {0} /\ len <= p.end - p.offset
      /\ (len = p.end - p.offset \/ len = lookup_window_size) /\ len <= lookup_window_size
  BY Window DEF Least, Partition
<1> HIDE DEF len
<1>2. /\ q \in Partition /\ q.offset = p.offset + len /\ q.end = p.end
      /\ q.start = p.offset /\ q.len = len /\ q.it = 0
  <2>1. q = [p EXCEPT !.start = p.offset, !.len = len, !.it = 0, !.offset = @ + len]
    BY DEF SetLookupWindow, len
  <2> HIDE DEF q
  <2>2. DOMAIN p = {"offset", "end", "start", "len", "it"}
    BY DEF Partition
  <2>3. DOMAIN q = {"offset", "end", "start", "len", "it"}
    BY <2>1, <2>2
  <2>4. q.offset = p.offset + len
    BY <2>1, <2>2
  <2>5. q.end = p.end
    BY <2>1, <2>2
  <2>6. q.start = p.offset /\ q.len = len /\ q.it = 0
    BY <2>1, <2>2
  <2>7. q = [offset |-> q.offset, end |-> q.end, start |-> q.start, len |-> q.len, it |-> q.it]
    BY <2>1, <2>3
  <2> QED
    BY <1>1, <2>4, <2>5, <2>6, <2>7 DEF Partition
<1> HIDE DEF q
<1>3. q \in Partition /\ q.end = p.end /\ q.offset <= q.end /\ q.it < q.len /\ q.start + q.len = q.offset
  BY <1>1, <1>2 DEF Partition
<1>4. Fits(p.offset, len)
  BY <1>1, Numbers DEF Windowed, Fits, Partition
<1>5. (p.offset + len) % Page \in 0..(Page - 1)
  <2>1. p.offset + len \in Nat
    BY <1>1 DEF Partition
  <2> QED
    BY <2>1, Numbers, Division
<1>6. CASE p.offset + len = p.end
  <2>1. q.end - q.offset = 0 /\ 0 <= lookup_window_size /\ q.offset = p.offset + len
    BY <1>1, <1>2, <1>6, Window DEF Partition
  <2>2. Fits(q.offset, 0)
    BY <1>5, <2>1, Numbers DEF Fits
  <2>3. LookedAt(q) /\ Left(q) = (p.offset + 1)..p.end
    BY <1>2, <1>3, <1>4, <2>1, <2>2 DEF LookedAt, Windowed, Left, Partition
  <2> QED
    BY <1>3, <2>3 DEF q
<1>7. CASE p.offset + len # p.end
  <2>1. len = lookup_window_size /\ p.offset % Page = 0 /\ lookup_window_size % Page = 0
    BY <1>1, <1>7 DEF Windowed, Partition
  <2>2. (p.offset + len) % Page = 0
    BY <2>1, <1>1, Numbers, SumOfMultiples DEF Partition
  <2>3. LookedAt(q) /\ Left(q) = (p.offset + 1)..p.end
    BY <1>2, <1>3, <1>4, <2>1, <2>2 DEF LookedAt, Windowed, Left, Partition
  <2> QED
    BY <1>3, <2>3 DEF q
<1> QED
  BY <1>6, <1>7

LEMMA UnreadLeft ==
  ASSUME NEW p \in Partition, LookedAt(p)
  PROVE  Unread(p) = Left(p)
BY DEF Unread, Left, LookedAt, Partition

(* move_iterator: what is left is one entry less. *)
LEMMA MovesOn ==
  ASSUME Size, NEW p \in Partition, LookedAt(p)
  PROVE  \/ MoveIterator(p) = <<>> /\ Left(p) = {p.start + p.it + 1}
         \/ \E q \in Partition :
              /\ MoveIterator(p) = <<q>> /\ q.end = p.end /\ LookedAt(q)
              /\ Left(q) = Left(p) \ {p.start + p.it + 1}
<1>1. CASE p.it + 1 < p.len
  <2> DEFINE q == [p EXCEPT !.it = @ + 1]
  <2>1. MoveIterator(p) = <<q>>
    BY <1>1 DEF MoveIterator
  <2>2. q \in Partition /\ q.end = p.end /\ q.start = p.start /\ q.it = p.it + 1
        /\ q.len = p.len /\ q.offset = p.offset
    BY DEF Partition
  <2> HIDE DEF q
  <2>3. LookedAt(q) /\ Left(q) = Left(p) \ {p.start + p.it + 1}
    BY <2>2, <1>1 DEF LookedAt, Windowed, Left, Partition
  <2> QED
    BY <2>1, <2>2, <2>3
<1>2. CASE p.it + 1 >= p.len /\ p.offset < p.end
  <2>1. MoveIterator(p) = <<SetLookupWindow(p)>>
    BY <1>2 DEF MoveIterator, Partition
  <2>2. LET q == SetLookupWindow(p) IN
        q \in Partition /\ q.end = p.end /\ LookedAt(q) /\ Left(q) = (p.offset + 1)..p.end
    BY <1>2, NextWindow DEF LookedAt
  <2>3. (p.offset + 1)..p.end = Left(p) \ {p.start + p.it + 1}
    BY <1>2 DEF Left, LookedAt, Partition
  <2> QED
    BY <2>1, <2>2, <2>3
<1>3. CASE p.it + 1 >= p.len /\ ~(p.offset < p.end)
  BY <1>3 DEF MoveIterator, Left, LookedAt, Partition
<1> QED
  BY <1>1, <1>2, <1>3 DEF Partition

-----------------------------------------------------------------------------
(* Sorting.  An entry's place is its rank by key. *)
Entry == [key : Nat, val : Nat]
UpTo(S, e) == {d \in S : d.key <= e.key}

LEMMA Ranks ==
  ASSUME NEW S, S \subseteq Entry, IsFiniteSet(S), \A d, e \in S : d.key = e.key => d = e
  PROVE  /\ Cardinality(S) \in Nat
         /\ \A e \in S : Cardinality(UpTo(S, e)) \in 1..Cardinality(S)
         /\ \A d, e \in S : d.key < e.key <=> Cardinality(UpTo(S, d)) < Cardinality(UpTo(S, e))
         /\ \A n \in 1..Cardinality(S) : \E e \in S : Cardinality(UpTo(S, e)) = n
<1>1. Cardinality(S) \in Nat
  BY FS_CardinalityType
<1>2. ASSUME NEW e \in S PROVE Cardinality(UpTo(S, e)) \in 1..Cardinality(S)
  <2>1. UpTo(S, e) \in SUBSET S /\ e \in UpTo(S, e)
    BY DEF UpTo, Entry
  <2>2. IsFiniteSet(UpTo(S, e)) /\ Cardinality(UpTo(S, e)) <= Cardinality(S)
    BY <2>1, FS_Subset
  <2>3. Cardinality(UpTo(S, e)) \in Nat /\ Cardinality(UpTo(S, e)) # 0
    BY <2>1, <2>2, FS_CardinalityType, FS_EmptySet
  <2> QED
    BY <1>1, <2>2, <2>3
<1>3. ASSUME NEW d \in S, NEW e \in S, d.key < e.key
      PROVE  Cardinality(UpTo(S, d)) < Cardinality(UpTo(S, e))
  <2>1. UpTo(S, e) \in SUBSET S
    BY DEF UpTo
  <2>2. UpTo(S, d) \in SUBSET UpTo(S, e) /\ UpTo(S, d) # UpTo(S, e)
    <3>1. d.key \in Nat /\ e.key \in Nat
      BY DEF Entry
    <3>2. e \in UpTo(S, e) /\ e \notin UpTo(S, d)
      BY <3>1, <1>3 DEF UpTo
    <3>3. ASSUME NEW x \in UpTo(S, d) PROVE x \in UpTo(S, e)
      BY <3>1, <1>3 DEF UpTo, Entry
    <3> QED
      BY <3>2, <3>3
  <2>3. IsFiniteSet(UpTo(S, e))
    BY <2>1, FS_Subset
  <2>4. /\ Cardinality(UpTo(S, d)) <= Cardinality(UpTo(S, e))
        /\ Cardinality(UpTo(S, e)) # Cardinality(UpTo(S, d))
    BY <2>2, <2>3, FS_Subset
  <2> QED
    BY <2>4, <1>1, <1>2
<1>4. ASSUME NEW d \in S, NEW e \in S, Cardinality(UpTo(S, d)) < Cardinality(UpTo(S, e))
      PROVE  d.key < e.key
  <2>1. d.key \in Nat /\ e.key \in Nat
    BY DEF Entry
  <2>2. CASE e.key < d.key
    BY <1>1, <1>2, <1>3, <1>4, <2>2
  <2>3. CASE e.key = d.key
    BY <1>1, <1>2, <1>4, <2>3
  <2> QED
    BY <2>1, <2>2, <2>3
<1>5. ASSUME NEW n \in 1..Cardinality(S) PROVE \E e \in S : Cardinality(UpTo(S, e)) = n
  <2> DEFINE f == [e \in S |-> Cardinality(UpTo(S, e))]
             T == 1..Cardinality(S)
  <2>1. IsFiniteSet(T) /\ Cardinality(T) = Cardinality(S)
    BY <1>1, FS_Interval
  <2>2. ASSUME NEW d \in S, NEW e \in S, f[d] = f[e] PROVE d = e
    <3>1. d.key \in Nat /\ e.key \in Nat
      BY DEF Entry
    <3>2. ~(d.key < e.key) /\ ~(e.key < d.key)
      BY <2>2, <1>1, <1>2, <1>3
    <3> QED
      BY <3>1, <3>2
  <2>3. f \in [S -> T]
    BY <1>2
  <2>4. f \in Injection(S, T)
    BY <2>2, <2>3 DEF Injection, IsInjective
  <2>5. f \in Surjection(S, T)
    BY <2>1, <2>4, FS_Injection
  <2> QED
    BY <2>5 DEF Surjection
<1> QED
  BY <1>1, <1>2, <1>3, <1>4, <1>5

(* read_from_partition, where no key is there twice. *)
LEMMA SortedIs ==
  ASSUME NEW entries \in Seq(Entry),
         \A i, j \in 1..Len(entries) : entries[i].key = entries[j].key => i = j
  PROVE  /\ Sorted(entries) \in Seq(Entry) /\ Len(Sorted(entries)) = Len(entries)
         /\ \A n \in 1..Len(entries) : \E i \in 1..Len(entries) : Sorted(entries)[n] = entries[i]
         /\ \A i \in 1..Len(entries) : \E n \in 1..Len(entries) : Sorted(entries)[n] = entries[i]
         /\ \A n, m \in 1..Len(entries) :
              n < m => Sorted(entries)[n].key < Sorted(entries)[m].key
<1> DEFINE L == Len(entries)
           S == {entries[i] : i \in 1..L}
           s == [n \in 1..Cardinality(S) |-> CHOOSE e \in S : Cardinality(UpTo(S, e)) = n]
<1>1. L \in Nat /\ DOMAIN entries = 1..L /\ \A i \in 1..L : entries[i] \in Entry
  OBVIOUS
<1>2. {i \in DOMAIN entries : \A j \in 1..(i - 1) : entries[j].key # entries[i].key} = 1..L
  BY <1>1
<1>3. Sorted(entries) = s
  <2> DEFINE I == {i \in DOMAIN entries : \A j \in 1..(i - 1) : entries[j].key # entries[i].key}
             F == {entries[i] : i \in I}
  <2>1. Sorted(entries) = [n \in 1..Cardinality(F) |-> CHOOSE e \in F : Cardinality(UpTo(F, e)) = n]
    BY DEF Sorted, UpTo
  <2>2. F = S
    BY <1>2
  <2> HIDE DEF F, S
  <2> QED
    BY <2>1, <2>2
<1>4. IsFiniteSet(S) /\ Cardinality(S) = L
  <2> DEFINE f == [i \in 1..L |-> entries[i]]
  <2> HIDE DEF L
  <2>1. IsFiniteSet(1..L) /\ Cardinality(1..L) = L
    <3>1. IsFiniteSet(1..L) /\ Cardinality(1..L) = IF 1 > L THEN 0 ELSE L - 1 + 1
      BY <1>1, FS_Interval
    <3> QED
      BY <3>1, <1>1
  <2>2. f \in Bijection(1..L, S)
    BY <1>1 DEF Bijection, Injection, Surjection, IsInjective
  <2> QED
    BY <2>1, <2>2, FS_Bijection DEF ExistsBijection
<1>5. S \subseteq Entry /\ \A d, e \in S : d.key = e.key => d = e
  BY <1>1
<1> HIDE DEF S, L
<1>6. /\ \A e \in S : Cardinality(UpTo(S, e)) \in 1..L
      /\ \A d, e \in S : d.key < e.key <=> Cardinality(UpTo(S, d)) < Cardinality(UpTo(S, e))
      /\ \A n \in 1..L : \E e \in S : Cardinality(UpTo(S, e)) = n
  BY <1>4, <1>5, Ranks
<1>7. \A n \in 1..L : s[n] \in S /\ Cardinality(UpTo(S, s[n])) = n
  BY <1>4, <1>6
<1>8. s \in Seq(Entry) /\ Len(s) = L
  <2>1. DOMAIN s = 1..L /\ s \in [1..L -> Entry]
    BY <1>4, <1>5, <1>7
  <2> HIDE DEF s
  <2> QED
    BY <2>1, <1>1
<1> HIDE DEF s
<1>9. \A n, m \in 1..L : n < m => s[n].key < s[m].key
  BY <1>6, <1>7
<1>10. ASSUME NEW e \in S PROVE \E n \in 1..L : s[n] = e
  <2> DEFINE n == Cardinality(UpTo(S, e))
  <2>1. n \in 1..L
    BY <1>6
  <2>2. s[n] \in S /\ Cardinality(UpTo(S, s[n])) = n
    BY <1>7, <2>1
  <2>3. ~(s[n].key < e.key) /\ ~(e.key < s[n].key)
    BY <1>1, <1>6, <2>1, <2>2 DEF L
  <2>4. s[n].key \in Nat /\ e.key \in Nat
    BY <1>5, <2>2 DEF Entry
  <2>5. s[n] = e
    BY <1>5, <2>2, <2>3, <2>4
  <2> QED
    BY <2>1, <2>5
<1>11. \A n \in 1..L : \E i \in 1..L : s[n] = entries[i]
  BY <1>7 DEF S
<1>12. \A i \in 1..L : \E n \in 1..L : s[n] = entries[i]
  BY <1>10 DEF S
<1> QED
  BY <1>3, <1>8, <1>9, <1>11, <1>12 DEF L

-----------------------------------------------------------------------------
(* The list of partitions, with one replaced or erased. *)
LEMMA Joined ==
  ASSUME NEW T, NEW a \in Seq(T), NEW b \in Seq(T), NEW r, r = a \o b
  PROVE  /\ r \in Seq(T) /\ Len(r) = Len(a) + Len(b)
         /\ \A j \in 1..Len(a) : r[j] = a[j]
         /\ \A j \in 1..Len(b) : r[Len(a) + j] = b[j]
OBVIOUS

(* The two parts of a list around its element i. *)
LEMMA Parted ==
  ASSUME NEW T, NEW m \in Seq(T), NEW i \in 1..Len(m)
  PROVE  /\ SubSeq(m, 1, i - 1) \in Seq(T) /\ Len(SubSeq(m, 1, i - 1)) = i - 1
         /\ \A j \in 1..(i - 1) : SubSeq(m, 1, i - 1)[j] = m[j]
         /\ SubSeq(m, i + 1, Len(m)) \in Seq(T) /\ Len(SubSeq(m, i + 1, Len(m))) = Len(m) - i
         /\ \A j \in 1..(Len(m) - i) : SubSeq(m, i + 1, Len(m))[j] = m[i + j]
OBVIOUS

Spliced(T, r, m, i, t) ==
  /\ r \in Seq(T) /\ Len(r) = Len(m) + Len(t) - 1
  /\ \A j \in 1..(i - 1) : r[j] = m[j]
  /\ \A j \in 1..Len(t) : r[i - 1 + j] = t[j]
  /\ \A j \in 1..(Len(m) - i) : r[i - 1 + Len(t) + j] = m[i + j]

LEMMA Middle ==
  ASSUME NEW T, NEW t \in Seq(T), NEW m \in Seq(T), NEW i \in 1..Len(m), NEW r,
         r = SubSeq(m, 1, i - 1) \o t \o SubSeq(m, i + 1, Len(m))
  PROVE  Spliced(T, r, m, i, t)
<1>1. PICK a : a = SubSeq(m, 1, i - 1)
  OBVIOUS
<1>2. PICK b : b = SubSeq(m, i + 1, Len(m))
  OBVIOUS
<1>3. PICK c : c = a \o t
  OBVIOUS
<1>4. r = c \o b
  BY <1>1, <1>2, <1>3
<1>5. a \in Seq(T) /\ b \in Seq(T) /\ t \in Seq(T) /\ Len(m) \in Nat /\ Len(t) \in Nat /\ i \in Nat
  BY <1>1, <1>2
<1>6. /\ Len(a) = i - 1 /\ \A j \in 1..(i - 1) : a[j] = m[j]
      /\ Len(b) = Len(m) - i /\ \A j \in 1..(Len(m) - i) : b[j] = m[i + j]
  BY <1>1, <1>2, Parted
<1>7. /\ c \in Seq(T) /\ Len(c) = Len(a) + Len(t)
      /\ \A j \in 1..Len(a) : c[j] = a[j]
      /\ \A j \in 1..Len(t) : c[Len(a) + j] = t[j]
  BY ONLY <1>3, <1>5, Joined
<1>8. /\ r \in Seq(T) /\ Len(r) = Len(c) + Len(b)
      /\ \A j \in 1..Len(c) : r[j] = c[j]
      /\ \A j \in 1..Len(b) : r[Len(c) + j] = b[j]
  <2>1. c \in Seq(T) /\ b \in Seq(T) /\ r = c \o b
    BY <1>4, <1>5, <1>7
  <2> QED
    BY ONLY <2>1, Joined
<1>9. r \in Seq(T) /\ Len(r) = Len(m) + Len(t) - 1
  BY ONLY <1>5, <1>6, <1>7, <1>8
<1>10. ASSUME NEW j \in 1..(i - 1) PROVE r[j] = m[j]
  <2>1. r[j] = c[j] /\ c[j] = a[j] /\ a[j] = m[j]
    BY ONLY <1>5, <1>6, <1>7, <1>8, j \in 1..(i - 1)
  <2> QED
    BY <2>1
<1>11. ASSUME NEW j \in 1..Len(t) PROVE r[i - 1 + j] = t[j]
  <2>1. i - 1 + j \in 1..Len(c)
    BY ONLY <1>5, <1>6, <1>7, j \in 1..Len(t)
  <2>2. r[i - 1 + j] = c[i - 1 + j]
    BY ONLY <2>1, <1>8
  <2>3. c[i - 1 + j] = t[j]
    BY ONLY <1>5, <1>6, <1>7, j \in 1..Len(t)
  <2> QED
    BY <2>2, <2>3
<1>12. ASSUME NEW j \in 1..(Len(m) - i) PROVE r[i - 1 + Len(t) + j] = m[i + j]
  <2>1. Len(c) = i - 1 + Len(t)
    BY ONLY <1>5, <1>6, <1>7
  <2>2. r[Len(c) + j] = b[j] /\ b[j] = m[i + j]
    BY ONLY <1>5, <1>6, <1>8, j \in 1..(Len(m) - i)
  <2> QED
    BY ONLY <2>1, <2>2
<1> QED
  BY ONLY <1>9, <1>10, <1>11, <1>12 DEF Spliced

LEMMA Replaced ==
  ASSUME NEW T, NEW m \in Seq(T), NEW i \in 1..Len(m), NEW t \in Seq(T), Len(t) = 1, NEW r,
         Spliced(T, r, m, i, t)
  PROVE  /\ r \in Seq(T) /\ Len(r) = Len(m) /\ r[i] = t[1]
         /\ \A j \in 1..Len(m) : j # i => r[j] = m[j]
<1>1. Len(t) = 1 /\ Len(m) \in Nat /\ i \in 1..Len(m)
  OBVIOUS
<1>2. /\ r \in Seq(T) /\ Len(r) = Len(m) + Len(t) - 1
      /\ \A j \in 1..(i - 1) : r[j] = m[j]
      /\ \A j \in 1..Len(t) : r[i - 1 + j] = t[j]
      /\ \A j \in 1..(Len(m) - i) : r[i - 1 + Len(t) + j] = m[i + j]
  BY DEF Spliced
<1>3. r[i] = t[1]
  BY ONLY <1>1, <1>2
<1>4. ASSUME NEW j \in 1..Len(m), j # i PROVE r[j] = m[j]
  <2>1. CASE j < i
    BY ONLY <2>1, <1>1, <1>2, j \in 1..Len(m)
  <2>2. CASE j > i
    <3>1. j - i \in 1..(Len(m) - i) /\ i - 1 + Len(t) + (j - i) = j /\ i + (j - i) = j
      BY ONLY <2>2, <1>1, j \in 1..Len(m)
    <3> QED
      BY ONLY <3>1, <1>2
  <2> QED
    BY ONLY <2>1, <2>2, <1>1, <1>4, j \in 1..Len(m)
<1> QED
  BY ONLY <1>1, <1>2, <1>3, <1>4

Shortened(T, r, m, i) ==
  /\ r \in Seq(T) /\ Len(r) = Len(m) - 1
  /\ \A j \in 1..(i - 1) : r[j] = m[j]
  /\ \A j \in i..(Len(m) - 1) : r[j] = m[j + 1]

LEMMA Erased ==
  ASSUME NEW T, NEW m \in Seq(T), NEW i \in 1..Len(m), NEW t \in Seq(T), Len(t) = 0, NEW r,
         Spliced(T, r, m, i, t)
  PROVE  Shortened(T, r, m, i)
<1>1. Len(t) = 0 /\ Len(m) \in Nat /\ i \in 1..Len(m)
  OBVIOUS
<1>2. /\ r \in Seq(T) /\ Len(r) = Len(m) + Len(t) - 1
      /\ \A j \in 1..(i - 1) : r[j] = m[j]
      /\ \A j \in 1..(Len(m) - i) : r[i - 1 + Len(t) + j] = m[i + j]
  BY DEF Spliced
<1>3. ASSUME NEW j \in i..(Len(m) - 1) PROVE r[j] = m[j + 1]
  <2>1. /\ j - i + 1 \in 1..(Len(m) - i) /\ i - 1 + Len(t) + (j - i + 1) = j
        /\ i + (j - i + 1) = j + 1
    BY ONLY <1>1, j \in i..(Len(m) - 1)
  <2> QED
    BY ONLY <2>1, <1>2
<1> QED
  BY ONLY <1>1, <1>2, <1>3 DEF Shortened

-----------------------------------------------------------------------------
(* The inductive invariant.  Well is what the library needs of its input.     *)
Well == Distinct /\ Aligned
DataOK == Size /\ data \in Seq(Entry) /\ \A i \in 1..Len(data) : data[i].val = i

Image == [key : Nat, file : Nat]
Types ==
  /\ temp \in Seq(Entry) /\ index \in Seq(Seq(Entry))
  /\ offset \in Nat /\ left_to_write \in Nat /\ m_partitions \in Seq(Partition)
  /\ cache \in [state : {"none", "empty", "named"}, images : Seq(Image)]
  /\ m_index_images \in Seq(Image)
  /\ query \in [key : Nat, file : Nat, begin : Nat, end : Nat,
                answer : {"none", "missing", "found"}, val : Nat]

(* What is on the disk: ascending images that begin the sorted data, and a    *)
(* cache that lists the first of them.                                        *)
Listed ==
  \A i \in 1..Len(cache.images) :
    index[i] # <<>> /\ cache.images[i] = [key |-> Last(index[i]).key, file |-> i]
OnDisk ==
  /\ cache.state \in {"none", "empty"} => index = <<>>
  /\ Ascending
  /\ Written \subseteq ToSet(data)
  /\ \A a \in Written, b \in ToSet(data) \ Written : a.key <= b.key
  /\ Len(cache.images) <= Len(index) /\ Listed

(* The sorted file: each entry is in the block of its partition, which is     *)
(* ascending.                                                                 *)
Home ==
  \A n \in 1..Len(temp) : \E i \in 1..Len(data) : Block(i) = Block(n) /\ temp[n] = data[i]
Moved == \A i \in 1..Len(temp) : \E n \in 1..Len(temp) : temp[n] = data[i]
Ordered ==
  \A n, m \in 1..Len(temp) : Block(n) = Block(m) /\ n < m => temp[n].key < temp[m].key
Apart ==
  \A i, j \in 1..Len(m_partitions) :
    Block(m_partitions[i].end) = Block(m_partitions[j].end) => i = j
Blocks == Home /\ Moved /\ Ordered /\ Apart

(* While sorting: the partitions cover what has been sorted. *)
Extent(p) ==
  /\ p.offset < p.end /\ p.end <= Len(temp)
  /\ p.offset % partition_size = 0 /\ p.end <= p.offset + partition_size
Sorting ==
  /\ Len(temp) = offset /\ offset <= Len(data)
  /\ offset % partition_size = 0 \/ offset = Len(data)
  /\ \A i \in 1..Len(m_partitions) : Extent(m_partitions[i])
  /\ \A n \in 1..Len(temp) : \E i \in 1..Len(m_partitions) :
       n \in (m_partitions[i].offset + 1)..m_partitions[i].end

(* While merging: what is left of a partition is in its block and above what  *)
(* has been written.                                                          *)
Reading(p) ==
  /\ LookedAt(p) /\ p.end <= Len(temp)
  /\ \A n \in Left(p) : Block(n) = Block(p.end)
Merging ==
  /\ Len(temp) = Len(data)
  /\ \A i \in 1..Len(m_partitions) : Reading(m_partitions[i])
  /\ Written \cup Rest = ToSet(data) /\ Written \cap Rest = {}
  /\ \A a \in Written, b \in Rest : a.key <= b.key

(* The image that is being written. *)
Writing ==
  LET n == Len(index) IN
  /\ n = Len(cache.images) + 1 /\ left_to_write <= partition_size
  /\ index[n] = <<>> => left_to_write = partition_size /\ m_partitions # <<>>
  /\ \E k \in Nat : /\ m_index_images = Append(cache.images, [key |-> k, file |-> n])
                    /\ index[n] # <<>> => k = Last(index[n]).key

(* The images that are searched, and in which queries they serve. *)
Ready ==
  /\ origin = "built" =>
       m_index_images = cache.images /\ Written = ToSet(data) /\ Len(cache.images) = Len(index)
  /\ origin # "built" => m_index_images = ReadIndexImages(cache.images)
Claim(key) ==
  /\ Has(key)
  /\ origin # "built" =>
       /\ cache.images # <<>> /\ key > Head(cache.images).key
       /\ ~(key > Last(cache.images).key /\ CutShort)

(* The interval of a search holds what is asked for. *)
Within ==
  LET file == index[query.file] IN
  /\ query.file \in 1..Len(index)
  /\ query.begin <= query.end /\ query.end <= Len(file)
  /\ \A n \in 1..Len(file) : /\ n <= query.begin => file[n].key < query.key
                             /\ n > query.end => file[n].key > query.key
  /\ Claim(query.key) => \E n \in 1..Len(file) : file[n].key = query.key

Initial == temp = <<>> /\ offset = 0 /\ m_partitions = <<>> /\ m_index_images = <<>>

Phases ==
  /\ pc # "wild"
  /\ pc \in {"off", "name", "sort", "index", "merge"} => origin = "built"
  /\ pc \in {"off", "name"} => Initial
  /\ pc = "name" => cache.state = "empty"
  /\ pc \in {"sort", "index", "merge"} => cache.state = "named"
  /\ pc = "sort" => Blocks /\ Sorting /\ m_index_images = cache.images /\ index = <<>>
  /\ pc \in {"index", "merge"} => Blocks /\ Merging
  /\ pc = "index" => m_index_images = cache.images /\ Len(index) = Len(cache.images)
  /\ pc = "merge" => Writing
  /\ pc \in {"ready", "search", "answer"} => Ready
  /\ pc = "search" => Within /\ query.answer = "none"
  /\ pc = "answer" => Truthful /\ (query.answer = "missing" => ~Claim(query.key))

SortInv == DataOK /\ (Well => Types /\ OnDisk /\ Phases)

-----------------------------------------------------------------------------
(* Written and Rest by position. *)
WrittenTo(idx) == UNION {ToSet(file) : file \in ToSet(idx)}
RestOf(tmp, parts) == UNION {{tmp[n] : n \in Unread(p)} : p \in ToSet(parts)}

LEMMA WrittenIs ==
  ASSUME NEW idx \in Seq(Seq(Entry))
  PROVE  \A x : x \in WrittenTo(idx)
                <=> \E j \in 1..Len(idx) : \E k \in 1..Len(idx[j]) : x = idx[j][k]
<1> SUFFICES ASSUME NEW x
             PROVE  x \in WrittenTo(idx)
                      <=> \E j \in 1..Len(idx) : \E k \in 1..Len(idx[j]) : x = idx[j][k]
  OBVIOUS
<1>1. DOMAIN idx = 1..Len(idx)
  OBVIOUS
<1>2. \A j \in 1..Len(idx) : DOMAIN idx[j] = 1..Len(idx[j])
  OBVIOUS
<1>3. ToSet(idx) = {idx[j] : j \in 1..Len(idx)}
  BY ONLY <1>1 DEF ToSet
<1>4. \A j \in 1..Len(idx) : ToSet(idx[j]) = {idx[j][k] : k \in 1..Len(idx[j])}
  BY ONLY <1>2 DEF ToSet
<1>5. ASSUME NEW j \in 1..Len(idx), NEW k \in 1..Len(idx[j])
      PROVE  idx[j][k] \in WrittenTo(idx)
  BY <1>3, <1>4 DEF WrittenTo
<1>6. ASSUME x \in WrittenTo(idx)
      PROVE  \E j \in 1..Len(idx) : \E k \in 1..Len(idx[j]) : x = idx[j][k]
  <2>1. PICK file \in ToSet(idx) : x \in ToSet(file)
    BY <1>6 DEF WrittenTo
  <2>2. PICK j \in 1..Len(idx) : file = idx[j]
    BY <1>3
  <2> QED
    BY <1>4, <2>1, <2>2
<1> QED
  BY <1>5, <1>6

LEMMA RestIs ==
  ASSUME NEW tmp, NEW parts \in Seq(Partition), \A i \in 1..Len(parts) : LookedAt(parts[i]), NEW x
  PROVE  x \in RestOf(tmp, parts)
           <=> \E i \in 1..Len(parts) : \E n \in Left(parts[i]) : x = tmp[n]
<1>1. DOMAIN parts = 1..Len(parts) /\ \A i \in 1..Len(parts) : parts[i] \in Partition
  OBVIOUS
<1>2. \A i \in 1..Len(parts) : Unread(parts[i]) = Left(parts[i])
  BY <1>1, UnreadLeft
<1> QED
  BY ONLY <1>1, <1>2 DEF ToSet, RestOf

LEMMA NoImages == WrittenTo(<<>>) = {}
BY DEF ToSet, WrittenTo

-----------------------------------------------------------------------------
(* Init, and the steps of the process. *)
LEMMA SortInit == Init => SortInv
<1> SUFFICES ASSUME Init PROVE SortInv
  OBVIOUS
<1>1. Size
  BY Numbers DEF Init, Size
<1>2. data \in Seq(Entry) /\ \A i \in 1..Len(data) : data[i].val = i
  <2>1. PICK n \in 0..MaxEntries : \E keys \in [1..n -> DataKeys] :
          data = [i \in 1..n |-> [key |-> keys[i], val |-> i]]
    BY DEF Init
  <2>2. PICK keys \in [1..n -> DataKeys] : data = [i \in 1..n |-> [key |-> keys[i], val |-> i]]
    BY <2>1
  <2>3. n \in Nat /\ \A i \in 1..n : keys[i] \in Nat
    <3>1. MaxEntries \in Nat /\ \A k \in DataKeys : k \in Nat
      BY DataFileAssumption
    <3>2. \A i \in 1..n : keys[i] \in DataKeys
      OBVIOUS
    <3> QED
      BY <3>1, <3>2
  <2>4. data \in [1..n -> Entry] /\ \A i \in 1..n : data[i].val = i
    BY <2>2, <2>3 DEF Entry
  <2> QED
    BY <2>3, <2>4
<1>3. Types
  BY DEF Init, Types, NoQuery, NoFile
<1>4. OnDisk
  <2>1. Written = {}
    BY NoImages DEF Init, Written, WrittenTo
  <2>2. Ascending
    BY DEF Init, Ascending
  <2> QED
    BY <2>1, <2>2 DEF Init, OnDisk, Listed
<1>5. Phases
  BY DEF Init, Phases, Initial
<1> QED
  BY <1>1, <1>2, <1>3, <1>4, <1>5 DEF SortInv, DataOK

LEMMA SameData ==
  ASSUME SortInv, UNCHANGED <<data, partition_size>>, Well => Types' /\ OnDisk' /\ Phases'
  PROVE  SortInv'
BY DEF SortInv, DataOK, Size, Well, Distinct, Aligned

LEMMA SameDisk ==
  ASSUME OnDisk, UNCHANGED <<data, index, cache>>
  PROVE  OnDisk'
BY DEF OnDisk, Ascending, Written, Listed

LEMMA OpenStep == SortInv /\ Open => SortInv'
<1> SUFFICES ASSUME SortInv, Open, Well PROVE Types' /\ OnDisk' /\ Phases'
  BY SameData DEF Open, disk
<1>1. DataOK /\ Types /\ OnDisk /\ Phases /\ pc = "off"
  BY DEF SortInv, Open
<1>2. origin = "built" /\ Initial /\ UNCHANGED <<data, index, partition_size, temp, offset, m_partitions, left_to_write, query>>
  BY <1>1 DEF Open, Phases, disk, build
<1>3. CASE cache.state = "none" /\ cache' = [cache EXCEPT !.state = "empty"] /\ pc' = "name"
           /\ UNCHANGED <<origin, m_index_images>>
  <2>1. cache'.state = "empty" /\ cache'.images = cache.images
        /\ cache' \in [state : {"none", "empty", "named"}, images : Seq(Image)]
    BY <1>1, <1>3 DEF Types
  <2>2. OnDisk'
    BY <1>1, <1>2, <1>3, <2>1 DEF OnDisk, Ascending, Written, Listed
  <2>3. Phases'
    BY <1>2, <1>3, <2>1 DEF Phases, Initial
  <2> QED
    BY <1>1, <1>2, <1>3, <2>1, <2>2, <2>3 DEF Types
<1>4. CASE pc' = "failed" /\ UNCHANGED <<cache, origin, m_index_images>>
  BY <1>1, <1>2, <1>4, SameDisk DEF Types, Phases
<1>5. CASE m_index_images' = ReadIndexImages(cache.images) /\ origin' = "cache" /\ pc' = "ready"
           /\ UNCHANGED cache
  <2>1. m_index_images' \in Seq(Image)
    <3> DEFINE nothing == [key |-> 0, file |-> NoFile]
    <3>1. nothing \in Image
      BY DEF Image, NoFile
    <3>2. cache.images \in Seq(Image)
      BY <1>1 DEF Types
    <3>3. cache.images # <<>> => Tail(cache.images) \in Seq(Image)
      BY <3>2
    <3> HIDE DEF nothing
    <3>4. <<nothing>> \in Seq(Image)
      BY <3>1
    <3>5. ReadIndexImages(cache.images) = IF cache.images = <<>> THEN <<nothing>>
                                          ELSE <<nothing>> \o Tail(cache.images) \o <<nothing>>
      BY DEF ReadIndexImages, nothing
    <3> QED
      BY <1>5, <3>2, <3>3, <3>4, <3>5
  <2>2. Phases'
    BY <1>5 DEF Phases, Ready
  <2> QED
    BY <1>1, <1>2, <1>5, <2>1, <2>2, SameDisk DEF Types
<1> QED
  BY <1>3, <1>4, <1>5 DEF Open

LEMMA WriteFilenameStep == SortInv /\ WriteFilename => SortInv'
<1> SUFFICES ASSUME SortInv, WriteFilename, Well PROVE Types' /\ OnDisk' /\ Phases'
  BY SameData DEF WriteFilename, disk
<1>1. DataOK /\ Types /\ OnDisk /\ Phases /\ pc = "name"
  BY DEF SortInv, WriteFilename
<1>2. /\ origin = "built" /\ Initial /\ cache.state = "empty" /\ pc' = "sort"
      /\ UNCHANGED <<data, index, partition_size, origin, temp, offset, m_partitions,
                     left_to_write, m_index_images, query>>
  BY <1>1 DEF WriteFilename, Phases, disk, build
<1>3. cache'.state = "named" /\ cache'.images = cache.images
      /\ cache' \in [state : {"none", "empty", "named"}, images : Seq(Image)]
  BY <1>1 DEF WriteFilename, Types
<1>4. index = <<>> /\ cache.images = <<>>
  <2>1. index = <<>>
    BY <1>1, <1>2 DEF OnDisk
  <2>2. Len(cache.images) = 0 /\ cache.images \in Seq(Image)
    BY <1>1, <2>1 DEF OnDisk, Types
  <2> QED
    BY <2>1, <2>2
<1>5. OnDisk'
  BY <1>1, <1>2, <1>3, <1>4 DEF OnDisk, Ascending, Written, Listed
<1>6. Blocks' /\ Sorting'
  <2>1. Len(temp') = 0 /\ Len(m_partitions') = 0 /\ offset' = 0 /\ Len(data') \in Nat
    BY <1>1, <1>2 DEF Initial, DataOK
  <2>2. 0 % partition_size' = 0
    BY <1>1, <1>2 DEF DataOK, Size
  <2> QED
    BY <2>1, <2>2 DEF Blocks, Home, Moved, Ordered, Apart, Sorting
<1>7. Phases'
  BY <1>2, <1>3, <1>4, <1>6 DEF Phases, Initial
<1> QED
  BY <1>1, <1>2, <1>3, <1>5, <1>7 DEF Types

LEMMA ReplyStep == SortInv /\ Reply => SortInv'
<1> SUFFICES ASSUME SortInv, Reply, Well PROVE Types' /\ OnDisk' /\ Phases'
  BY SameData DEF Reply, disk
<1>1. DataOK /\ Types /\ OnDisk /\ Phases /\ pc = "answer" /\ pc' = "ready"
      /\ UNCHANGED <<data, index, partition_size, cache, origin, temp, offset, m_partitions, left_to_write, m_index_images>>
  BY DEF SortInv, Reply, disk, build
<1>2. Types'
  BY <1>1 DEF Types, Reply, NoQuery, NoFile
<1>3. Ready'
  BY <1>1 DEF Phases, Ready, Written
<1> QED
  BY <1>1, <1>2, <1>3, SameDisk DEF Phases

LEMMA ExitStep == SortInv /\ Exit => SortInv'
<1> SUFFICES ASSUME SortInv, Exit, Well PROVE Types' /\ OnDisk' /\ Phases'
  BY SameData DEF Exit, disk
<1>1. DataOK /\ Types /\ OnDisk /\ pc' = "off" /\ origin' = "built"
      /\ UNCHANGED <<data, index, partition_size, cache>>
  BY DEF SortInv, Exit, disk
<1>2. Types'
  BY <1>1 DEF Types, Exit, NoQuery, NoFile
<1>3. Phases'
  BY <1>1 DEF Phases, Initial, Exit
<1> QED
  BY <1>1, <1>2, <1>3, SameDisk

-----------------------------------------------------------------------------
(* One partition is sorted. *)
LEMMA SortPartitionStep == SortInv /\ SortPartition => SortInv'
<1> SUFFICES ASSUME SortInv, SortPartition, Well PROVE Types' /\ OnDisk' /\ Phases'
  BY SameData DEF SortPartition, disk
<1> DEFINE len == Least(partition_size, Len(data) - offset)
           entries == SubSeq(data, offset + 1, offset + len)
           s == Sorted(entries)
           b == offset \div partition_size
           p == [offset |-> offset, end |-> offset + len, start |-> 0, len |-> 0, it |-> 0]
<1>1. DataOK /\ Types /\ OnDisk /\ Phases /\ pc = "sort" /\ offset < Len(data)
      /\ UNCHANGED <<data, index, partition_size, cache, origin, left_to_write, m_index_images, query>>
  BY DEF SortInv, SortPartition, disk
<1>2. /\ Home /\ Moved /\ Ordered /\ Apart /\ Sorting
      /\ m_index_images = cache.images /\ index = <<>> /\ origin = "built" /\ cache.state = "named"
  BY <1>1 DEF Phases, Blocks
<1>3. /\ Size /\ offset \in Nat /\ Len(data) \in Nat /\ data \in Seq(Entry)
      /\ temp \in Seq(Entry) /\ Len(temp) = offset /\ offset % partition_size = 0
  BY <1>1, <1>2 DEF DataOK, Types, Sorting
<1>4. len \in 1..partition_size /\ offset + len <= Len(data)
      /\ (len = partition_size \/ offset + len = Len(data))
  BY <1>1, <1>3 DEF Least, Size
<1>5. \A i \in 0..(len - 1) : Readable(data, offset, len, i)
  <2> HIDE DEF len
  <2>1. Fits(offset, len)
    BY <1>3, <1>4, FitsBlock DEF Well, Size
  <2>2. \A i \in 0..(len - 1) : offset + i < Len(data)
    BY <1>3, <1>4
  <2> QED
    BY <1>3, <1>4, <2>1, <2>2, ReadableFits DEF Size
<1>6. /\ temp' = temp \o s /\ m_partitions' = Append(m_partitions, p)
      /\ offset' = offset + len /\ pc' = "sort"
  BY <1>1, <1>5 DEF SortPartition
<1> HIDE DEF len
<1>7. ASSUME NEW n \in (offset + 1)..(offset + len) PROVE Block(n) = b
  BY <1>3, <1>4, BlockOf DEF Size
<1>8. ASSUME NEW n \in 1..offset PROVE Block(n) # b
  BY <1>3, BlockBelow
<1> HIDE DEF b
<1>9. /\ entries \in Seq(Entry) /\ Len(entries) = len
      /\ \A i \in 1..len : entries[i] = data[offset + i]
  BY <1>3, <1>4 DEF Size
<1> HIDE DEF entries
<1>10. \A i, j \in 1..len : entries[i].key = entries[j].key => i = j
  <2> SUFFICES ASSUME NEW i \in 1..len, NEW j \in 1..len, data[offset + i].key = data[offset + j].key
               PROVE  i = j
    BY <1>9
  <2>1. offset + i \in DOMAIN data /\ offset + j \in DOMAIN data
    BY <1>3, <1>4
  <2>2. Block(offset + i) = Block(offset + j)
    BY <1>3, <1>4, <1>7
  <2>3. offset + i = offset + j
    BY <2>1, <2>2 DEF Well, Distinct, Block
  <2> QED
    BY <2>3, <1>3, <1>4
<1>11. /\ s \in Seq(Entry) /\ Len(s) = len
       /\ \A n \in 1..len : \E i \in 1..len : s[n] = entries[i]
       /\ \A i \in 1..len : \E n \in 1..len : s[n] = entries[i]
       /\ \A n, m \in 1..len : n < m => s[n].key < s[m].key
  BY <1>9, <1>10, SortedIs
<1> HIDE DEF s
<1>12. /\ temp' \in Seq(Entry) /\ Len(temp') = offset + len
       /\ \A n \in 1..offset : temp'[n] = temp[n]
       /\ \A n \in 1..len : temp'[offset + n] = s[n]
  <2>1. temp \in Seq(Entry) /\ s \in Seq(Entry) /\ temp' = temp \o s
    BY <1>3, <1>6, <1>11
  <2>2. /\ temp' \in Seq(Entry) /\ Len(temp') = Len(temp) + Len(s)
        /\ \A n \in 1..Len(temp) : temp'[n] = temp[n]
        /\ \A n \in 1..Len(s) : temp'[Len(temp) + n] = s[n]
    BY ONLY <2>1, Joined
  <2> QED
    BY ONLY <2>2, <1>3, <1>11
<1>13. ASSUME NEW n \in 1..(offset + len)
       PROVE  \/ n \in 1..offset
              \/ /\ n \in (offset + 1)..(offset + len) /\ n - offset \in 1..len
                 /\ temp'[n] = s[n - offset]
  <2>1. n - offset \in 1..len => temp'[offset + (n - offset)] = s[n - offset]
    BY <1>12
  <2> QED
    BY <2>1, <1>3, <1>4
<1>14. \A n : Block(n)' = Block(n)
  BY <1>1 DEF Block
<1>15. Home'
  <2> SUFFICES ASSUME NEW n \in 1..(offset + len)
               PROVE  \E i \in 1..Len(data) : Block(i) = Block(n) /\ temp'[n] = data[i]
    BY <1>1, <1>12, <1>14 DEF Home
  <2>1. CASE n \in 1..offset
    BY <2>1, <1>2, <1>3, <1>12 DEF Home
  <2>2. CASE n \in (offset + 1)..(offset + len) /\ n - offset \in 1..len /\ temp'[n] = s[n - offset]
    <3>1. PICK i \in 1..len : s[n - offset] = data[offset + i]
      BY <2>2, <1>9, <1>11
    <3>2. offset + i \in (offset + 1)..(offset + len) /\ offset + i \in 1..Len(data)
      BY <1>3, <1>4
    <3> QED
      BY <2>2, <3>1, <3>2, <1>7
  <2> QED
    BY <2>1, <2>2, <1>13
<1>16. Moved'
  <2> SUFFICES ASSUME NEW i \in 1..(offset + len)
               PROVE  \E n \in 1..(offset + len) : temp'[n] = data[i]
    BY <1>1, <1>12 DEF Moved
  <2>1. CASE i \in 1..offset
    <3>1. PICK n \in 1..offset : temp[n] = data[i]
      BY <2>1, <1>2, <1>3 DEF Moved
    <3> QED
      BY <3>1, <1>3, <1>4, <1>12
  <2>2. CASE i \in (offset + 1)..(offset + len)
    <3>1. i - offset \in 1..len /\ entries[i - offset] = data[i]
      <4>1. i - offset \in 1..len /\ offset + (i - offset) = i
        BY <2>2, <1>3, <1>4
      <4> QED
        BY <4>1, <1>9
    <3>2. PICK n \in 1..len : s[n] = data[i]
      BY <3>1, <1>11
    <3>3. offset + n \in 1..(offset + len)
      BY <1>3, <1>4
    <3> QED
      BY <3>2, <3>3, <1>12
  <2> QED
    BY <2>1, <2>2, <1>3, <1>4
<1>17. Ordered'
  <2> SUFFICES ASSUME NEW n \in 1..(offset + len), NEW m \in 1..(offset + len), Block(n) = Block(m), n < m
               PROVE  temp'[n].key < temp'[m].key
    BY <1>1, <1>12, <1>14 DEF Ordered
  <2>1. CASE n \in 1..offset /\ m \in 1..offset
    BY <2>1, <1>2, <1>3, <1>12 DEF Ordered
  <2>2. CASE n \in (offset + 1)..(offset + len) /\ m \in (offset + 1)..(offset + len)
    <3>1. n - offset \in 1..len /\ m - offset \in 1..len /\ n - offset < m - offset
      BY <2>2, <1>3, <1>4
    <3>2. temp'[n] = s[n - offset] /\ temp'[m] = s[m - offset]
      BY <2>2, <1>3, <1>13
    <3> QED
      BY <3>1, <3>2, <1>11
  <2> QED
    BY <2>1, <2>2, <1>3, <1>4, <1>7, <1>8
<1>18. /\ m_partitions' \in Seq(Partition) /\ Len(m_partitions') = Len(m_partitions) + 1
       /\ Len(m_partitions) \in Nat
       /\ \A i \in 1..Len(m_partitions) : m_partitions'[i] = m_partitions[i]
       /\ m_partitions'[Len(m_partitions) + 1] = p
  <2>1. p \in Partition
    BY <1>3, <1>4 DEF Partition
  <2>2. m_partitions \in Seq(Partition)
    BY <1>1 DEF Types
  <2> HIDE DEF p
  <2> QED
    BY <2>1, <2>2, <1>6
<1>19. p.end = offset + len /\ p.offset = offset
  OBVIOUS
<1> HIDE DEF p
<1>20. \A i \in 1..Len(m_partitions) : Extent(m_partitions[i]) /\ m_partitions[i].end \in 1..offset
  <2>1. \A i \in 1..Len(m_partitions) : m_partitions[i] \in Partition
    BY <1>1 DEF Types
  <2> QED
    BY <2>1, <1>2, <1>3 DEF Sorting, Extent, Partition
<1>21. Apart'
  <2> SUFFICES ASSUME NEW i \in 1..Len(m_partitions'), NEW j \in 1..Len(m_partitions'),
                      Block(m_partitions'[i].end) = Block(m_partitions'[j].end)
               PROVE  i = j
    BY <1>14 DEF Apart
  <2>1. Block(p.end) = b
    BY <1>3, <1>4, <1>7, <1>19
  <2>2. \A k \in 1..Len(m_partitions) : Block(m_partitions[k].end) # b
    BY <1>8, <1>20
  <2> QED
    BY <2>1, <2>2, <1>2, <1>18 DEF Apart
<1>22. Sorting'
  <2>1. (offset + len) % partition_size = 0 \/ offset + len = Len(data)
    <3>1. partition_size % partition_size = 0
      BY <1>3, Remainder DEF Size
    <3> QED
      BY <3>1, <1>3, <1>4, SumOfMultiples DEF Size
  <2>2. ASSUME NEW i \in 1..Len(m_partitions') PROVE Extent(m_partitions[i])'
    <3>1. CASE i \in 1..Len(m_partitions)
      <4>1. m_partitions'[i] = m_partitions[i] /\ m_partitions[i] \in Partition /\ Extent(m_partitions[i])
        BY <3>1, <1>1, <1>18, <1>20 DEF Types
      <4> QED
        BY <4>1, <1>1, <1>3, <1>4, <1>12 DEF Extent, Partition, Size
    <3>2. CASE i = Len(m_partitions) + 1
      <4>1. m_partitions'[i] = p
        BY <3>2, <1>18
      <4> QED
        BY <4>1, <1>1, <1>3, <1>4, <1>12, <1>19 DEF Extent, Size
    <3> QED
      BY <3>1, <3>2, <1>18
  <2>3. ASSUME NEW n \in 1..(offset + len)
        PROVE  \E i \in 1..Len(m_partitions') : n \in (m_partitions'[i].offset + 1)..m_partitions'[i].end
    <3>1. CASE n \in 1..offset
      <4>1. PICK i \in 1..Len(m_partitions) : n \in (m_partitions[i].offset + 1)..m_partitions[i].end
        BY <3>1, <1>2, <1>3 DEF Sorting
      <4> QED
        BY <4>1, <1>18
    <3>2. CASE n \in (offset + 1)..(offset + len)
      BY <3>2, <1>18, <1>19
    <3> QED
      BY <3>1, <3>2, <1>3, <1>4
  <2> QED
    BY <2>1, <2>2, <2>3, <1>1, <1>4, <1>6, <1>12 DEF Sorting
<1>23. Phases'
  BY <1>1, <1>2, <1>6, <1>15, <1>16, <1>17, <1>21, <1>22 DEF Phases, Blocks
<1>24. Types'
  BY <1>1, <1>3, <1>4, <1>6, <1>12, <1>18 DEF Types
<1> QED
  BY <1>1, <1>23, <1>24, SameDisk

-----------------------------------------------------------------------------
(* The steps around the merge. *)
LEMMA SetWindowsStep == SortInv /\ SetWindows => SortInv'
<1> SUFFICES ASSUME SortInv, SetWindows, Well PROVE Types' /\ OnDisk' /\ Phases'
  BY SameData DEF SetWindows, disk
<1>1. /\ DataOK /\ Types /\ OnDisk /\ Phases /\ pc = "sort" /\ pc' = "index" /\ offset >= Len(data)
      /\ UNCHANGED <<data, index, partition_size, cache, origin, temp, offset, left_to_write,
                     m_index_images, query>>
  BY DEF SortInv, SetWindows, disk
<1>2. /\ Home /\ Moved /\ Ordered /\ Apart /\ Sorting
      /\ m_index_images = cache.images /\ index = <<>> /\ origin = "built" /\ cache.state = "named"
  BY <1>1 DEF Phases, Blocks
<1>3. /\ Size /\ Len(data) \in Nat /\ data \in Seq(Entry) /\ temp \in Seq(Entry)
      /\ m_partitions \in Seq(Partition) /\ cache.images \in Seq(Image)
      /\ Len(temp) = Len(data)
  BY <1>1, <1>2 DEF DataOK, Types, Sorting
<1>4. ASSUME NEW i \in 1..Len(m_partitions)
      PROVE  /\ m_partitions[i] \in Partition /\ Extent(m_partitions[i])
             /\ SetLookupWindow(m_partitions[i]) \in Partition
             /\ SetLookupWindow(m_partitions[i]).end = m_partitions[i].end
             /\ Reading(SetLookupWindow(m_partitions[i]))
             /\ Left(SetLookupWindow(m_partitions[i])) = (m_partitions[i].offset + 1)..m_partitions[i].end
  <2> DEFINE p == m_partitions[i]
             q == SetLookupWindow(p)
  <2>1. p \in Partition /\ Extent(p)
    BY <1>2, <1>3 DEF Sorting
  <2> HIDE DEF p
  <2>2. /\ p.offset \in Nat /\ p.end \in Nat /\ p.offset < p.end /\ p.end <= Len(temp)
        /\ p.offset % partition_size = 0 /\ p.end <= p.offset + partition_size
    BY <2>1 DEF Extent, Partition
  <2>3. Windowed(p)
    BY <2>1, <2>2, <1>3, FirstWindow DEF Well
  <2>4. q \in Partition /\ q.end = p.end /\ LookedAt(q) /\ Left(q) = (p.offset + 1)..p.end
    BY <2>1, <2>2, <2>3, <1>3, NextWindow
  <2> HIDE DEF q
  <2>5. \A n \in Left(q) : Block(n) = p.offset \div partition_size
    <3> SUFFICES ASSUME NEW n \in (p.offset + 1)..p.end PROVE Block(n) = p.offset \div partition_size
      BY <2>4
    <3>1. n \in (p.offset + 1)..(p.offset + partition_size)
      BY <2>2, <1>3 DEF Size
    <3> QED
      BY <3>1, <2>2, <1>3, BlockOf
  <2>6. q.end \in Left(q)
    BY <2>2, <2>4
  <2> QED
    BY <2>1, <2>2, <2>4, <2>5, <2>6 DEF Reading, p, q
<1>5. /\ m_partitions' \in Seq(Partition) /\ Len(m_partitions') = Len(m_partitions)
      /\ \A i \in 1..Len(m_partitions) : m_partitions'[i] = SetLookupWindow(m_partitions[i])
  <2>1. m_partitions' = [i \in 1..Len(m_partitions) |-> SetLookupWindow(m_partitions[i])]
    BY <1>3 DEF SetWindows
  <2>2. m_partitions' \in [1..Len(m_partitions) -> Partition] /\ Len(m_partitions) \in Nat
    BY <2>1, <1>3, <1>4
  <2> QED
    BY <2>1, <2>2
<1>6. Blocks'
  BY <1>1, <1>2, <1>4, <1>5 DEF Blocks, Home, Moved, Ordered, Apart, Block
<1>7. ASSUME NEW i \in 1..Len(m_partitions') PROVE Reading(m_partitions[i])'
  <2>1. Reading(m_partitions'[i])
    BY <1>4, <1>5
  <2> QED
    BY <2>1, <1>1 DEF Reading, LookedAt, Windowed, lookup_window_size, Left, Block
<1>8. Written' = {}
  BY <1>1, <1>2, NoImages DEF Written, WrittenTo
<1>9. ASSUME NEW x PROVE x \in Rest' <=> x \in ToSet(data)
  <2>1. \A i \in 1..Len(m_partitions') : LookedAt(m_partitions'[i])
    BY <1>4, <1>5 DEF Reading
  <2>2. x \in RestOf(temp, m_partitions')
          <=> \E i \in 1..Len(m_partitions') : \E n \in Left(m_partitions'[i]) : x = temp[n]
    BY <1>5, <2>1, RestIs
  <2>3. x \in Rest' <=> \E i \in 1..Len(m_partitions) :
                         \E n \in (m_partitions[i].offset + 1)..m_partitions[i].end : x = temp[n]
    <3>1. Rest' = RestOf(temp, m_partitions')
      BY <1>1 DEF Rest, Unread, RestOf
    <3> QED
      BY <3>1, <2>2, <1>4, <1>5
  <2>4. x \in ToSet(data) <=> \E k \in 1..Len(data) : x = data[k]
    BY <1>3 DEF ToSet
  <2>5. ASSUME NEW i \in 1..Len(m_partitions),
               NEW n \in (m_partitions[i].offset + 1)..m_partitions[i].end
        PROVE  \E k \in 1..Len(data) : temp[n] = data[k]
    <3>1. n \in 1..Len(temp)
      <4>1. m_partitions[i].offset \in Nat /\ m_partitions[i].end \in Nat /\ m_partitions[i].end <= Len(temp)
        BY <1>4 DEF Extent, Partition
      <4> QED
        BY <4>1, <1>3
    <3> QED
      BY <3>1, <1>2 DEF Home
  <2>6. ASSUME NEW k \in 1..Len(data)
        PROVE  \E i \in 1..Len(m_partitions) :
                 \E n \in (m_partitions[i].offset + 1)..m_partitions[i].end : data[k] = temp[n]
    <3>1. PICK n \in 1..Len(temp) : temp[n] = data[k]
      BY <1>2, <1>3 DEF Moved
    <3>2. PICK i \in 1..Len(m_partitions) : n \in (m_partitions[i].offset + 1)..m_partitions[i].end
      BY <1>2 DEF Sorting
    <3> QED
      BY <3>1, <3>2
  <2> QED
    BY <2>3, <2>4, <2>5, <2>6
<1>10. Merging'
  <2>1. Rest' = ToSet(data')
    BY <1>1, <1>9
  <2> QED
    BY <2>1, <1>1, <1>3, <1>7, <1>8 DEF Merging
<1>11. Phases'
  <2>1. Len(index) = 0 /\ Len(cache.images) \in Nat /\ Len(cache.images) <= Len(index)
    BY <1>1, <1>2, <1>3 DEF OnDisk
  <2> QED
    BY <2>1, <1>1, <1>2, <1>6, <1>10 DEF Phases
<1>12. Types'
  BY <1>1, <1>5 DEF Types
<1> QED
  BY <1>1, <1>11, <1>12, SameDisk

LEMMA GenerateIndexStep == SortInv /\ GenerateIndex => SortInv'
<1> SUFFICES ASSUME SortInv, GenerateIndex, Well PROVE Types' /\ OnDisk' /\ Phases'
  BY SameData DEF GenerateIndex
<1> DEFINE n == Len(index) + 1
<1>1. /\ DataOK /\ Types /\ OnDisk /\ Phases /\ pc = "index" /\ pc' = "merge"
      /\ m_partitions # <<>> /\ index' = Append(index, <<>>)
      /\ m_index_images' = Append(m_index_images, [key |-> 0, file |-> n])
      /\ left_to_write' = partition_size
      /\ UNCHANGED <<data, partition_size, cache, origin, temp, offset, m_partitions, query>>
  BY DEF SortInv, GenerateIndex
<1>2. /\ Blocks /\ Merging /\ m_index_images = cache.images /\ Len(index) = Len(cache.images)
      /\ origin = "built" /\ cache.state = "named"
  BY <1>1 DEF Phases
<1>3. index \in Seq(Seq(Entry)) /\ Len(index) \in Nat /\ cache.images \in Seq(Image)
  BY <1>1 DEF Types
<1>4. /\ index' \in Seq(Seq(Entry)) /\ Len(index') = n /\ index'[n] = <<>>
      /\ \A j \in 1..Len(index) : index'[j] = index[j]
  <2>1. <<>> \in Seq(Entry)
    OBVIOUS
  <2> QED
    BY <2>1, <1>1, <1>3
<1> HIDE DEF n
<1>5. Written' = Written
  <2> SUFFICES ASSUME NEW x PROVE x \in Written' <=> x \in Written
    OBVIOUS
  <2>1. x \in Written <=> \E j \in 1..Len(index) : \E k \in 1..Len(index[j]) : x = index[j][k]
    <3>1. Written = WrittenTo(index)
      BY DEF Written, WrittenTo
    <3> QED
      BY <3>1, <1>3, WrittenIs
  <2>2. x \in Written' <=> \E j \in 1..Len(index') : \E k \in 1..Len(index'[j]) : x = index'[j][k]
    <3>1. Written' = WrittenTo(index')
      BY DEF Written, WrittenTo
    <3> QED
      BY <3>1, <1>4, WrittenIs
  <2>3. 1..Len(index'[n]) = {}
    BY <1>4
  <2>4. \A j \in 1..n : j \in 1..Len(index) \/ j = n
    BY <1>3 DEF n
  <2>5. \A j \in 1..Len(index) : j \in 1..n
    BY <1>3 DEF n
  <2> QED
    BY <2>1, <2>2, <2>3, <2>4, <2>5, <1>4
<1>6. Ascending'
  <2> SUFFICES ASSUME NEW i \in 1..n, NEW j \in 1..n, NEW k \in DOMAIN index'[i], NEW l \in DOMAIN index'[j],
                      i < j \/ (i = j /\ k < l)
               PROVE  index'[i][k].key <= index'[j][l].key /\ index'[i][k] # index'[j][l]
    BY <1>4 DEF Ascending
  <2>1. i # n /\ j # n
    BY <1>4
  <2>2. i \in DOMAIN index /\ j \in DOMAIN index /\ index'[i] = index[i] /\ index'[j] = index[j]
    <3>1. DOMAIN index = 1..Len(index) /\ i \in 1..Len(index) /\ j \in 1..Len(index)
      BY <2>1, <1>3 DEF n
    <3> QED
      BY <3>1, <1>4
  <2> QED
    BY <2>2, <1>1 DEF OnDisk, Ascending
<1>7. OnDisk'
  <2>1. Listed'
    BY <1>1, <1>2, <1>3, <1>4 DEF OnDisk, Listed
  <2> QED
    BY <2>1, <1>1, <1>2, <1>3, <1>4, <1>5, <1>6 DEF OnDisk, n
<1>8. Merging' /\ Blocks'
  <2>1. Rest' = Rest
    BY <1>1 DEF Rest, Unread
  <2>2. \A i \in 1..Len(m_partitions) : Reading(m_partitions[i])'
    BY <1>1, <1>2 DEF Merging, Reading, LookedAt, Windowed, lookup_window_size, Left, Block
  <2>3. Blocks'
    BY <1>1, <1>2 DEF Blocks, Home, Moved, Ordered, Apart, Block
  <2> QED
    BY <2>1, <2>2, <2>3, <1>1, <1>2, <1>5 DEF Merging
<1>9. Writing'
  BY <1>1, <1>2, <1>4 DEF Writing, n, DataOK, Size
<1>10. Types'
  <2>1. [key |-> 0, file |-> n] \in Image
    BY <1>3 DEF Image, n
  <2> QED
    BY <2>1, <1>1, <1>2, <1>3, <1>4 DEF Types, DataOK, Size
<1>11. Phases'
  BY <1>1, <1>2, <1>8, <1>9 DEF Phases
<1> QED
  BY <1>7, <1>10, <1>11

LEMMA AppendImageStep == SortInv /\ AppendImage => SortInv'
<1> SUFFICES ASSUME SortInv, AppendImage, Well PROVE Types' /\ OnDisk' /\ Phases'
  BY SameData DEF AppendImage, disk
<1> DEFINE n == Len(index)
<1>1. /\ DataOK /\ Types /\ OnDisk /\ Phases /\ pc = "merge" /\ pc' = "index"
      /\ m_partitions = <<>> \/ left_to_write = 0
      /\ UNCHANGED <<data, index, partition_size, origin, temp, offset, m_partitions, left_to_write,
                     m_index_images, query>>
  BY DEF SortInv, AppendImage, disk, build
<1>2. Blocks /\ Merging /\ Writing /\ origin = "built" /\ cache.state = "named"
  BY <1>1 DEF Phases
<1>3. /\ index \in Seq(Seq(Entry)) /\ n \in Nat /\ cache.images \in Seq(Image)
      /\ cache \in [state : {"none", "empty", "named"}, images : Seq(Image)]
  BY <1>1 DEF Types
<1>4. n = Len(cache.images) + 1 /\ index[n] # <<>>
  BY <1>1, <1>2 DEF Writing, DataOK, Size
<1>5. PICK k \in Nat : /\ m_index_images = Append(cache.images, [key |-> k, file |-> n])
                       /\ k = Last(index[n]).key
  BY <1>2, <1>4 DEF Writing
<1>6. PICK img : img = [key |-> k, file |-> n]
  OBVIOUS
<1>7. img \in Image /\ m_index_images = Append(cache.images, img)
  BY <1>3, <1>5, <1>6 DEF Image
<1>8. Last(m_index_images) = img
  BY <1>3, <1>7 DEF Last
<1>9. /\ cache' \in [state : {"none", "empty", "named"}, images : Seq(Image)]
      /\ cache'.state = cache.state /\ cache'.images = m_index_images
  <2>1. cache' = [cache EXCEPT !.images = Append(@, img)]
    BY <1>8 DEF AppendImage
  <2>2. Append(cache.images, img) \in Seq(Image)
    BY <1>3, <1>7
  <2> QED
    BY <2>1, <2>2, <1>3, <1>7
<1>10. /\ Len(cache'.images) = n /\ cache'.images[n] = img
       /\ \A i \in 1..Len(cache.images) : cache'.images[i] = cache.images[i]
  BY <1>3, <1>4, <1>7, <1>9
<1>11. Listed'
  <2> SUFFICES ASSUME NEW i \in 1..n
               PROVE  index[i] # <<>> /\ cache'.images[i] = [key |-> Last(index[i]).key, file |-> i]
    BY <1>1, <1>10 DEF Listed
  <2>1. CASE i = n
    BY <2>1, <1>4, <1>5, <1>6, <1>10
  <2>2. CASE i \in 1..Len(cache.images)
    BY <2>2, <1>1, <1>10 DEF OnDisk, Listed
  <2> QED
    BY <2>1, <2>2, <1>3, <1>4
<1>12. OnDisk'
  <2>1. Ascending' /\ Written' = Written
    BY <1>1 DEF OnDisk, Ascending, Written
  <2>2. Len(cache'.images) <= Len(index')
    BY <1>1, <1>3, <1>10
  <2> QED
    BY <2>1, <2>2, <1>1, <1>2, <1>9, <1>11 DEF OnDisk
<1>13. Merging' /\ Blocks'
  <2>1. Rest' = Rest /\ Written' = Written
    BY <1>1 DEF Rest, Unread, Written
  <2>2. \A i \in 1..Len(m_partitions) : Reading(m_partitions[i])'
    BY <1>1, <1>2 DEF Merging, Reading, LookedAt, Windowed, lookup_window_size, Left, Block
  <2>3. Blocks'
    BY <1>1, <1>2 DEF Blocks, Home, Moved, Ordered, Apart, Block
  <2> QED
    BY <2>1, <2>2, <2>3, <1>1, <1>2 DEF Merging
<1>14. Phases'
  BY <1>1, <1>2, <1>9, <1>10, <1>13 DEF Phases
<1>15. Types'
  BY <1>1, <1>9 DEF Types
<1> QED
  BY <1>12, <1>14, <1>15

LEMMA BuiltStep == SortInv /\ Built => SortInv'
<1> SUFFICES ASSUME SortInv, Built, Well PROVE Types' /\ OnDisk' /\ Phases'
  BY SameData DEF Built, disk
<1>1. /\ DataOK /\ Types /\ OnDisk /\ Phases /\ pc = "index" /\ pc' = "ready" /\ m_partitions = <<>>
      /\ temp' = <<>>
      /\ UNCHANGED <<data, index, partition_size, cache, origin, offset, m_partitions, left_to_write,
                     m_index_images, query>>
  BY DEF SortInv, Built, disk
<1>2. Merging /\ origin = "built" /\ m_index_images = cache.images /\ Len(index) = Len(cache.images)
  BY <1>1 DEF Phases
<1>3. Rest = {}
  BY <1>1 DEF Rest, ToSet
<1>4. Ready'
  BY <1>1, <1>2, <1>3 DEF Ready, Merging, Written
<1> QED
  BY <1>1, <1>2, <1>4, SameDisk DEF Phases, Types

-----------------------------------------------------------------------------
(* One entry is merged. *)
LEMMA SortedApart ==
  ASSUME DataOK, Home, Ordered, temp \in Seq(Entry),
         NEW n \in 1..Len(temp), NEW m \in 1..Len(temp), temp[n] = temp[m]
  PROVE  n = m
<1>1. PICK i \in 1..Len(data) : Block(i) = Block(n) /\ temp[n] = data[i]
  BY DEF Home
<1>2. PICK j \in 1..Len(data) : Block(j) = Block(m) /\ temp[m] = data[j]
  BY DEF Home
<1>3. data[i].val = i /\ data[j].val = j
  BY DEF DataOK
<1>4. Block(n) = Block(m)
  BY <1>1, <1>2, <1>3
<1>5. temp[n].key \in Nat /\ ~(n < m) /\ ~(m < n)
  <2>1. temp[n] \in Entry /\ temp[n].key = temp[m].key
    OBVIOUS
  <2>2. n < m => temp[n].key < temp[m].key
    BY <1>4 DEF Ordered
  <2>3. m < n => temp[m].key < temp[n].key
    BY <1>4 DEF Ordered
  <2> QED
    BY ONLY <2>1, <2>2, <2>3 DEF Entry
<1>6. Len(temp) \in Nat
  OBVIOUS
<1> QED
  BY <1>5, <1>6

(* What stands at the front of a partition. *)
NextPlace(p) == p.start + p.it + 1

LEMMA NextIs ==
  ASSUME temp \in Seq(Entry), Ordered, NEW p \in Partition, Reading(p)
  PROVE  /\ NextPlace(p) \in Left(p) /\ Left(p) \subseteq 1..Len(temp)
         /\ Readable(temp, p.start, p.len, p.it)
         /\ Current(p) = temp[NextPlace(p)] /\ temp[NextPlace(p)] \in Entry
         /\ \A n \in Left(p) : temp[NextPlace(p)].key <= temp[n].key
<1>1. /\ p.start \in Nat /\ p.it \in Nat /\ p.len \in Nat /\ p.offset \in Nat /\ p.end \in Nat
      /\ p.it < p.len /\ p.start + p.len = p.offset /\ p.offset <= p.end /\ p.end <= Len(temp)
      /\ Fits(p.start, p.len) /\ Len(temp) \in Nat
  BY DEF Reading, LookedAt, Partition
<1>2. NextPlace(p) \in Left(p) /\ Left(p) \subseteq 1..Len(temp)
  BY <1>1 DEF NextPlace, Left
<1>3. Readable(temp, p.start, p.len, p.it)
  <2>1. p.it \in 0..(p.len - 1) /\ p.start + p.it < Len(temp)
    BY <1>1
  <2> QED
    BY <1>1, <2>1, ReadableFits
<1>4. Current(p) = temp[NextPlace(p)] /\ temp[NextPlace(p)] \in Entry
  BY <1>1, <1>2 DEF Current, EntryAt, NextPlace
<1>5. ASSUME NEW n \in Left(p) PROVE temp[NextPlace(p)].key <= temp[n].key
  <2>1. n \in 1..Len(temp) /\ NextPlace(p) \in 1..Len(temp) /\ temp[n] \in Entry
    BY <1>2
  <2>2. Block(n) = Block(NextPlace(p))
    BY <1>2 DEF Reading
  <2>3. n = NextPlace(p) \/ NextPlace(p) < n
    BY <1>1, <2>1 DEF NextPlace, Left
  <2>4. NextPlace(p) < n => temp[NextPlace(p)].key < temp[n].key
    BY <2>1, <2>2 DEF Ordered
  <2> QED
    BY <2>1, <2>3, <2>4, <1>4 DEF Entry
<1> QED
  BY <1>2, <1>3, <1>4, <1>5

(* Entry e is put at the end of image n. *)
Appended(idx, new, n, e) ==
  /\ new \in Seq(Seq(Entry)) /\ Len(new) = Len(idx)
  /\ \A j \in 1..Len(idx) : j # n => new[j] = idx[j]
  /\ Len(new[n]) = Len(idx[n]) + 1 /\ new[n][Len(idx[n]) + 1] = e
  /\ \A k \in 1..Len(idx[n]) : new[n][k] = idx[n][k]
  /\ \A x : x \in WrittenTo(new) <=> x \in WrittenTo(idx) \/ x = e

LEMMA WrittenMore ==
  ASSUME NEW idx \in Seq(Seq(Entry)), NEW n \in 1..Len(idx), NEW e \in Entry, NEW new,
         new = [idx EXCEPT ![n] = Append(@, e)]
  PROVE  Appended(idx, new, n, e)
<1>1. PICK f : f = idx[n]
  OBVIOUS
<1>2. PICK g : g = Append(f, e)
  OBVIOUS
<1>3. f \in Seq(Entry) /\ Len(idx) \in Nat
  BY <1>1
<1>4. /\ g \in Seq(Entry) /\ Len(g) = Len(f) + 1 /\ g[Len(f) + 1] = e
      /\ \A k \in 1..Len(f) : g[k] = f[k]
  BY <1>2, <1>3
<1>5. new = [idx EXCEPT ![n] = g]
  BY <1>1, <1>2
<1>6. /\ new \in Seq(Seq(Entry)) /\ Len(new) = Len(idx) /\ new[n] = g
      /\ \A j \in 1..Len(idx) : j # n => new[j] = idx[j]
  BY <1>3, <1>4, <1>5
<1>7. ASSUME NEW x PROVE x \in WrittenTo(new) <=> x \in WrittenTo(idx) \/ x = e
  <2>1. x \in WrittenTo(idx) <=> \E j \in 1..Len(idx) : \E k \in 1..Len(idx[j]) : x = idx[j][k]
    <3>1. idx \in Seq(Seq(Entry))
      OBVIOUS
    <3> QED
      BY ONLY <3>1, WrittenIs
  <2>2. x \in WrittenTo(new) <=> \E j \in 1..Len(new) : \E k \in 1..Len(new[j]) : x = new[j][k]
    <3>1. new \in Seq(Seq(Entry))
      BY <1>6
    <3>2. \A h \in Seq(Seq(Entry)) : \A y : y \in WrittenTo(h)
             <=> \E j \in 1..Len(h) : \E k \in 1..Len(h[j]) : y = h[j][k]
      BY ONLY WrittenIs
    <3>3. \A y : y \in WrittenTo(new) <=> \E j \in 1..Len(new) : \E k \in 1..Len(new[j]) : y = new[j][k]
      BY ONLY <3>1, <3>2
    <3> QED
      BY ONLY <3>3
  <2>3. (\E k \in 1..Len(g) : x = g[k]) <=> (\E k \in 1..Len(f) : x = f[k]) \/ x = e
    <3>1. Len(f) \in Nat /\ Len(f) + 1 \in 1..Len(g)
      BY <1>3, <1>4
    <3>2. \A k \in 1..Len(g) : k \in 1..Len(f) \/ k = Len(f) + 1
      BY <1>4, <3>1
    <3>3. \A k \in 1..Len(f) : k \in 1..Len(g)
      BY <1>4, <3>1
    <3> QED
      BY ONLY <3>1, <3>2, <3>3, <1>4
  <2> QED
    BY ONLY <2>1, <2>2, <2>3, <1>1, <1>6, n \in 1..Len(idx)
<1> QED
  BY <1>1, <1>4, <1>6, <1>7 DEF Appended

(* The partitions after entry c has been taken from partition i. *)
LEMMA RestLess ==
  ASSUME NEW parts \in Seq(Partition), NEW new \in Seq(Partition), NEW c,
         \A k \in 1..Len(parts) : LookedAt(parts[k]) /\ Left(parts[k]) \subseteq 1..Len(temp),
         \A k \in 1..Len(new) : LookedAt(new[k]),
         \A k \in 1..Len(new) : \E j \in 1..Len(parts) : Left(new[k]) \subseteq Left(parts[j]) \ {c},
         \A j \in 1..Len(parts) : \A n \in Left(parts[j]) : n = c \/ \E k \in 1..Len(new) : n \in Left(new[k]),
         c \in 1..Len(temp),
         \A n, m \in 1..Len(temp) : temp[n] = temp[m] => n = m
  PROVE  \A x : x \in RestOf(temp, new) <=> x \in RestOf(temp, parts) /\ x # temp[c]
<1> SUFFICES ASSUME NEW x PROVE x \in RestOf(temp, new) <=> x \in RestOf(temp, parts) /\ x # temp[c]
  OBVIOUS
<1>1. x \in RestOf(temp, parts) <=> \E k \in 1..Len(parts) : \E n \in Left(parts[k]) : x = temp[n]
  <2>1. parts \in Seq(Partition) /\ \A k \in 1..Len(parts) : LookedAt(parts[k])
    OBVIOUS
  <2> QED
    BY ONLY <2>1, RestIs
<1>2. x \in RestOf(temp, new) <=> \E k \in 1..Len(new) : \E n \in Left(new[k]) : x = temp[n]
  <2>1. new \in Seq(Partition) /\ \A k \in 1..Len(new) : LookedAt(new[k])
    OBVIOUS
  <2> QED
    BY ONLY <2>1, RestIs
<1>3. ASSUME x \in RestOf(temp, new) PROVE x \in RestOf(temp, parts) /\ x # temp[c]
  <2>1. PICK k \in 1..Len(new) : \E n \in Left(new[k]) : x = temp[n]
    BY <1>2, <1>3
  <2>2. PICK n \in Left(new[k]) : x = temp[n]
    BY <2>1
  <2>3. PICK j \in 1..Len(parts) : Left(new[k]) \subseteq Left(parts[j]) \ {c}
    BY <2>1
  <2>4. n \in Left(parts[j]) /\ n # c /\ n \in 1..Len(temp)
    BY <2>2, <2>3
  <2> QED
    BY <1>1, <2>2, <2>4
<1>4. ASSUME x \in RestOf(temp, parts), x # temp[c] PROVE x \in RestOf(temp, new)
  <2>1. PICK j \in 1..Len(parts) : \E n \in Left(parts[j]) : x = temp[n]
    BY <1>1, <1>4
  <2>2. PICK n \in Left(parts[j]) : x = temp[n]
    BY <2>1
  <2>3. PICK k \in 1..Len(new) : n \in Left(new[k])
    BY <1>4, <2>2
  <2> QED
    BY <1>2, <2>2, <2>3
<1> QED
  BY <1>3, <1>4

(* The list of partitions after partition i has moved on: each stands for one *)
(* of before, and none stands for it that was used up.                        *)
Stands(new, s, c) ==
  /\ new \in Seq(Partition)
  /\ s \in [1..Len(new) -> 1..Len(m_partitions)]
  /\ \A k, l \in 1..Len(new) : s[k] = s[l] => k = l
  /\ \A k \in 1..Len(new) :
       /\ new[k].end = m_partitions[s[k]].end /\ LookedAt(new[k])
       /\ Left(new[k]) = Left(m_partitions[s[k]]) \ {c}
  /\ \A j \in 1..Len(m_partitions) :
       Left(m_partitions[j]) \subseteq {c} \/ \E k \in 1..Len(new) : s[k] = j

LEMMA NextLeft ==
  ASSUME NEW p \in Partition, LookedAt(p)
  PROVE  NextPlace(p) \in Left(p)
BY DEF NextPlace, Left, LookedAt, Partition

LEMMA MovedOn ==
  ASSUME Size, Apart, m_partitions \in Seq(Partition),
         \A k \in 1..Len(m_partitions) : Reading(m_partitions[k]),
         NEW i \in 1..Len(m_partitions), NEW new, NEW c, c = NextPlace(m_partitions[i]),
         new = SubSeq(m_partitions, 1, i - 1) \o MoveIterator(m_partitions[i])
                 \o SubSeq(m_partitions, i + 1, Len(m_partitions))
  PROVE  \E s : Stands(new, s, c)
<1> DEFINE m == m_partitions
           L == Len(m_partitions)
<1>1. L \in Nat /\ i \in 1..L /\ \A k \in 1..L : m[k] \in Partition /\ Reading(m[k]) /\ LookedAt(m[k])
  BY DEF Reading
<1>2. ASSUME NEW k \in 1..L, k # i PROVE c \notin Left(m[k])
  <2>1. NextPlace(m[i]) \in Left(m[i])
    BY ONLY <1>1, NextLeft
  <2>2. Block(c) = Block(m[i].end)
    BY <1>1, <2>1 DEF Reading
  <2>3. Block(m[k].end) # Block(m[i].end)
    BY <1>2 DEF Apart
  <2> QED
    BY <1>1, <2>2, <2>3 DEF Reading
<1>3. \/ MoveIterator(m[i]) = <<>> /\ Left(m[i]) = {c}
      \/ \E q \in Partition :
           /\ MoveIterator(m[i]) = <<q>> /\ q.end = m[i].end /\ LookedAt(q)
           /\ Left(q) = Left(m[i]) \ {c}
  <2>1. m[i] \in Partition /\ LookedAt(m[i]) /\ Size
    BY <1>1
  <2>2. \A p \in Partition : LookedAt(p) =>
          \/ MoveIterator(p) = <<>> /\ Left(p) = {p.start + p.it + 1}
          \/ \E q \in Partition :
              /\ MoveIterator(p) = <<q>> /\ q.end = p.end /\ LookedAt(q)
              /\ Left(q) = Left(p) \ {p.start + p.it + 1}
    BY ONLY Size, MovesOn
  <2> HIDE DEF m
  <2> QED
    BY <2>1, <2>2 DEF NextPlace, m
<1> DEFINE t == MoveIterator(m[i])
<1>6. t \in Seq(Partition) => Spliced(Partition, new, m, i, t)
  <2>1. m \in Seq(Partition) /\ i \in 1..Len(m)
        /\ new = SubSeq(m, 1, i - 1) \o t \o SubSeq(m, i + 1, Len(m))
    OBVIOUS
  <2> HIDE DEF m, t
  <2> QED
    BY ONLY <2>1, Middle
<1>4. ASSUME NEW q \in Partition, MoveIterator(m[i]) = <<q>>, q.end = m[i].end, LookedAt(q),
             Left(q) = Left(m[i]) \ {c}
      PROVE  \E s : Stands(new, s, c)
  <2>1. /\ new \in Seq(Partition) /\ Len(new) = L /\ new[i] = q
        /\ \A j \in 1..L : j # i => new[j] = m[j]
    <3>1. /\ m \in Seq(Partition) /\ i \in 1..Len(m) /\ t \in Seq(Partition)
          /\ Len(t) = 1 /\ t[1] = q
      BY ONLY <1>4, m \in Seq(Partition), i \in 1..Len(m)
    <3> HIDE DEF m, t
    <3>2. /\ new \in Seq(Partition) /\ Len(new) = Len(m) /\ new[i] = q
          /\ \A j \in 1..Len(m) : j # i => new[j] = m[j]
      BY ONLY <3>1, <1>6, Replaced
    <3> QED
      BY ONLY <3>2 DEF m
  <2> DEFINE s == [k \in 1..L |-> k]
  <2>2. s \in [1..L -> 1..L] /\ \A k \in 1..L : s[k] = k
    OBVIOUS
  <2> HIDE DEF s
  <2>3. ASSUME NEW k \in 1..L
        PROVE  new[k].end = m[s[k]].end /\ LookedAt(new[k]) /\ Left(new[k]) = Left(m[s[k]]) \ {c}
    <3>1. CASE k = i
      BY ONLY <3>1, <2>1, <2>2, <1>4
    <3>2. CASE k # i
      <4>1. new[k] = m[k] /\ s[k] = k /\ LookedAt(m[k]) /\ c \notin Left(m[k])
        BY <3>2, <2>1, <2>2, <1>1, <1>2
      <4> QED
        BY ONLY <4>1
    <3> QED
      BY ONLY <3>1, <3>2
  <2> HIDE DEF m, L
  <2>4. Len(new) = L /\ new \in Seq(Partition)
    BY <2>1
  <2>5. Stands(new, s, c)
    BY ONLY <2>4, <2>2, <2>3 DEF Stands, m, L
  <2> QED
    BY ONLY <2>5
<1>5. ASSUME MoveIterator(m[i]) = <<>>, Left(m[i]) = {c} PROVE \E s : Stands(new, s, c)
  <2>1. /\ new \in Seq(Partition) /\ Len(new) = L - 1
        /\ \A j \in 1..(i - 1) : new[j] = m[j]
        /\ \A j \in i..(L - 1) : new[j] = m[j + 1]
    <3>1. /\ m \in Seq(Partition) /\ i \in 1..Len(m) /\ t \in Seq(Partition) /\ Len(t) = 0
      BY ONLY <1>5, m \in Seq(Partition), i \in 1..Len(m)
    <3> HIDE DEF m, t
    <3>2. Shortened(Partition, new, m, i)
      <4>1. Spliced(Partition, new, m, i, t)
        BY ONLY <3>1, <1>6
      <4> QED
        BY ONLY <3>1, <4>1, Erased
    <3> QED
      BY ONLY <3>2 DEF Shortened, m
  <2> DEFINE s == [k \in 1..(L - 1) |-> IF k < i THEN k ELSE k + 1]
  <2> HIDE DEF L
  <2>2. /\ s \in [1..(L - 1) -> 1..L]
        /\ \A k \in 1..(L - 1) : s[k] = (IF k < i THEN k ELSE k + 1)
    BY <1>1
  <2> HIDE DEF s, m
  <2>3. ASSUME NEW k \in 1..(L - 1) PROVE s[k] # i /\ s[k] \in 1..L /\ new[k] = m[s[k]]
    <3>1. CASE k < i
      BY ONLY <3>1, <2>1, <2>2, <1>1, k \in 1..(L - 1)
    <3>2. CASE ~(k < i)
      BY ONLY <3>2, <2>1, <2>2, <1>1, k \in 1..(L - 1)
    <3> QED
      BY ONLY <3>1, <3>2
  <2>4. ASSUME NEW k \in 1..(L - 1)
        PROVE  new[k].end = m[s[k]].end /\ LookedAt(new[k]) /\ Left(new[k]) = Left(m[s[k]]) \ {c}
    <3>1. new[k] = m[s[k]] /\ LookedAt(m[s[k]]) /\ c \notin Left(m[s[k]])
      BY <2>3, <1>1, <1>2
    <3> QED
      BY ONLY <3>1
  <2>5. \A k, l \in 1..(L - 1) : s[k] = s[l] => k = l
    BY ONLY <2>2, <1>1
  <2>6. ASSUME NEW j \in 1..L PROVE Left(m[j]) \subseteq {c} \/ \E k \in 1..(L - 1) : s[k] = j
    <3>1. CASE j = i
      BY <3>1, <1>5
    <3>2. CASE j < i
      <4>1. j \in 1..(L - 1)
        BY ONLY <3>2, <1>1, j \in 1..L
      <4> QED
        BY <3>2, <4>1, <2>2
    <3>3. CASE j > i
      <4>1. j - 1 \in 1..(L - 1) /\ ~(j - 1 < i) /\ j - 1 + 1 = j
        BY ONLY <3>3, <1>1, j \in 1..L
      <4> QED
        BY <4>1, <2>2
    <3> QED
      BY ONLY <3>1, <3>2, <3>3, <1>1, j \in 1..L
  <2>7. Len(new) = L - 1 /\ new \in Seq(Partition)
    BY <2>1
  <2>8. Stands(new, s, c)
    BY ONLY <2>7, <2>2, <2>4, <2>5, <2>6 DEF Stands, m, L
  <2> QED
    BY ONLY <2>8
<1> QED
  BY <1>3, <1>4, <1>5

(* What the merge of one entry keeps of the partitions, *)
LEMMA MergedPartitions ==
  ASSUME DataOK, Apart, Home, Ordered, temp \in Seq(Entry), m_partitions \in Seq(Partition),
         \A k \in 1..Len(m_partitions) : Reading(m_partitions[k]),
         UNCHANGED <<temp, partition_size>>,
         NEW c \in 1..Len(temp), NEW s, Stands(m_partitions', s, c)
  PROVE  /\ Apart' /\ m_partitions' \in Seq(Partition)
         /\ \A k \in 1..Len(m_partitions') : Reading(m_partitions[k])'
         /\ \A x : x \in Rest' <=> x \in Rest /\ x # temp[c]
<1>1. PICK new : new = m_partitions'
  OBVIOUS
<1>2. /\ new \in Seq(Partition)
      /\ s \in [1..Len(new) -> 1..Len(m_partitions)]
      /\ \A k, l \in 1..Len(new) : s[k] = s[l] => k = l
      /\ \A k \in 1..Len(new) :
           /\ new[k].end = m_partitions[s[k]].end /\ LookedAt(new[k])
           /\ Left(new[k]) = Left(m_partitions[s[k]]) \ {c}
      /\ \A j \in 1..Len(m_partitions) :
           Left(m_partitions[j]) \subseteq {c} \/ \E k \in 1..Len(new) : s[k] = j
  BY <1>1 DEF Stands
<1>3. \A x : Block(x)' = Block(x)
  BY DEF Block
<1>4. Apart'
  <2> SUFFICES ASSUME NEW i \in 1..Len(new), NEW j \in 1..Len(new), Block(new[i].end) = Block(new[j].end)
               PROVE  i = j
    BY <1>1, <1>3 DEF Apart
  <2>1. Block(m_partitions[s[i]].end) = Block(m_partitions[s[j]].end)
    BY <1>2
  <2>2. s[i] \in 1..Len(m_partitions) /\ s[j] \in 1..Len(m_partitions)
    BY <1>2
  <2>3. s[i] = s[j]
    BY <2>1, <2>2 DEF Apart
  <2> QED
    BY <1>2, <2>3
<1>5. ASSUME NEW k \in 1..Len(new) PROVE Reading(m_partitions[k])'
  <2>1. Reading(m_partitions[s[k]]) /\ new[k].end = m_partitions[s[k]].end
        /\ LookedAt(new[k]) /\ Left(new[k]) = Left(m_partitions[s[k]]) \ {c}
    BY <1>2
  <2>2. Reading(new[k])
    BY <2>1 DEF Reading
  <2> QED
    BY <2>2, <1>1 DEF Reading, LookedAt, Windowed, lookup_window_size, Left, Block
<1>6. \A k \in 1..Len(m_partitions) : m_partitions[k] \in Partition
                                       /\ LookedAt(m_partitions[k]) /\ Left(m_partitions[k]) \subseteq 1..Len(temp)
  <2>1. \A k \in 1..Len(m_partitions) : m_partitions[k] \in Partition
    OBVIOUS
  <2> QED
    BY <2>1, NextIs DEF Reading
<1>7. \A x : x \in RestOf(temp, new) <=> x \in RestOf(temp, m_partitions) /\ x # temp[c]
  <2>1. m_partitions \in Seq(Partition) /\ new \in Seq(Partition) /\ c \in 1..Len(temp)
    BY <1>2
  <2>2. \A k \in 1..Len(new) : LookedAt(new[k])
    BY <1>2
  <2>3. \A k \in 1..Len(new) : \E j \in 1..Len(m_partitions) : Left(new[k]) \subseteq Left(m_partitions[j]) \ {c}
    BY <1>2
  <2>4. ASSUME NEW j \in 1..Len(m_partitions), NEW n \in Left(m_partitions[j]), n # c
        PROVE  \E k \in 1..Len(new) : n \in Left(new[k])
    <3>1. PICK k \in 1..Len(new) : s[k] = j
      BY <1>2, <2>4
    <3> QED
      BY <1>2, <3>1, <2>4
  <2>5. \A n, m \in 1..Len(temp) : temp[n] = temp[m] => n = m
    BY SortedApart
  <2>6. \A k \in 1..Len(m_partitions) : LookedAt(m_partitions[k]) /\ Left(m_partitions[k]) \subseteq 1..Len(temp)
    BY <1>6
  <2>7. \A j \in 1..Len(m_partitions) : \A n \in Left(m_partitions[j]) :
          n = c \/ \E k \in 1..Len(new) : n \in Left(new[k])
    BY <2>4
  <2> QED
    BY ONLY <2>1, <2>2, <2>3, <2>5, <2>6, <2>7, RestLess
<1>8. Rest = RestOf(temp, m_partitions) /\ Rest' = RestOf(temp, new)
  BY <1>1 DEF Rest, RestOf, Unread
<1> QED
  BY <1>1, <1>2, <1>4, <1>5, <1>7, <1>8

(* The last of the images that are listed gets its key. *)
Rekeyed(old, new, n, key) == new = [old EXCEPT ![n].key = key]

LEMMA KeyChanged ==
  ASSUME NEW images \in Seq(Image), NEW img \in Image, NEW key \in Nat, NEW n, n = Len(images) + 1,
         NEW old, old = Append(images, img), NEW new, Rekeyed(old, new, n, key)
  PROVE  new = Append(images, [key |-> key, file |-> img.file])
<1>1. n \in Nat /\ old \in Seq(Image) /\ Len(old) = n /\ old[n] = img /\ n \in 1..Len(old)
      /\ \A j \in 1..Len(images) : old[j] = images[j]
  OBVIOUS
<1>2. PICK im2 : im2 = [key |-> key, file |-> img.file]
  OBVIOUS
<1>3. im2 = [img EXCEPT !.key = key] /\ im2 \in Image
  BY <1>2 DEF Image
<1>4. new = [old EXCEPT ![n] = im2]
  BY <1>1, <1>3 DEF Rekeyed
<1>5. PICK r : r = Append(images, im2)
  OBVIOUS
<1>6. r \in Seq(Image) /\ Len(r) = n /\ r[n] = im2 /\ \A j \in 1..Len(images) : r[j] = images[j]
  BY <1>3, <1>5
<1>7. new \in Seq(Image) /\ Len(new) = n /\ new[n] = im2 /\ \A j \in 1..n : j # n => new[j] = old[j]
  BY ONLY <1>1, <1>3, <1>4
<1>8. \A j \in 1..n : j = n \/ j \in 1..Len(images)
  <2>1. Len(images) \in Nat /\ n = Len(images) + 1
    OBVIOUS
  <2> QED
    BY ONLY <2>1
<1>9. \A j \in 1..n : new[j] = r[j]
  <2> SUFFICES ASSUME NEW j \in 1..n PROVE new[j] = r[j]
    OBVIOUS
  <2>1. CASE j = n
    BY ONLY <2>1, <1>6, <1>7
  <2>2. CASE j # n
    <3>1. new[j] = old[j]
      BY ONLY <2>2, <1>7, j \in 1..n
    <3>2. j \in 1..Len(images)
      BY ONLY <2>2, <1>8, j \in 1..n
    <3> QED
      BY ONLY <3>1, <3>2, <1>1, <1>6
  <2> QED
    BY ONLY <2>1, <2>2
<1>10. new = r
  BY ONLY <1>6, <1>7, <1>9
<1> QED
  BY ONLY <1>2, <1>5, <1>10

(* and of the images. *)
LEMMA MergedImage ==
  ASSUME DataOK, index \in Seq(Seq(Entry)), cache.images \in Seq(Image), OnDisk, Writing, cache.state = "named",
         UNCHANGED <<data, cache>>,
         NEW e \in Entry, e \in ToSet(data), e \notin Written,
         \A a \in Written : a.key <= e.key,
         \A b \in ToSet(data) \ Written : e.key <= b.key,
         index' = [index EXCEPT ![Len(index)] = Append(@, e)],
         m_index_images' = [m_index_images EXCEPT ![Len(index)].key = e.key],
         left_to_write' \in Nat, left_to_write' <= partition_size, UNCHANGED partition_size
  PROVE  /\ index' \in Seq(Seq(Entry)) /\ m_index_images' \in Seq(Image)
         /\ OnDisk' /\ Writing' /\ \A x : x \in Written' <=> x \in Written \/ x = e
<1>0. PICK n : n = Len(index)
  OBVIOUS
<1>14. PICK f : f = Len(index[n])
  OBVIOUS
<1>1. PICK new : new = index'
  OBVIOUS
<1>2. PICK k \in Nat : m_index_images = Append(cache.images, [key |-> k, file |-> n])
  BY <1>0 DEF Writing
<1>3. n = Len(cache.images) + 1 /\ Len(cache.images) \in Nat /\ n \in 1..Len(index) /\ n \in Nat
  BY <1>0 DEF Writing
<1>4. index[n] \in Seq(Entry) /\ f \in Nat
  BY <1>3, <1>14
<1>5. /\ new \in Seq(Seq(Entry)) /\ Len(new) = n
      /\ \A j \in 1..n : j # n => new[j] = index[j]
      /\ Len(new[n]) = f + 1 /\ new[n][f + 1] = e
      /\ \A l \in 1..f : new[n][l] = index[n][l]
      /\ \A x : x \in WrittenTo(new) <=> x \in WrittenTo(index) \/ x = e
  <2>1. index \in Seq(Seq(Entry)) /\ n \in 1..Len(index) /\ e \in Entry /\ new = [index EXCEPT ![n] = Append(@, e)]
    BY <1>0, <1>1, <1>3
  <2>2. Appended(index, new, n, e)
    BY ONLY <2>1, WrittenMore
  <2> QED
    BY ONLY <2>2, <1>0, <1>14 DEF Appended
<1>6. \A x : x \in Written' <=> x \in Written \/ x = e
  BY <1>1, <1>5 DEF Written, WrittenTo
<1>7. \A j \in 1..n : \A l \in 1..Len(index[j]) : index[j][l] \in Written
  <2>1. \A x : x \in Written <=> \E j \in 1..Len(index) : \E l \in 1..Len(index[j]) : x = index[j][l]
    <3>1. Written = WrittenTo(index)
      BY DEF Written, WrittenTo
    <3> QED
      BY <3>1, WrittenIs
  <2> QED
    BY <2>1, <1>0
<1>8. \A j \in 1..n : DOMAIN new[j] = 1..Len(new[j]) /\ DOMAIN index[j] = 1..Len(index[j])
                      /\ Len(index[j]) \in Nat
  <2>1. \A j \in 1..n : new[j] \in Seq(Entry) /\ index[j] \in Seq(Entry)
    BY <1>0, <1>5
  <2> QED
    BY <2>1
<1>9. Ascending'
  <2> SUFFICES ASSUME NEW i \in 1..n, NEW j \in 1..n, NEW p \in 1..Len(new[i]), NEW q \in 1..Len(new[j]),
                      i < j \/ (i = j /\ p < q)
               PROVE  new[i][p].key <= new[j][q].key /\ new[i][p] # new[j][q]
    <3>1. DOMAIN new = 1..n
      BY <1>5
    <3>2. \A i, j \in DOMAIN new : \A p \in DOMAIN new[i], q \in DOMAIN new[j] :
            i < j \/ (i = j /\ p < q) => new[i][p].key <= new[j][q].key /\ new[i][p] # new[j][q]
      BY <1>8, <3>1
    <3> QED
      BY ONLY <1>1, <3>2 DEF Ascending
  <2>1. n \in Nat /\ f \in Nat
    BY <1>3, <1>4
  <2>2. ~(i = n /\ p = f + 1)
    BY <2>1, <1>5
  <2>3. p \in 1..Len(index[i]) /\ new[i][p] = index[i][p]
    <3>1. CASE i = n
      <4>1. p \in 1..(f + 1) /\ p # f + 1
        BY ONLY <3>1, <2>2, <1>5, p \in 1..Len(new[i])
      <4>2. p \in 1..f
        BY ONLY <4>1, <2>1
      <4> QED
        BY ONLY <3>1, <4>2, <1>5, <1>14
    <3>2. CASE i # n
      BY ONLY <3>2, <1>5, i \in 1..n, p \in 1..Len(new[i])
    <3> QED
      BY <3>1, <3>2
  <2>4. CASE j = n /\ q = f + 1
    <3>1. new[j][q] = e /\ index[i][p] \in Written
      BY <2>3, <2>4, <1>5, <1>7
    <3> QED
      BY <2>3, <3>1
  <2>5. CASE ~(j = n /\ q = f + 1)
    <3>1. q \in 1..Len(index[j]) /\ new[j][q] = index[j][q]
      <4>1. CASE j = n
        <5>1. q \in 1..(f + 1) /\ q # f + 1
          BY ONLY <4>1, <2>5, <1>5, q \in 1..Len(new[j])
        <5>2. q \in 1..f
          BY ONLY <5>1, <2>1
        <5> QED
          BY ONLY <4>1, <5>2, <1>5, <1>14
      <4>2. CASE j # n
        BY ONLY <4>2, <1>5, j \in 1..n, q \in 1..Len(new[j])
      <4> QED
        BY ONLY <4>1, <4>2
    <3>2. i \in DOMAIN index /\ j \in DOMAIN index /\ p \in DOMAIN index[i] /\ q \in DOMAIN index[j]
      <4>1. DOMAIN index = 1..n
        BY <1>0
      <4> QED
        BY <4>1, <2>3, <3>1, <1>8
    <3> QED
      BY <2>3, <3>1, <3>2 DEF OnDisk, Ascending
  <2> QED
    BY <2>4, <2>5
<1>10. Listed'
  <2>1. \A i \in 1..Len(cache.images) : i \in 1..n /\ i # n
    BY ONLY <1>3
  <2> QED
    BY <2>1, <1>1, <1>5 DEF OnDisk, Listed
<1>11. OnDisk'
  <2>1. Written' \subseteq ToSet(data)
    BY <1>6 DEF OnDisk
  <2>2. \A a \in Written', b \in ToSet(data) \ Written' : a.key <= b.key
    BY <1>6 DEF OnDisk
  <2>3. Len(cache.images) <= Len(index')
    BY <1>1, <1>3, <1>5
  <2> QED
    BY <2>1, <2>2, <2>3, <1>9, <1>10 DEF OnDisk
<1>12. /\ m_index_images' = Append(cache.images, [key |-> e.key, file |-> n])
       /\ m_index_images' \in Seq(Image)
  <2>1. PICK img : img = [key |-> k, file |-> n]
    OBVIOUS
  <2>2. img \in Image /\ img.file = n /\ e.key \in Nat /\ cache.images \in Seq(Image)
    BY <2>1, <1>3 DEF Image, Entry
  <2>3. PICK old : old = m_index_images
    OBVIOUS
  <2>4. PICK res : res = m_index_images'
    OBVIOUS
  <2>5. old = Append(cache.images, img) /\ Rekeyed(old, res, n, e.key)
    BY <2>1, <2>3, <2>4, <1>0, <1>2 DEF Rekeyed
  <2>6. n = Len(cache.images) + 1
    BY <1>3
  <2>7. res = Append(cache.images, [key |-> e.key, file |-> img.file])
    BY ONLY <2>2, <2>5, <2>6, KeyChanged
  <2>8. [key |-> e.key, file |-> img.file] \in Image
    BY <2>2 DEF Image
  <2>9. res \in Seq(Image)
    BY ONLY <2>2, <2>7, <2>8
  <2> QED
    BY ONLY <2>2, <2>4, <2>7, <2>9
<1>13. Writing'
  <2>1. new[n] # <<>> /\ Last(new[n]).key = e.key /\ e.key \in Nat
    <3>1. new[n] \in Seq(Entry) /\ Len(new[n]) = f + 1 /\ f \in Nat /\ new[n][f + 1] = e
      BY ONLY <1>3, <1>4, <1>5
    <3> QED
      BY <3>1 DEF Last, Entry
  <2>2. Len(index') = n
    BY <1>1, <1>5
  <2> QED
    BY <2>1, <2>2, <1>1, <1>3, <1>12 DEF Writing
<1> QED
  BY <1>1, <1>5, <1>6, <1>11, <1>12, <1>13

LEMMA MergeEntryStep == SortInv /\ MergeEntry => SortInv'
<1> SUFFICES ASSUME SortInv, MergeEntry, Well PROVE Types' /\ OnDisk' /\ Phases'
  BY SameData DEF MergeEntry
<1>1. /\ DataOK /\ Types /\ OnDisk /\ Phases /\ pc = "merge" /\ left_to_write > 0
      /\ UNCHANGED <<data, partition_size, cache, starts, origin, temp, offset, query>>
  BY DEF SortInv, MergeEntry
<1>2. /\ Blocks /\ Home /\ Moved /\ Ordered /\ Apart /\ Merging /\ Writing
      /\ origin = "built" /\ cache.state = "named"
  BY <1>1 DEF Phases, Blocks
<1>3. /\ Size /\ data \in Seq(Entry) /\ temp \in Seq(Entry) /\ index \in Seq(Seq(Entry))
      /\ m_partitions \in Seq(Partition) /\ cache.images \in Seq(Image)
      /\ left_to_write \in Nat
  BY <1>1 DEF DataOK, Types
<1>4. ASSUME NEW k \in 1..Len(m_partitions)
      PROVE  /\ m_partitions[k] \in Partition /\ LookedAt(m_partitions[k]) /\ Reading(m_partitions[k])
             /\ NextPlace(m_partitions[k]) \in Left(m_partitions[k])
             /\ Left(m_partitions[k]) \subseteq 1..Len(temp)
             /\ Readable(temp, m_partitions[k].start, m_partitions[k].len, m_partitions[k].it)
             /\ Current(m_partitions[k]) = temp[NextPlace(m_partitions[k])]
             /\ temp[NextPlace(m_partitions[k])] \in Entry
             /\ \A n \in Left(m_partitions[k]) : temp[NextPlace(m_partitions[k])].key <= temp[n].key
  <2>1. m_partitions[k] \in Partition /\ Reading(m_partitions[k]) /\ LookedAt(m_partitions[k])
    BY <1>2, <1>3 DEF Merging, Reading
  <2>2. temp \in Seq(Entry) /\ Ordered
    BY <1>2, <1>3
  <2> QED
    BY ONLY <2>1, <2>2, NextIs
<1>5. DOMAIN m_partitions = 1..Len(m_partitions)
      /\ ToSet(m_partitions) = {m_partitions[k] : k \in 1..Len(m_partitions)}
  BY <1>3 DEF ToSet
<1>6. PICK i \in 1..Len(m_partitions) :
        /\ IsCurrentMin(i)
        /\ LET e == Current(m_partitions[i])
               n == Len(m_index_images)
           IN  /\ index' = [index EXCEPT ![n] = Append(@, e)]
               /\ m_index_images' = [m_index_images EXCEPT ![n].key = e.key]
        /\ m_partitions' = SubSeq(m_partitions, 1, i - 1)
                             \o MoveIterator(m_partitions[i])
                             \o SubSeq(m_partitions, i + 1, Len(m_partitions))
        /\ left_to_write' = left_to_write - 1
        /\ pc' = pc
  BY <1>4, <1>5 DEF MergeEntry
<1>7. PICK c : c = NextPlace(m_partitions[i])
  OBVIOUS
<1>8. PICK e : e = temp[c]
  OBVIOUS
<1>9. c \in 1..Len(temp) /\ e \in Entry /\ e = Current(m_partitions[i]) /\ c \in Left(m_partitions[i])
  BY <1>4, <1>7, <1>8
<1>10. Rest = RestOf(temp, m_partitions)
  BY DEF Rest, RestOf
<1>11. \A x : x \in Rest <=> \E k \in 1..Len(m_partitions) : \E n \in Left(m_partitions[k]) : x = temp[n]
  <2> SUFFICES ASSUME NEW x
               PROVE  x \in Rest <=> \E k \in 1..Len(m_partitions) : \E n \in Left(m_partitions[k]) : x = temp[n]
    OBVIOUS
  <2>1. m_partitions \in Seq(Partition) /\ \A k \in 1..Len(m_partitions) : LookedAt(m_partitions[k])
    BY <1>3, <1>4
  <2> QED
    BY ONLY <2>1, <1>10, RestIs
<1>12. e \in Rest /\ \A b \in Rest : e.key <= b.key
  <2>1. ASSUME NEW k \in 1..Len(m_partitions), NEW n \in Left(m_partitions[k])
        PROVE  e.key <= temp[n].key
    <3>1. e.key <= Current(m_partitions[k]).key
      <4>1. IsCurrentMin(i) /\ k \in DOMAIN m_partitions
        BY <1>5, <1>6
      <4>2. e.key \in Nat /\ Current(m_partitions[k]).key \in Nat
        BY <1>4, <1>9 DEF Entry
      <4>3. PICK d : d = Current(m_partitions[k])
        OBVIOUS
      <4>4. e.key < d.key \/ (e.key = d.key /\ e.val < d.val) \/ e = d
        BY <4>1, <4>3, <1>9 DEF IsCurrentMin
      <4> QED
        BY ONLY <4>2, <4>3, <4>4
    <3>2. /\ Current(m_partitions[k]).key <= temp[n].key
          /\ Current(m_partitions[k]).key \in Nat /\ temp[n].key \in Nat /\ e.key \in Nat
      <4>1. n \in 1..Len(temp) /\ temp[n] \in Entry
        <5>1. n \in 1..Len(temp)
          BY <1>4
        <5>2. temp \in Seq(Entry)
          BY <1>3
        <5> QED
          BY ONLY <5>1, <5>2
      <4> QED
        BY <4>1, <1>4, <1>9 DEF Entry
    <3> QED
      BY ONLY <3>1, <3>2
  <2> QED
    BY <2>1, <1>8, <1>9, <1>11
<1>13. PICK s : Stands(m_partitions', s, c)
  <2>1. /\ Size /\ Apart /\ m_partitions \in Seq(Partition)
        /\ \A k \in 1..Len(m_partitions) : Reading(m_partitions[k])
        /\ m_partitions' = SubSeq(m_partitions, 1, i - 1)
                             \o MoveIterator(m_partitions[i])
                             \o SubSeq(m_partitions, i + 1, Len(m_partitions))
    BY <1>2, <1>3, <1>4, <1>6
  <2> QED
    BY <2>1, <1>7, MovedOn
<1>14. /\ Apart' /\ m_partitions' \in Seq(Partition)
       /\ \A k \in 1..Len(m_partitions') : Reading(m_partitions[k])'
       /\ \A x : x \in Rest' <=> x \in Rest /\ x # e
  <2>1. /\ DataOK /\ Apart /\ Home /\ Ordered /\ temp \in Seq(Entry) /\ m_partitions \in Seq(Partition)
        /\ \A k \in 1..Len(m_partitions) : Reading(m_partitions[k])
        /\ UNCHANGED <<temp, partition_size>>
        /\ c \in 1..Len(temp) /\ Stands(m_partitions', s, c)
    BY <1>1, <1>2, <1>3, <1>4, <1>9, <1>13
  <2> QED
    BY ONLY <2>1, <1>8, MergedPartitions
<1>15. Written \cup Rest = ToSet(data) /\ Written \cap Rest = {} /\ \A a \in Written, b \in Rest : a.key <= b.key
  BY <1>2 DEF Merging
<1>16. /\ index' \in Seq(Seq(Entry)) /\ m_index_images' \in Seq(Image)
       /\ OnDisk' /\ Writing' /\ \A x : x \in Written' <=> x \in Written \/ x = e
  <2>1. Len(m_index_images) = Len(index)
    BY <1>2, <1>3 DEF Writing
  <2>2. index' = [index EXCEPT ![Len(index)] = Append(@, e)]
        /\ m_index_images' = [m_index_images EXCEPT ![Len(index)].key = e.key]
    BY <1>6, <1>9, <2>1
  <2>3. left_to_write' \in Nat /\ left_to_write' <= partition_size
    <3>1. left_to_write > 0 /\ left_to_write <= partition_size /\ left_to_write' = left_to_write - 1
      BY <1>1, <1>2, <1>6 DEF Writing
    <3> QED
      BY ONLY <3>1, <1>3 DEF Size
  <2>4. /\ DataOK /\ index \in Seq(Seq(Entry)) /\ cache.images \in Seq(Image) /\ OnDisk /\ Writing
        /\ cache.state = "named" /\ UNCHANGED <<data, cache>> /\ UNCHANGED partition_size
        /\ e \in Entry /\ e \in ToSet(data) /\ e \notin Written
        /\ \A a \in Written : a.key <= e.key
        /\ \A b \in ToSet(data) \ Written : e.key <= b.key
    BY <1>1, <1>2, <1>3, <1>9, <1>12, <1>15
  <2> QED
    BY ONLY <2>2, <2>3, <2>4, MergedImage
<1>17. Merging'
  <2>1. Written' \cup Rest' = ToSet(data)
    BY ONLY <1>12, <1>14, <1>15, <1>16
  <2>2. Written' \cap Rest' = {}
    BY ONLY <1>14, <1>15, <1>16
  <2>3. \A a \in Written', b \in Rest' : a.key <= b.key
    BY ONLY <1>12, <1>14, <1>15, <1>16
  <2> QED
    <3>1. Len(temp') = Len(data') /\ data' = data
      <4>1. temp' = temp /\ data' = data
        BY <1>1
      <4>2. Len(temp) = Len(data)
        BY <1>2 DEF Merging
      <4> QED
        BY ONLY <4>1, <4>2
    <3>2. \A k \in 1..Len(m_partitions') : Reading(m_partitions[k])'
      BY <1>14
    <3> QED
      BY ONLY <2>1, <2>2, <2>3, <3>1, <3>2 DEF Merging
<1>18. Blocks'
  BY <1>1, <1>2, <1>14 DEF Blocks, Home, Moved, Ordered, Block
<1>19. Phases'
  BY <1>1, <1>2, <1>6, <1>16, <1>17, <1>18 DEF Phases
<1>20. Types'
  <2>1. left_to_write' \in Nat
    <3>1. left_to_write > 0 /\ left_to_write' = left_to_write - 1
      BY <1>1, <1>6
    <3> QED
      BY ONLY <3>1, <1>3
  <2> QED
    BY ONLY <2>1, <1>1, <1>14, <1>16 DEF Types
<1> QED
  BY <1>16, <1>19, <1>20

-----------------------------------------------------------------------------
(* Searching. *)
LEMMA LeastOf ==
  ASSUME NEW S, S \subseteq Nat, S # {}
  PROVE  \E i \in S : \A j \in S : i <= j
<1>1. PICK i \in S : \A j \in S : ~ (<<j, i>> \in OpToRel(<, Nat))
  BY WFMin, NatLessThanWellFounded
<1>2. ASSUME NEW j \in S PROVE i <= j
  <2>1. ~(j < i)
    BY <1>1 DEF OpToRel
  <2> QED
    BY <2>1
<1> QED
  BY <1>2

(* The entries of the images. *)
LEMMA Entries ==
  ASSUME Types, OnDisk
  PROVE  /\ Len(index) \in Nat /\ Len(cache.images) \in Nat /\ Len(cache.images) <= Len(index)
         /\ \A j \in 1..Len(index) :
              /\ index[j] \in Seq(Entry) /\ Len(index[j]) \in Nat
              /\ \A k \in 1..Len(index[j]) : index[j][k] \in Written /\ index[j][k] \in Entry
         /\ \A e \in Written : \E j \in 1..Len(index) : \E k \in 1..Len(index[j]) : e = index[j][k]
         /\ \A i, j \in 1..Len(index) : \A k \in 1..Len(index[i]), l \in 1..Len(index[j]) :
              i < j \/ (i = j /\ k < l) => index[i][k].key <= index[j][l].key
<1>1. index \in Seq(Seq(Entry)) /\ cache.images \in Seq(Image)
  BY DEF Types
<1>2. \A x : x \in Written <=> \E j \in 1..Len(index) : \E k \in 1..Len(index[j]) : x = index[j][k]
  <2>1. Written = WrittenTo(index)
    BY DEF Written, WrittenTo
  <2> QED
    BY <2>1, <1>1, WrittenIs
<1>3. \A j \in 1..Len(index) : index[j] \in Seq(Entry)
  BY <1>1
<1>4. \A j \in 1..Len(index) : DOMAIN index[j] = 1..Len(index[j]) /\ Len(index[j]) \in Nat
                               /\ \A k \in 1..Len(index[j]) : index[j][k] \in Entry
  BY <1>3
<1>5. DOMAIN index = 1..Len(index) /\ Len(index) \in Nat /\ Len(cache.images) \in Nat
  BY <1>1
<1>6. \A i, j \in 1..Len(index) : \A k \in 1..Len(index[i]), l \in 1..Len(index[j]) :
        i < j \/ (i = j /\ k < l) => index[i][k].key <= index[j][l].key
  BY <1>4, <1>5 DEF OnDisk, Ascending
<1>7. Len(cache.images) <= Len(index)
  BY DEF OnDisk
<1> QED
  BY ONLY <1>2, <1>3, <1>4, <1>5, <1>6, <1>7

(* An image ends at the key it is listed with. *)
LEMMA Listing ==
  ASSUME Types, OnDisk, NEW i \in 1..Len(cache.images)
  PROVE  /\ i \in 1..Len(index) /\ cache.images[i].file = i /\ cache.images[i].key \in Nat
         /\ Len(index[i]) \in 1..Len(index[i])
         /\ index[i][Len(index[i])].key = cache.images[i].key
         /\ \A k \in 1..Len(index[i]) : index[i][k].key <= cache.images[i].key
<1>1. /\ Len(index) \in Nat /\ Len(cache.images) \in Nat /\ Len(cache.images) <= Len(index)
      /\ \A j \in 1..Len(index) :
              /\ index[j] \in Seq(Entry) /\ Len(index[j]) \in Nat
              /\ \A k \in 1..Len(index[j]) : index[j][k] \in Written /\ index[j][k] \in Entry
      /\ \A h, j \in 1..Len(index) : \A k \in 1..Len(index[h]), l \in 1..Len(index[j]) :
              h < j \/ (h = j /\ k < l) => index[h][k].key <= index[j][l].key
  BY Entries
<1>2. i \in 1..Len(index)
  BY ONLY <1>1, i \in 1..Len(cache.images)
<1>3. index[i] # <<>> /\ cache.images[i] = [key |-> Last(index[i]).key, file |-> i]
  BY DEF OnDisk, Listed
<1>4. PICK f : f = index[i]
  OBVIOUS
<1>5. f \in Seq(Entry) /\ f # <<>> /\ Last(f) = f[Len(f)]
  BY <1>1, <1>2, <1>3, <1>4 DEF Last
<1>6. Len(f) \in 1..Len(f)
  BY ONLY <1>5
<1>7. f[Len(f)] \in Entry /\ cache.images[i].key = f[Len(f)].key /\ cache.images[i].file = i
  BY <1>3, <1>4, <1>5, <1>6
<1>8. ASSUME NEW k \in 1..Len(f) PROVE f[k].key <= f[Len(f)].key
  <2>1. k < Len(f) => f[k].key <= f[Len(f)].key
    BY <1>1, <1>2, <1>4, <1>6
  <2>2. k = Len(f) \/ k < Len(f)
    BY <1>5
  <2> QED
    BY <2>1, <2>2, <1>7 DEF Entry
<1> QED
  BY <1>2, <1>4, <1>6, <1>7, <1>8 DEF Entry

LEMMA InImage ==
  ASSUME DataOK, Types, OnDisk, NEW key \in Nat, Has(key), NEW i \in 1..Len(cache.images),
         cache.images[i].key >= key, \A j \in 1..(i - 1) : cache.images[j].key < key
  PROVE  \E n \in 1..Len(index[i]) : index[i][n].key = key
<1>1. PICK e \in ToSet(data) : e.key = key
  BY DEF Has
<1> DEFINE last == Len(index[i])
<1>2. /\ i \in 1..Len(index) /\ cache.images[i].key \in Nat /\ last \in 1..Len(index[i])
      /\ index[i][last].key = cache.images[i].key /\ index[i][last] \in Written
  BY Listing, Entries
<1>3. CASE e \notin Written
  <2>1. index[i][last].key <= key
    BY <1>1, <1>2, <1>3 DEF OnDisk
  <2> QED
    BY <1>2, <2>1
<1>4. ASSUME e \in Written PROVE \E n \in 1..Len(index[i]) : index[i][n].key = key
  <2>1. PICK j \in 1..Len(index) : \E k \in 1..Len(index[j]) : e = index[j][k]
    BY <1>4, Entries
  <2>2. PICK k \in 1..Len(index[j]) : e = index[j][k]
    BY <2>1
  <2>3. CASE j = i
    BY <2>2, <2>3, <1>1
  <2>4. CASE j < i
    <3>1. j \in 1..(i - 1) /\ j \in 1..Len(cache.images) /\ Len(cache.images) \in Nat
      BY <2>4, Entries
    <3>2. index[j][k].key <= cache.images[j].key /\ cache.images[j].key < key /\ cache.images[j].key \in Nat
      BY <3>1, Listing
    <3> QED
      BY <3>2, <2>2, <1>1
  <2>5. CASE j > i
    <3>1. index[i][last].key <= index[j][k].key
      BY <2>5, <1>2, Entries
    <3> QED
      BY <3>1, <1>1, <1>2, <2>2
  <2> QED
    BY <2>3, <2>4, <2>5
<1> QED
  BY <1>3, <1>4

(* The images of m_index_images that have a file are those of the cache. *)
LEMMA Searched ==
  ASSUME Types, OnDisk, Ready
  PROVE  /\ Len(m_index_images) \in Nat /\ DOMAIN m_index_images = 1..Len(m_index_images)
         /\ Len(cache.images) <= Len(m_index_images)
         /\ \A i \in 1..Len(m_index_images) : m_index_images[i].key \in Nat /\ m_index_images[i].file \in Nat
         /\ \A i \in 1..Len(m_index_images) : m_index_images[i].file # NoFile =>
              i \in 1..Len(cache.images) /\ m_index_images[i].file = i
         /\ \A i \in 1..Len(cache.images) : origin = "built" \/ i # 1 =>
              m_index_images[i] = cache.images[i]
<1> DEFINE L == Len(cache.images)
<1>1. /\ cache.images \in Seq(Image) /\ m_index_images \in Seq(Image) /\ L \in Nat
      /\ Len(m_index_images) \in Nat /\ DOMAIN m_index_images = 1..Len(m_index_images)
  BY DEF Types
<1>2. \A i \in 1..Len(m_index_images) : m_index_images[i].key \in Nat /\ m_index_images[i].file \in Nat
  <2>1. \A i \in 1..Len(m_index_images) : m_index_images[i] \in Image
    BY <1>1
  <2> QED
    BY <2>1 DEF Image
<1>3. \A i \in 1..L : cache.images[i].file = i
  BY Listing
<1>4. CASE origin = "built"
  <2>1. m_index_images = cache.images
    BY <1>4 DEF Ready
  <2> QED
    BY <2>1, <1>1, <1>2, <1>3
<1>5. CASE origin # "built" /\ cache.images = <<>>
  <2>1. m_index_images = <<[key |-> 0, file |-> NoFile]>>
    BY <1>5 DEF Ready, ReadIndexImages
  <2>2. Len(m_index_images) = 1 /\ m_index_images[1].file = NoFile /\ L = 0
    BY <2>1, <1>5
  <2>3. \A i \in 1..Len(m_index_images) : i = 1
    BY <2>2
  <2>4. 1..L = {}
    BY <2>2
  <2> QED
    BY ONLY <2>2, <2>3, <2>4, <1>1, <1>2, 0 <= 1
<1>6. CASE origin # "built" /\ cache.images # <<>>
  <2>1. PICK nothing : nothing = [key |-> 0, file |-> NoFile]
    OBVIOUS
  <2>2. nothing \in Image /\ nothing.file = NoFile
    BY <2>1 DEF Image, NoFile
  <2>3. PICK a : a = <<nothing>>
    OBVIOUS
  <2>4. PICK t : t = Tail(cache.images)
    OBVIOUS
  <2>5. a \in Seq(Image) /\ Len(a) = 1 /\ a[1] = nothing
    BY <2>2, <2>3
  <2>6. t \in Seq(Image) /\ Len(t) = L - 1 /\ L >= 1 /\ \A j \in 1..(L - 1) : t[j] = cache.images[j + 1]
    BY <2>4, <1>1, <1>6
  <2>7. m_index_images = (a \o t) \o a
    <3>1. m_index_images = <<nothing>> \o Tail(cache.images) \o <<nothing>>
      BY <1>6, <2>1 DEF Ready, ReadIndexImages
    <3> QED
      BY <3>1, <2>3, <2>4
  <2>8. PICK b : b = a \o t
    OBVIOUS
  <2>9. PICK r : r = b \o a
    OBVIOUS
  <2>10. /\ b \in Seq(Image) /\ Len(b) = Len(a) + Len(t)
         /\ \A j \in 1..Len(a) : b[j] = a[j]
         /\ \A j \in 1..Len(t) : b[Len(a) + j] = t[j]
    <3>1. a \in Seq(Image) /\ t \in Seq(Image) /\ b = a \o t
      BY <2>5, <2>6, <2>8
    <3> QED
      BY ONLY <3>1, Joined
  <2>11. /\ r \in Seq(Image) /\ Len(r) = Len(b) + Len(a)
         /\ \A j \in 1..Len(b) : r[j] = b[j]
         /\ \A j \in 1..Len(a) : r[Len(b) + j] = a[j]
    <3>1. a \in Seq(Image) /\ b \in Seq(Image) /\ r = b \o a
      BY <2>5, <2>9, <2>10
    <3> QED
      BY ONLY <3>1, Joined
  <2>12. Len(r) = L + 1 /\ Len(b) = L
    BY ONLY <1>1, <2>5, <2>6, <2>10, <2>11
  <2>13. r[1] = nothing /\ r[L + 1] = nothing
    BY ONLY <1>1, <2>5, <2>6, <2>10, <2>11, <2>12
  <2>14. ASSUME NEW i \in 1..L, i # 1 PROVE r[i] = cache.images[i]
    <3>1. i - 1 \in 1..(L - 1) /\ 1 + (i - 1) = i /\ i - 1 + 1 = i
      BY ONLY <2>14, <1>1, i \in 1..L
    <3>2. t[i - 1] = cache.images[i] /\ b[i] = t[i - 1] /\ r[i] = b[i]
      BY ONLY <3>1, <2>5, <2>6, <2>10, <2>11, <2>12, i \in 1..L
    <3> QED
      BY ONLY <3>2
  <2>15. r = m_index_images
    BY <2>7, <2>8, <2>9
  <2>16. ASSUME NEW i \in 1..(L + 1), r[i].file # NoFile PROVE i \in 1..L /\ r[i].file = i
    <3>1. i # 1 /\ i # L + 1
      BY <2>2, <2>13, <2>16
    <3>2. i \in 1..L
      BY ONLY <3>1, <1>1, i \in 1..(L + 1)
    <3> QED
      BY <3>1, <3>2, <2>14, <1>3
  <2>17. L <= L + 1
    BY <1>1
  <2> QED
    BY ONLY <1>1, <1>2, <1>6, <2>12, <2>14, <2>15, <2>16, <2>17
<1> QED
  BY <1>4, <1>5, <1>6

(* A key the process can answer for has an image. *)
LEMMA HasImage ==
  ASSUME DataOK, Types, OnDisk, Ready, NEW key \in Nat, Claim(key)
  PROVE  FindIndex(key) # {}
<1> DEFINE S == {i \in 1..Len(m_index_images) : m_index_images[i].key >= key}
<1>1. PICK e \in ToSet(data) : e.key = key
  BY DEF Claim, Has
<1>2. S # {}
  <2>1. CASE origin = "built"
    <3>1. e \in Written /\ Len(cache.images) = Len(index) /\ m_index_images = cache.images
      BY <2>1, <1>1 DEF Ready
    <3>2. PICK j \in 1..Len(index) : \E k \in 1..Len(index[j]) : e = index[j][k]
      BY <3>1, Entries
    <3>3. PICK k \in 1..Len(index[j]) : e = index[j][k]
      BY <3>2
    <3>4. j \in 1..Len(cache.images)
      BY <3>1
    <3>5. key <= cache.images[j].key /\ cache.images[j].key \in Nat
      BY <3>3, <3>4, <1>1, Listing
    <3>6. cache.images[j].key >= key
      BY ONLY <3>5, key \in Nat
    <3> QED
      BY <3>1, <3>4, <3>6
  <2>2. CASE origin # "built"
    <3> DEFINE L == Len(cache.images)
    <3>1. /\ cache.images \in Seq(Image) /\ cache.images # <<>> /\ L \in Nat
          /\ key > Head(cache.images).key
          /\ ~(key > Last(cache.images).key /\ CutShort)
      BY <2>2 DEF Claim, Types
    <3>2. L \in 1..L /\ Last(cache.images) = cache.images[L] /\ Head(cache.images) = cache.images[1]
          /\ cache.images[L].key \in Nat
      BY <3>1, Listing DEF Last
    <3>3. cache.images[L].key >= key
      <4> SUFFICES ASSUME key > cache.images[L].key PROVE FALSE
        BY <3>2
      <4>1. ~CutShort
        BY <3>1, <3>2
      <4>2. PICK i \in 1..L : e \in ToSet(index[cache.images[i].file])
        BY <4>1, <3>1, <1>1 DEF CutShort
      <4>3. cache.images[i].file = i /\ i \in 1..Len(index)
        BY Listing
      <4>4. index[i] \in Seq(Entry)
        BY <4>3, Entries
      <4>5. PICK k \in 1..Len(index[i]) : e = index[i][k]
        BY <4>2, <4>3, <4>4 DEF ToSet
      <4>6. /\ L \in 1..Len(index) /\ Len(index[L]) \in 1..Len(index[L])
            /\ index[L][Len(index[L])].key = cache.images[L].key
        BY <3>2, Listing
      <4>7. CASE i = L
        <5>1. e.key <= cache.images[L].key
          BY <4>5, <4>7, <3>2, Listing
        <5> QED
          BY <5>1, <3>2, <1>1
      <4>8. CASE i < L
        <5>1. e.key <= cache.images[L].key
          BY <4>3, <4>5, <4>6, <4>8, Entries
        <5> QED
          BY <5>1, <3>2, <1>1
      <4> QED
        BY <4>7, <4>8, <3>1
    <3>4. L # 1
      BY <3>1, <3>2, <3>3
    <3>5. m_index_images[L] = cache.images[L] /\ L \in 1..Len(m_index_images)
      <4>1. L <= Len(m_index_images) /\ Len(m_index_images) \in Nat /\ m_index_images[L] = cache.images[L]
        BY <3>2, <3>4, Searched
      <4> QED
        BY ONLY <4>1, <3>2
    <3> QED
      BY <3>3, <3>5
  <2> QED
    BY <2>1, <2>2
<1>3. S \subseteq Nat
  OBVIOUS
<1>4. PICK i \in S : \A j \in S : i <= j
  BY <1>2, <1>3, LeastOf
<1>5. i \in FindIndex(key)
  <2>1. i \in 1..Len(m_index_images) /\ m_index_images[i].key >= key
    BY <1>4
  <2>2. ASSUME NEW j \in 1..(i - 1) PROVE m_index_images[j].key < key
    <3>1. j \in 1..Len(m_index_images) /\ ~(i <= j) /\ Len(m_index_images) \in Nat
      BY ONLY <2>1, j \in 1..(i - 1), Searched, Types, OnDisk, Ready
    <3>2. j \notin S
      BY <1>4, <3>1
    <3>3. m_index_images[j].key \in Nat
      BY <3>1, Searched
    <3> QED
      BY <3>1, <3>2, <3>3
  <2> QED
    BY <2>1, <2>2, Searched DEF FindIndex
<1> QED
  BY <1>5

(* A step of a query. *)
LEMMA SameClaim ==
  ASSUME UNCHANGED <<data, index, partition_size, cache, origin>>, NEW key
  PROVE  Claim(key)' = Claim(key)
BY DEF Claim, Has, CutShort

LEMMA SameReady ==
  ASSUME Ready, UNCHANGED <<data, index, cache, origin, m_index_images>>
  PROVE  Ready'
BY DEF Ready, Written

LEMMA AtStep ==
  ASSUME SortInv, NEW key \in Queries, At(key)
  PROVE  SortInv'
<1> SUFFICES ASSUME Well PROVE Types' /\ OnDisk' /\ Phases'
  BY SameData DEF At, disk
<1>1. /\ DataOK /\ Types /\ OnDisk /\ Phases /\ pc = "ready" /\ Ready /\ key \in Nat
      /\ UNCHANGED <<data, index, partition_size, cache, origin, temp, offset, m_partitions,
                     left_to_write, m_index_images>>
  BY Numbers DEF SortInv, At, disk, build, Phases
<1>2. OnDisk' /\ Ready'
  BY <1>1, SameDisk, SameReady
<1>3. CASE FindIndex(key) = {} /\ query' = [NoQuery EXCEPT !.key = key, !.answer = "missing"] /\ pc' = "answer"
  <2>1. query' = [key |-> key, file |-> 0, begin |-> 0, end |-> 0, answer |-> "missing", val |-> 0]
    BY <1>3 DEF NoQuery, NoFile
  <2>2. Types'
    BY <1>1, <2>1 DEF Types
  <2>3. ~Claim(key)
    BY <1>1, <1>3, HasImage
  <2>4. query'.key = key /\ query'.answer = "missing"
    BY <2>1
  <2>5. ~Claim(query.key)'
    <3>1. Claim(query.key)' = Claim(query')
        \/ Claim(query.key)' = Claim(query'.key)
      BY <1>1 DEF Claim, Has, CutShort
    <3> QED
      BY <1>1, <2>3, <2>4, <3>1 DEF Claim, Has, CutShort
  <2>6. Truthful'
    BY <2>4 DEF Truthful
  <2> QED
    BY <1>2, <1>3, <2>2, <2>5, <2>6 DEF Phases
<1>4. ASSUME NEW i \in FindIndex(key), m_index_images[i].file = NoFile, pc' = "failed", UNCHANGED query
      PROVE  Types' /\ OnDisk' /\ Phases'
  BY <1>1, <1>2, <1>4 DEF Types, Phases
<1>5. ASSUME NEW i \in FindIndex(key), NEW f, f = m_index_images[i].file, f # NoFile, pc' = "search",
             query' = [NoQuery EXCEPT !.key = key, !.file = f, !.end = Len(index[f])]
      PROVE  Types' /\ OnDisk' /\ Phases'
  <2>1. i \in 1..Len(m_index_images) /\ m_index_images[i].key >= key
        /\ \A j \in 1..(i - 1) : m_index_images[j].key < key
    BY <1>1, Searched DEF FindIndex
  <2>2. i \in 1..Len(cache.images) /\ f = i
    BY <1>1, <1>5, <2>1, Searched
  <2>3. PICK len : len = Len(index[i])
    OBVIOUS
  <2>4. len \in Nat /\ i \in 1..Len(index) /\ i \in Nat /\ index[i] \in Seq(Entry)
    BY <1>1, <2>2, <2>3, Listing, Entries
  <2>5. query' = [key |-> key, file |-> i, begin |-> 0, end |-> len, answer |-> "none", val |-> 0]
    BY <1>5, <2>2, <2>3 DEF NoQuery, NoFile
  <2>6. Types'
    BY ONLY <1>1, <2>4, <2>5 DEF Types
  <2>7. ASSUME Claim(key) PROVE \E n \in 1..len : index[i][n].key = key
    <3>1. Has(key) /\ (origin # "built" => key > Head(cache.images).key /\ cache.images # <<>>)
      BY <2>7 DEF Claim
    <3>2. i # 1 => cache.images[i] = m_index_images[i]
      BY <1>1, <2>2, Searched
    <3>3. origin = "built" => \A j \in 1..Len(cache.images) : cache.images[j] = m_index_images[j]
      BY <1>1, Searched
    <3>4. \A j \in 1..(i - 1) : j \in 1..Len(cache.images)
      <4>1. Len(cache.images) \in Nat
        BY <1>1, Entries
      <4> QED
        BY ONLY <4>1, <2>2
    <3>5. CASE origin = "built"
      <4>1. cache.images[i].key >= key /\ \A j \in 1..(i - 1) : cache.images[j].key < key
        BY <2>1, <2>2, <3>3, <3>4, <3>5
      <4> QED
        BY <4>1, <1>1, <2>2, <2>3, <3>1, InImage
    <3>6. CASE origin # "built"
      <4>1. m_index_images[1].file = NoFile
        <5>1. CASE cache.images = <<>>
          BY <3>1, <3>6, <5>1
        <5>2. CASE cache.images # <<>>
          <6>1. m_index_images = <<[key |-> 0, file |-> NoFile]>> \o Tail(cache.images)
                                   \o <<[key |-> 0, file |-> NoFile]>>
            BY <1>1, <3>6, <5>2 DEF Ready, ReadIndexImages
          <6>2. Tail(cache.images) \in Seq(Image)
            BY <1>1, <5>2 DEF Types
          <6> QED
            BY ONLY <6>1, <6>2
        <5> QED
          BY <5>1, <5>2
      <4>2. i # 1
        BY <4>1, <1>5
      <4>3. Head(cache.images) = cache.images[1]
        BY <1>1, <3>1, <3>6 DEF Types
      <4>4. cache.images[i].key >= key
        BY <4>2, <3>2, <2>1
      <4>5. ASSUME NEW j \in 1..(i - 1) PROVE cache.images[j].key < key
        <5>1. j \in 1..Len(cache.images) /\ cache.images[j].key \in Nat
          BY <1>1, <3>4, Listing
        <5>2. CASE j = 1
          BY <5>1, <5>2, <4>3, <3>1, <3>6, <1>1
        <5>3. CASE j # 1
          <6>1. m_index_images[j] = cache.images[j]
            BY <1>1, <5>1, <5>3, Searched
          <6> QED
            BY <6>1, <2>1
        <5> QED
          BY <5>2, <5>3
      <4> QED
        BY <4>4, <4>5, <1>1, <2>2, <2>3, <3>1, InImage
    <3> QED
      BY <3>5, <3>6
  <2>8. /\ query'.key = key /\ query'.file = i /\ query'.begin = 0 /\ query'.end = len
        /\ query'.answer = "none"
    BY <2>5
  <2>9. Within'
    <3>1. Claim(query.key)' => Claim(key)
      BY <1>1, <2>8 DEF Claim, Has, CutShort
    <3>2. index' = index
      BY <1>1
    <3>3. \A n \in 1..len : ~(n <= 0) /\ ~(n > len)
      BY <2>4
    <3>4. 0 <= len /\ len <= len
      BY <2>4
    <3> QED
      BY ONLY <2>3, <2>4, <2>7, <2>8, <3>1, <3>2, <3>3, <3>4 DEF Within
  <2> QED
    BY <1>2, <1>5, <2>6, <2>8, <2>9 DEF Phases
<1> QED
  BY <1>3, <1>4, <1>5 DEF At

LEMMA Halves ==
  ASSUME NEW n \in Nat, n # 0
  PROVE  n \div 2 \in 0..(n - 1)
OBVIOUS

LEMMA BinarySearchStep == SortInv /\ BinarySearch => SortInv'
<1> SUFFICES ASSUME SortInv, BinarySearch, Well PROVE Types' /\ OnDisk' /\ Phases'
  BY SameData DEF BinarySearch, disk
<1>1. /\ DataOK /\ Types /\ OnDisk /\ Phases /\ pc = "search" /\ Ready /\ Within /\ query.answer = "none"
      /\ UNCHANGED <<data, index, partition_size, cache, origin, temp, offset, m_partitions,
                     left_to_write, m_index_images>>
  BY DEF SortInv, BinarySearch, disk, build, Phases
<1>2. OnDisk' /\ Ready'
  BY <1>1, SameDisk, SameReady
<1>3. PICK b : b = query.begin
  OBVIOUS
<1>4. PICK d : d = query.end
  OBVIOUS
<1>5. PICK key : key = query.key
  OBVIOUS
<1>6. PICK file : file = index[query.file]
  OBVIOUS
<1>7. /\ query \in [key : Nat, file : Nat, begin : Nat, end : Nat,
                    answer : {"none", "missing", "found"}, val : Nat]
      /\ b \in Nat /\ d \in Nat /\ key \in Nat /\ query.file \in Nat
  BY <1>1, <1>3, <1>4, <1>5 DEF Types
<1>8. /\ query.file \in 1..Len(index) /\ b <= d /\ d <= Len(file)
      /\ \A n \in 1..Len(file) : (n <= b => file[n].key < key) /\ (n > d => file[n].key > key)
      /\ Claim(key) => \E n \in 1..Len(file) : file[n].key = key
  BY <1>1, <1>3, <1>4, <1>5, <1>6 DEF Within
<1>9. /\ file \in Seq(Entry) /\ Len(file) \in Nat
      /\ \A n \in 1..Len(file) : file[n] \in Entry /\ file[n] \in ToSet(data)
      /\ \A n, m \in 1..Len(file) : n < m => file[n].key <= file[m].key
  BY <1>1, <1>6, <1>8, Entries DEF OnDisk
<1>10. ASSUME b = d, query' = [query EXCEPT !.answer = "missing"], pc' = "answer"
       PROVE  Types' /\ OnDisk' /\ Phases'
  <2>1. Types'
    BY <1>1, <1>10 DEF Types
  <2>2. query'.key = key /\ query'.answer = "missing"
    BY <1>5, <1>7, <1>10
  <2>3. ~Claim(key)
    <3> SUFFICES ASSUME NEW n \in 1..Len(file), file[n].key = key PROVE FALSE
      BY <1>8
    <3>1. (n <= b => file[n].key < key) /\ (n > d => file[n].key > key)
      BY <1>8
    <3> QED
      BY ONLY <3>1, <1>7, <1>10, file[n].key = key, n \in 1..Len(file), <1>9
  <2>4. ~Claim(query.key)'
    BY <1>1, <2>2, <2>3 DEF Claim, Has, CutShort
  <2>5. Truthful'
    BY <2>2 DEF Truthful
  <2> QED
    BY <1>2, <1>10, <2>1, <2>4, <2>5 DEF Phases
<1> DEFINE mid == b + (d - b) \div 2
<1>11. b # d => mid \in b..(d - 1)
  <2> SUFFICES ASSUME b # d PROVE mid \in b..(d - 1)
    OBVIOUS
  <2>1. d - b \in Nat /\ d - b # 0
    BY ONLY <1>7, <1>8, b # d
  <2>2. (d - b) \div 2 \in 0..(d - b - 1)
    BY ONLY <2>1, Halves
  <2> QED
    BY ONLY <2>2, <1>7
<1>12. PICK e : e = EntryAt(index[query.file], mid)
  OBVIOUS
<1>13. ASSUME b # d
       PROVE  /\ mid \in Nat /\ mid >= b /\ mid < d /\ mid + 1 \in 1..Len(file) /\ e = file[mid + 1]
              /\ e \in Entry /\ e \in ToSet(data) /\ e.key \in Nat
  <2> HIDE DEF mid
  <2>1. mid \in Nat /\ mid >= b /\ mid < d /\ mid < Len(file) /\ mid + 1 \in 1..Len(file)
    BY ONLY <1>7, <1>8, <1>9, <1>11, <1>13
  <2>2. e = file[mid + 1]
    BY ONLY <2>1, <1>6, <1>12 DEF EntryAt
  <2> QED
    BY <2>1, <2>2, <1>9 DEF Entry
<1>14. b = query.begin /\ d = query.end /\ key = query.key
  BY <1>3, <1>4, <1>5
<1>15. \/ b = d /\ query' = [query EXCEPT !.answer = "missing"] /\ pc' = "answer"
       \/ b # d /\ key < e.key /\ query' = [query EXCEPT !.end = mid] /\ pc' = pc
       \/ b # d /\ key > e.key /\ query' = [query EXCEPT !.begin = mid] /\ pc' = pc
       \/ /\ b # d /\ key = e.key /\ pc' = "answer"
          /\ query' = [query EXCEPT !.answer = "found", !.val = e.val]
  BY <1>12, <1>14 DEF BinarySearch
<1> HIDE DEF mid
<1>16. ASSUME b # d, key < e.key, query' = [query EXCEPT !.end = mid], pc' = pc
       PROVE  Types' /\ OnDisk' /\ Phases'
  <2>1. /\ mid \in Nat /\ mid >= b /\ mid < d /\ mid + 1 \in 1..Len(file) /\ e = file[mid + 1]
        /\ e \in Entry /\ e.key \in Nat
    BY <1>13, <1>16
  <2>2. Types'
    BY <1>1, <1>16, <2>1 DEF Types
  <2>3. /\ query'.key = key /\ query'.file = query.file /\ query'.begin = b /\ query'.end = mid
        /\ query'.answer = "none"
    BY ONLY <1>1, <1>7, <1>14, <1>16
  <2>4. ASSUME NEW n \in 1..Len(file), n > mid PROVE file[n].key > key
    <3>1. n = mid + 1 \/ mid + 1 < n
      BY ONLY <2>1, <2>4, <1>9, n \in 1..Len(file)
    <3>2. e.key <= file[n].key /\ file[n].key \in Nat
      BY <3>1, <2>1, <1>9 DEF Entry
    <3> QED
      BY ONLY <3>2, <2>1, <1>7, <1>16
  <2>5. Within'
    <3>1. Claim(query.key)' => Claim(key)
      BY <1>1, <2>3 DEF Claim, Has, CutShort
    <3>2. index' = index
      BY <1>1
    <3>3. mid <= Len(file)
      BY ONLY <2>1, <1>7, <1>8, <1>9
    <3> QED
      BY ONLY <1>6, <1>8, <2>1, <2>3, <2>4, <3>1, <3>2, <3>3 DEF Within
  <2> QED
    BY <1>1, <1>2, <1>16, <2>2, <2>3, <2>5 DEF Phases
<1>17. ASSUME b # d, key > e.key, query' = [query EXCEPT !.begin = mid], pc' = pc
       PROVE  Types' /\ OnDisk' /\ Phases'
  <2>1. /\ mid \in Nat /\ mid >= b /\ mid < d /\ mid + 1 \in 1..Len(file) /\ e = file[mid + 1]
        /\ e \in Entry /\ e.key \in Nat
    BY <1>13, <1>17
  <2>2. Types'
    BY <1>1, <1>17, <2>1 DEF Types
  <2>3. /\ query'.key = key /\ query'.file = query.file /\ query'.begin = mid /\ query'.end = d
        /\ query'.answer = "none"
    BY ONLY <1>1, <1>7, <1>14, <1>17
  <2>4. ASSUME NEW n \in 1..Len(file), n <= mid PROVE file[n].key < key
    <3>1. n < mid + 1
      BY ONLY <2>1, <2>4, <1>9, n \in 1..Len(file)
    <3>2. file[n].key <= e.key /\ file[n].key \in Nat
      BY <3>1, <2>1, <1>9 DEF Entry
    <3> QED
      BY ONLY <3>2, <2>1, <1>7, <1>17
  <2>5. Within'
    <3>1. Claim(query.key)' => Claim(key)
      BY <1>1, <2>3 DEF Claim, Has, CutShort
    <3>2. index' = index
      BY <1>1
    <3>3. mid <= d
      BY ONLY <2>1, <1>7
    <3> QED
      BY ONLY <1>6, <1>8, <2>1, <2>3, <2>4, <3>1, <3>2, <3>3 DEF Within
  <2> QED
    BY <1>1, <1>2, <1>17, <2>2, <2>3, <2>5 DEF Phases
<1>18. ASSUME b # d, key = e.key, pc' = "answer", query' = [query EXCEPT !.answer = "found", !.val = e.val]
       PROVE  Types' /\ OnDisk' /\ Phases'
  <2>1. e \in Entry /\ e \in ToSet(data)
    BY <1>13, <1>18
  <2>2. Types'
    BY <1>1, <1>18, <2>1 DEF Types, Entry
  <2>3. query'.key = e.key /\ query'.val = e.val /\ query'.answer = "found"
    BY ONLY <1>7, <1>14, <1>18
  <2>4. [key |-> e.key, val |-> e.val] = e
    BY <2>1 DEF Entry
  <2>5. Truthful'
    BY <1>1, <2>1, <2>3, <2>4 DEF Truthful
  <2> QED
    BY <1>2, <1>18, <2>2, <2>3, <2>5 DEF Phases
<1> QED
  BY ONLY <1>10, <1>15, <1>16, <1>17, <1>18

(* Every step keeps the invariant. *)
LEMMA SortKept == SortInv /\ [Next]_vars => SortInv'
<1> SUFFICES ASSUME SortInv, [Next]_vars PROVE SortInv'
  OBVIOUS
<1>1. CASE Build
  BY <1>1, WriteFilenameStep, SortPartitionStep, SetWindowsStep, GenerateIndexStep,
     MergeEntryStep, AppendImageStep, BuiltStep DEF Build
<1>2. CASE \E key \in Queries : At(key)
  BY <1>2, AtStep
<1>3. CASE UNCHANGED vars
  <2>1. UNCHANGED <<data, cache, index, partition_size, pc, origin, temp, offset, m_partitions,
                    m_index_images, left_to_write, query>>
    BY <1>3 DEF vars, disk, build
  <2> SUFFICES ASSUME Well PROVE Types' /\ OnDisk' /\ Phases'
    BY <2>1, SameData
  <2>2. Types /\ OnDisk /\ Phases
    BY DEF SortInv
  <2>3. Types'
    BY <2>1, <2>2 DEF Types
  <2>4. OnDisk'
    BY <2>1, <2>2, SameDisk
  <2>5. (Initial => Initial') /\ (Ready => Ready') /\ (Truthful => Truthful') /\ (Writing => Writing')
    BY <2>1, SameReady DEF Initial, Truthful, Writing
  <2>6. Blocks => Blocks'
    BY <2>1 DEF Blocks, Home, Moved, Ordered, Apart, Block
  <2>7. Sorting => Sorting'
    BY <2>1 DEF Sorting, Extent
  <2>8. Merging => Merging'
    <3>1. Rest' = Rest /\ Written' = Written
      BY <2>1 DEF Rest, Unread, Written
    <3>2. Merging => \A i \in 1..Len(m_partitions') : Reading(m_partitions[i])'
      BY <2>1 DEF Merging, Reading, LookedAt, Windowed, lookup_window_size, Left, Block
    <3> QED
      BY <2>1, <3>1, <3>2 DEF Merging
  <2>9. Claim(query.key)' = Claim(query.key)
    BY <2>1 DEF Claim, Has, CutShort
  <2>10. Within => Within'
    BY <2>1, <2>9 DEF Within
  <2> QED
    BY ONLY <2>1, <2>2, <2>3, <2>4, <2>5, <2>6, <2>7, <2>8, <2>9, <2>10 DEF Phases
<1> QED
  BY <1>1, <1>2, <1>3, OpenStep, BinarySearchStep, ReplyStep, ExitStep DEF Next

(* The invariant: what is on the disk always begins the sorted data, and     *)
(* every phase of the build and of a query has what it relies on.            *)
THEOREM SortInvariant == Spec => []SortInv
<1>1. Init => SortInv
  BY SortInit
<1>2. SortInv /\ [Next]_vars => SortInv'
  BY SortKept
<1> QED
  BY <1>1, <1>2, PTL DEF Spec

(* Sorting and merging read no entry outside the mapping they read through,  *)
(* whatever the sizes of page, window and partition.                         *)
THEOREM NothingWild == Spec => []NoWildRead
<1>1. SortInv => NoWildRead
  BY DEF SortInv, Well, Phases, NoWildRead
<1> QED
  BY <1>1, SortInvariant, PTL

(* The merge neither loses nor repeats an entry, writes them in order, and   *)
(* lists every image with its last key.                                      *)
THEOREM Merges == Spec => []MergeSorts
<1>1. SortInv => MergeSorts
  <2> SUFFICES ASSUME SortInv, Distinct, Aligned, pc \in {"index", "merge"}
               PROVE  /\ Written \cup Rest = ToSet(data)
                      /\ Written \cap Rest = {}
                      /\ Ascending
                      /\ \A a \in Written, b \in Rest : a.key <= b.key
                      /\ \A img \in ToSet(m_index_images) :
                           index[img.file] # <<>> => img.key = Last(index[img.file]).key
    BY DEF MergeSorts
  <2>1. Types /\ OnDisk /\ Phases /\ Merging
    BY DEF SortInv, Well, Phases
  <2>2. cache.images \in Seq(Image) /\ Len(cache.images) \in Nat
    BY <2>1 DEF Types
  <2>3. ASSUME NEW i \in 1..Len(cache.images)
        PROVE  cache.images[i].file = i /\ cache.images[i].key = Last(index[i]).key
    <3>1. Listed
      BY <2>1 DEF OnDisk
    <3>2. cache.images[i] = [key |-> Last(index[i]).key, file |-> i]
      BY <3>1 DEF Listed
    <3> QED
      BY ONLY <3>2
  <2>4. ASSUME NEW img \in ToSet(m_index_images), index[img.file] # <<>>
        PROVE  img.key = Last(index[img.file]).key
    <3>1. CASE pc = "index"
      <4>1. PICK i \in 1..Len(cache.images) : img = cache.images[i]
        BY <3>1, <2>1, <2>2 DEF Phases, ToSet
      <4> QED
        BY <4>1, <2>3
    <3>2. CASE pc = "merge"
      <4>1. Len(index) = Len(cache.images) + 1
        BY <3>2, <2>1 DEF Phases, Writing
      <4>2. PICK k \in Nat : /\ m_index_images = Append(cache.images, [key |-> k, file |-> Len(index)])
                             /\ index[Len(index)] # <<>> => k = Last(index[Len(index)]).key
        BY <3>2, <2>1 DEF Phases, Writing
      <4>3. PICK last : last = [key |-> k, file |-> Len(index)]
        OBVIOUS
      <4>4. last \in Image
        BY <4>1, <4>3, <2>2 DEF Image
      <4>5. m_index_images = Append(cache.images, last)
        BY <4>2, <4>3
      <4>6. img = last \/ \E i \in 1..Len(cache.images) : img = cache.images[i]
        BY <4>4, <4>5, <2>2 DEF ToSet
      <4> QED
        BY <4>2, <4>3, <4>6, <2>3, <2>4
    <3> QED
      BY <3>1, <3>2
  <2> QED
    BY <2>1, <2>4 DEF Merging, OnDisk
<1> QED
  BY <1>1, SortInvariant, PTL

(* A process that built the images answers every query from the data.        *)
THEOREM Answers == Spec => []AnswersRight
<1>1. SortInv => AnswersRight
  BY DEF SortInv, Well, Phases, Claim, AnswersRight
<1> QED
  BY <1>1, SortInvariant, PTL

(* One that took them from the cache gives no wrong value, and misses a key  *)
(* only in the first image or where the build was cut short.                 *)
THEOREM CachedAnswers == Spec => []AnswersFromCache
<1>1. SortInv => AnswersFromCache
  <2> SUFFICES ASSUME SortInv, Distinct, Aligned, pc = "answer", origin = "cache"
               PROVE  /\ Truthful
                      /\ query.answer = "missing" /\ Has(query.key)
                           => \/ cache.images = <<>>
                              \/ query.key <= Head(cache.images).key
                              \/ query.key > Last(cache.images).key /\ CutShort
    BY DEF AnswersFromCache
  <2>1. Types /\ OnDisk /\ Phases
    BY DEF SortInv, Well
  <2>2. Truthful /\ (query.answer = "missing" => ~Claim(query.key)) /\ query.key \in Nat
    BY <2>1 DEF Phases, Types
  <2>3. cache.images # <<>> => Head(cache.images).key \in Nat
    <3> SUFFICES ASSUME cache.images # <<>> PROVE Head(cache.images) \in Image
      BY DEF Image
    <3> QED
      BY <2>1 DEF Types
  <2>4. origin # "built"
    OBVIOUS
  <2> QED
    BY <2>2, <2>3, <2>4 DEF Claim
<1> QED
  BY <1>1, SortInvariant, PTL

(* A round of a search that goes on leaves a smaller interval. *)
Narrows ==
  BinarySearch /\ Distinct /\ Aligned /\ pc' = "search" /\ ~HasNeighbourBelow
    => query'.end - query'.begin < query.end - query.begin

LEMMA Narrowing == SortInv => Narrows
<1> SUFFICES ASSUME SortInv, BinarySearch, Well, pc' = "search", ~HasNeighbourBelow
             PROVE  query'.end - query'.begin < query.end - query.begin
  BY DEF Narrows, Well
<1>1. Types /\ OnDisk /\ Phases /\ pc = "search" /\ Within
  BY DEF SortInv, BinarySearch, Phases
<1>2. PICK b : b = query.begin
  OBVIOUS
<1>3. PICK d : d = query.end
  OBVIOUS
<1>4. PICK key : key = query.key
  OBVIOUS
<1>5. PICK file : file = index[query.file]
  OBVIOUS
<1>6. /\ query \in [key : Nat, file : Nat, begin : Nat, end : Nat,
                    answer : {"none", "missing", "found"}, val : Nat]
      /\ b \in Nat /\ d \in Nat /\ key \in Nat
  BY <1>1, <1>2, <1>3, <1>4 DEF Types
<1>7. /\ query.file \in 1..Len(index) /\ b <= d /\ d <= Len(file)
      /\ \A n \in 1..Len(file) : (n <= b => file[n].key < key) /\ (n > d => file[n].key > key)
  BY <1>1, <1>2, <1>3, <1>4, <1>5 DEF Within
<1>8. /\ file \in Seq(Entry) /\ Len(file) \in Nat
      /\ \A n \in 1..Len(file) : file[n] \in Entry
  BY <1>1, <1>5, <1>7, Entries
<1> DEFINE mid == b + (d - b) \div 2
<1>9. PICK e : e = EntryAt(index[query.file], mid)
  OBVIOUS
<1>10. \/ b # d /\ key < e.key /\ query' = [query EXCEPT !.end = mid]
       \/ b # d /\ key > e.key /\ query' = [query EXCEPT !.begin = mid]
  BY <1>2, <1>3, <1>4, <1>9 DEF BinarySearch
<1>11. (d - b) \div 2 \in 0..(d - b - 1) /\ d - b \in Nat
  <2>1. d - b \in Nat /\ d - b # 0
    <3>1. b # d
      BY <1>10
    <3> QED
      BY ONLY <3>1, <1>6, <1>7
  <2> QED
    BY ONLY <2>1, Halves
<1>12. mid \in Nat /\ mid >= b /\ mid < d /\ mid < Len(file) /\ mid + 1 \in 1..Len(file)
  BY ONLY <1>6, <1>7, <1>8, <1>11
<1>13. e = file[mid + 1] /\ e.key \in Nat
  <2> HIDE DEF mid
  <2>1. e = file[mid + 1]
    BY ONLY <1>5, <1>9, <1>12 DEF EntryAt
  <2> QED
    BY <2>1, <1>8, <1>12 DEF Entry
<1> HIDE DEF mid
<1>14. CASE key < e.key /\ query' = [query EXCEPT !.end = mid]
  <2>1. query'.end = mid /\ query'.begin = b
    BY ONLY <1>2, <1>6, <1>14
  <2> QED
    BY ONLY <2>1, <1>2, <1>3, <1>6, <1>12
<1>15. CASE key > e.key /\ query' = [query EXCEPT !.begin = mid]
  <2>1. query'.end = d /\ query'.begin = mid
    BY ONLY <1>3, <1>6, <1>15
  <2>2. mid # b
    <3> SUFFICES ASSUME mid = b PROVE FALSE
      OBVIOUS
    <3>1. d = b + 1
      <4>1. (d - b) \div 2 = 0
        BY ONLY mid = b, <1>6, <1>11 DEF mid
      <4>2. d - b < 2
        BY ONLY <4>1, <1>11
      <4> QED
        BY ONLY <4>2, <1>6, <1>7, <1>10
    <3>2. ToSet(file) = {file[n] : n \in 1..Len(file)}
      BY <1>8 DEF ToSet
    <3>3. ASSUME NEW n \in 1..Len(file) PROVE file[n].key # key
      <4>1. CASE n <= b
        <5>1. file[n].key < key
          BY ONLY <4>1, <1>7, n \in 1..Len(file)
        <5>2. file[n].key \in Nat
          BY ONLY <1>8, n \in 1..Len(file) DEF Entry
        <5> QED
          BY ONLY <5>1, <5>2, <1>6
      <4>2. CASE n > d
        <5>1. file[n].key > key
          BY ONLY <4>2, <1>7, n \in 1..Len(file)
        <5>2. file[n].key \in Nat
          BY ONLY <1>8, n \in 1..Len(file) DEF Entry
        <5> QED
          BY ONLY <5>1, <5>2, <1>6
      <4>3. CASE n = b + 1
        <5>1. file[n] = e /\ key > e.key
          BY ONLY <4>3, <1>13, <1>15, mid = b
        <5> QED
          BY ONLY <5>1, <1>6, <1>13
      <4> QED
        <5>1. n \in Nat /\ (n <= b \/ n = b + 1 \/ n > d)
          BY ONLY <3>1, <1>6, <1>8, n \in 1..Len(file)
        <5> QED
          BY ONLY <4>1, <4>2, <4>3, <5>1
    <3>4. e \in ToSet(file) /\ e.key < key
      BY ONLY <3>2, <1>6, <1>12, <1>13, <1>15
    <3>5. HasNeighbourBelow
      BY <3>2, <3>3, <3>4, <1>4, <1>5 DEF HasNeighbourBelow
    <3> QED
      BY <3>5
  <2> QED
    BY ONLY <2>1, <2>2, <1>2, <1>3, <1>6, <1>12
<1> QED
  BY ONLY <1>10, <1>14, <1>15

(* Each round of binary_search leaves a smaller interval, unless the key is   *)
(* missing and its neighbour below it is in the image: why a search for any   *)
(* other key ends, whatever the size of the image.                            *)
THEOREM SearchNarrows == Spec => [][Narrows]_vars
<1>1. SortInv /\ [Next]_vars => [Narrows]_vars
  BY Narrowing
<1> QED
  BY <1>1, SortInvariant, PTL DEF Spec
=============================================================================
