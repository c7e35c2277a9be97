---------------------------- MODULE FramingProofs ----------------------------
(***************************************************************************)
(* For messages, sockets, thresholds and allocations of any size: on a       *)
(* connection no byte is lost, added or reordered, and the indexes of its    *)
(* three buffers stay in order. First what each operation of CBuffer does to *)
(* the readable bytes, then what encoding and writing do to bytes joined end *)
(* to end, then one lemma per operation of the two ends of a connection.     *)
(***************************************************************************)
EXTENDS Framing, SequenceTheorems, TLAPS

-----------------------------------------------------------------------------
(* CBuffer: growing, moving and compacting keep the readable bytes, Write
   appends, SkipBytes removes from the front, and the indexes stay in order. *)

\* A part of a sequence: its type, its length and its elements.
LEMMA PartOf ==
  ASSUME NEW B, NEW s \in Seq(B), NEW m \in Nat \ {0}, NEW n \in Nat, n <= Len(s)
  PROVE  /\ SubSeq(s, m, n) \in Seq(B)
         /\ Len(SubSeq(s, m, n)) = IF m <= n THEN n - m + 1 ELSE 0
         /\ \A i \in 1 .. n - m + 1 : SubSeq(s, m, n)[i] = s[m + i - 1]
<1>1. m \in Int /\ n \in Int /\ Len(s) \in Nat
  BY LenProperties
<1>2. \A i \in m .. n : i \in 1 .. Len(s)
  BY <1>1
<1>3. \A i \in m .. n : s[i] \in B
  BY Zenon, <1>2, ElementOfSeq
<1> QED
  BY <1>1, <1>3, SubSeqProperties

\* Concatenation, as an operator whose laws are all the proofs need of it.
Cat(x, y) == x \o y

LEMMA CatAssoc ==
  \A B : \A x, y, z \in Seq(B) : Cat(Cat(x, y), z) = Cat(x, Cat(y, z))
BY Zenon, ConcatAssociative DEF Cat

\* A sequence is its beginning followed by the rest.
LEMMA CutInTwo ==
  ASSUME NEW B, NEW s \in Seq(B), NEW k \in 0 .. Len(s)
  PROVE  /\ SubSeq(s, 1, k) \in Seq(B) /\ SubSeq(s, k + 1, Len(s)) \in Seq(B)
         /\ Len(SubSeq(s, 1, k)) = k /\ Len(SubSeq(s, k + 1, Len(s))) = Len(s) - k
         /\ SubSeq(s, 1, k) \o SubSeq(s, k + 1, Len(s)) = s
<1>1. Len(s) \in Nat
  BY Zenon, LenProperties
<1>2. /\ SubSeq(s, 1, k) \in Seq(B) /\ SubSeq(s, k + 1, Len(s)) \in Seq(B)
      /\ Len(SubSeq(s, 1, k)) = k /\ Len(SubSeq(s, k + 1, Len(s))) = Len(s) - k
  BY <1>1, PartOf
<1>3. 1 \in 1 .. Len(s) + 1 /\ k \in 1 - 1 .. Len(s) /\ Len(s) \in k .. Len(s)
  BY <1>1
<1>4. SubSeq(s, 1, k) \o SubSeq(s, k + 1, Len(s)) = SubSeq(s, 1, Len(s))
  BY <1>3, ConcatAdjacentSubSeq, Zenon
<1> QED
  BY Zenon, <1>2, <1>4, SubSeqFull

\* What a concatenation is cut into where its parts meet.
LEMMA CutWhereJoined ==
  ASSUME NEW B, NEW p \in Seq(B), NEW q \in Seq(B)
  PROVE  /\ p \o q \in Seq(B) /\ Len(p \o q) = Len(p) + Len(q)
         /\ SubSeq(p \o q, 1, Len(p)) = p
         /\ SubSeq(p \o q, Len(p) + 1, Len(p \o q)) = q
<1> DEFINE s == p \o q
<1>1. Len(p) \in Nat /\ Len(q) \in Nat
  BY Zenon, LenProperties
<1>2. /\ s \in Seq(B) /\ Len(s) = Len(p) + Len(q)
      /\ \A i \in 1 .. Len(p) + Len(q) : s[i] = IF i <= Len(p) THEN p[i] ELSE q[i - Len(p)]
  BY Zenon, ConcatProperties
<1> HIDE DEF s
<1>3. Len(p) \in 0 .. Len(s)
  BY <1>1, <1>2
<1>4. SubSeq(s, 1, Len(p)) = p
  <2>1. /\ SubSeq(s, 1, Len(p)) \in Seq(B) /\ Len(SubSeq(s, 1, Len(p))) = Len(p)
    BY Zenon, <1>2, <1>3, CutInTwo
  <2>2. \A i \in 1 .. Len(p) - 1 + 1 : SubSeq(s, 1, Len(p))[i] = s[1 + i - 1]
    BY <1>1, <1>2, <1>3, PartOf
  <2>3. \A i \in 1 .. Len(p) : SubSeq(s, 1, Len(p))[i] = p[i]
    <3> SUFFICES ASSUME NEW i \in 1 .. Len(p)
                 PROVE  SubSeq(s, 1, Len(p))[i] = p[i]
      BY Zenon
    <3>1. i \in 1 .. Len(p) - 1 + 1 /\ 1 + i - 1 = i /\ i \in 1 .. Len(p) + Len(q) /\ i <= Len(p)
      BY <1>1
    <3>2. SubSeq(s, 1, Len(p))[i] = s[1 + i - 1] /\ s[i] = p[i]
      BY Zenon, <1>2, <2>2, <3>1
    <3> QED BY Zenon, <3>1, <3>2
  <2> QED
    BY Zenon, <2>1, <2>3, SeqEqual
<1>5. SubSeq(s, Len(p) + 1, Len(s)) = q
  <2>1. /\ SubSeq(s, Len(p) + 1, Len(s)) \in Seq(B)
        /\ Len(SubSeq(s, Len(p) + 1, Len(s))) = Len(s) - Len(p)
    BY Zenon, <1>2, <1>3, CutInTwo
  <2>2. Len(p) + 1 \in Nat \ {0} /\ Len(s) \in Nat /\ Len(s) <= Len(s)
    BY <1>1, <1>2
  <2>3. \A i \in 1 .. Len(s) - (Len(p) + 1) + 1 :
          SubSeq(s, Len(p) + 1, Len(s))[i] = s[Len(p) + 1 + i - 1]
    BY <2>2, <1>2, PartOf
  <2>4. \A i \in 1 .. Len(q) : SubSeq(s, Len(p) + 1, Len(s))[i] = q[i]
    <3> SUFFICES ASSUME NEW i \in 1 .. Len(q)
                 PROVE  SubSeq(s, Len(p) + 1, Len(s))[i] = q[i]
      BY Zenon
    <3>1. /\ i \in 1 .. Len(s) - (Len(p) + 1) + 1 /\ Len(p) + 1 + i - 1 = Len(p) + i
          /\ Len(p) + i \in 1 .. Len(p) + Len(q) /\ ~ (Len(p) + i <= Len(p)) /\ Len(p) + i - Len(p) = i
      BY <1>1, <1>2
    <3>2. SubSeq(s, Len(p) + 1, Len(s))[i] = s[Len(p) + i]
      BY Zenon, <3>1, <2>3
    <3> QED
      BY <3>1, <3>2, <1>2
  <2>5. Len(SubSeq(s, Len(p) + 1, Len(s))) = Len(q)
    BY <2>1, <1>1, <1>2
  <2> QED
    BY Zenon, <2>1, <2>4, <2>5, SeqEqual
<1> QED
  BY Zenon, <1>2, <1>4, <1>5 DEF s

\* The readable bytes and their number.
LEMMA ContentFacts ==
  ASSUME NEW B, NEW b \in Buffer(B), Ordered(b)
  PROVE  /\ Content(b) \in Seq(B) /\ Len(Content(b)) = Len(b.mem) - b.r
         /\ ReadableBytes(b) = Len(Content(b))
         /\ WriteableBytes(b) = b.len - Len(b.mem)
<1>1. b.mem \in Seq(B) /\ b.r \in Nat /\ b.len \in Nat /\ Len(b.mem) \in Nat
  BY Zenon, LenProperties DEF Buffer
<1>2. Content(b) \in Seq(B) /\ Len(Content(b)) = Len(b.mem) - b.r
  BY <1>1, CutInTwo DEF Ordered, Content, GetWriteIndex
<1> QED
  BY <1>1, <1>2 DEF Ordered, ReadableBytes, WriteableBytes, GetWriteIndex

\* Moving the readable bytes to the start of a large enough allocation keeps them.
LEMMA MovedFacts ==
  ASSUME NEW B, NEW b \in Buffer(B), Ordered(b), NEW cap \in Nat, Len(Content(b)) <= cap
  PROVE  /\ Moved(b, cap) \in Buffer(B) /\ Ordered(Moved(b, cap))
         /\ Content(Moved(b, cap)) = Content(b)
         /\ Moved(b, cap).len = cap /\ Moved(b, cap).mem = Content(b) /\ Moved(b, cap).r = 0
<1>1. Content(b) \in Seq(B) /\ Len(Content(b)) \in Nat
  BY Zenon, ContentFacts, LenProperties
<1>2. Moved(b, cap).len = cap /\ Moved(b, cap).mem = Content(b) /\ Moved(b, cap).r = 0
  BY Zenon DEF Moved
<1>3. Moved(b, cap) \in Buffer(B)
  BY Zenon, <1>1 DEF Moved, Buffer
<1>4. Ordered(Moved(b, cap))
  BY <1>1, <1>2 DEF Ordered
<1>5. Content(Moved(b, cap)) = SubSeq(Content(b), 1, Len(Content(b)))
  BY <1>2 DEF Content, GetWriteIndex
<1> QED
  BY Zenon, <1>1, <1>2, <1>3, <1>4, <1>5, SubSeqFull

\* Compact keeps the readable bytes, whatever the threshold.
LEMMA CompactFacts ==
  ASSUME NEW B, NEW b \in Buffer(B), Ordered(b), NEW least
  PROVE  /\ Compact(b, least) \in Buffer(B) /\ Ordered(Compact(b, least))
         /\ Content(Compact(b, least)) = Content(b)
<1>1. ReadableBytes(b) = Len(Content(b)) /\ Len(Content(b)) \in Nat
  BY Zenon, ContentFacts, LenProperties
<1>2. CASE WriteableBytes(b) < least
  BY Zenon, <1>2 DEF Compact
<1>3. CASE ~ (WriteableBytes(b) < least)
  BY <1>1, <1>3, MovedFacts DEF Compact
<1> QED
  BY Zenon, <1>2, <1>3

\* Compact with more than the room there is does nothing: so it is in EnsureWritableBytes.
LEMMA CompactIdle ==
  ASSUME NEW b, NEW n, WriteableBytes(b) < n
  PROVE  Compact(b, n) = b
BY Zenon DEF Compact

\* EnsureWritableBytes keeps the readable bytes; when it succeeds there is room for n more,
\* and never is the allocation smaller than what was written before.
LEMMA EnsureFacts ==
  ASSUME NEW B, NEW b \in Buffer(B), Ordered(b), NEW n \in Nat,
         NEW e \in EnsureWritableBytes(b, n)
  PROVE  /\ e.b \in Buffer(B) /\ Ordered(e.b) /\ e.ok \in BOOLEAN
         /\ Content(e.b) = Content(b)
         /\ e.ok => Len(e.b.mem) + n <= e.b.len
         /\ Len(b.mem) <= e.b.len /\ e.b.r <= b.r
         /\ ~ e.ok => e.b = b
<1>1. b.mem \in Seq(B) /\ b.r \in Nat /\ b.len \in Nat /\ Len(b.mem) \in Nat
  BY Zenon, LenProperties DEF Buffer
<1>2. WriteableBytes(b) = b.len - Len(b.mem)
      /\ Content(b) \in Seq(B) /\ Len(Content(b)) = Len(b.mem) - b.r
  BY Zenon, ContentFacts
<1>3. CASE WriteableBytes(b) >= n
  <2>1. e = [b |-> b, ok |-> TRUE]
    BY Zenon, <1>3 DEF EnsureWritableBytes
  <2> QED
    BY <2>1, <1>1, <1>2, <1>3 DEF Ordered
<1>4. CASE ~ (WriteableBytes(b) >= n)
  <2>1. (IF b.len > MaxRead THEN Compact(b, n) ELSE b) = b
    BY <1>1, <1>2, <1>4, CompactIdle DEF Ordered
  <2> DEFINE c == IF b.len = 0 THEN DefaultSize ELSE b.len
  <2>2. e \in {[b |-> b, ok |-> FALSE]} \cup
              {[b |-> Moved(b, d), ok |-> TRUE] : d \in Doubled(c, Len(b.mem) + n)}
    BY Zenon, <1>4, <2>1 DEF EnsureWritableBytes, GetWriteIndex
  <2>3. CASE e = [b |-> b, ok |-> FALSE]
    BY <2>3, <1>1 DEF Ordered
  <2>4. ASSUME NEW d \in Doubled(c, Len(b.mem) + n), e = [b |-> Moved(b, d), ok |-> TRUE]
        PROVE  /\ e.b \in Buffer(B) /\ Ordered(e.b) /\ e.ok
               /\ Content(e.b) = Content(b)
               /\ Len(e.b.mem) + n <= e.b.len
               /\ Len(b.mem) <= e.b.len /\ e.b.r <= b.r
    <3>1. c \in Nat
      BY Zenon, <1>1, SizeAssumption
    <3>2. d \in Nat /\ d >= Len(b.mem) + n
      BY <3>1, <1>1, <2>4 DEF Doubled
    <3>3. Len(Content(b)) <= d
      BY <3>2, <1>1, <1>2
    <3>4. /\ Moved(b, d) \in Buffer(B) /\ Ordered(Moved(b, d)) /\ Content(Moved(b, d)) = Content(b)
          /\ Moved(b, d).len = d /\ Moved(b, d).mem = Content(b) /\ Moved(b, d).r = 0
      BY Zenon, <3>2, <3>3, MovedFacts
    <3>5. e.b = Moved(b, d) /\ e.ok
      BY Zenon, <2>4
    <3>6. e.b.mem = Content(b) /\ e.b.len = d /\ e.b.r = 0
      BY Zenon, <3>4, <3>5
    <3>7. Len(Content(b)) + n <= d /\ Len(b.mem) <= d /\ 0 <= b.r
      BY <3>2, <1>1, <1>2 DEF Ordered
    <3>8. e.b \in Buffer(B) /\ Ordered(e.b) /\ Content(e.b) = Content(b)
      BY Zenon, <3>4, <3>5
    <3> QED
      BY Zenon, <3>5, <3>6, <3>7, <3>8
  <2> QED
    BY Zenon, <2>2, <2>3, <2>4
<1> QED
  BY Zenon, <1>3, <1>4

\* The bytes before the readable ones and the readable ones are all there is up to the
\* write index.
LEMMA MemFacts ==
  ASSUME NEW B, NEW b \in Buffer(B), Ordered(b)
  PROVE  /\ b.mem \in Seq(B) /\ b.r \in Nat /\ b.len \in Nat /\ Len(b.mem) \in Nat
         /\ SubSeq(b.mem, 1, b.r) \in Seq(B) /\ Len(SubSeq(b.mem, 1, b.r)) = b.r
         /\ Content(b) \in Seq(B)
         /\ b.mem = SubSeq(b.mem, 1, b.r) \o Content(b)
<1>1. b.mem \in Seq(B) /\ b.r \in Nat /\ b.len \in Nat /\ Len(b.mem) \in Nat
  BY Zenon, LenProperties DEF Buffer
<1>2. b.r \in 0 .. Len(b.mem)
  BY <1>1 DEF Ordered
<1> QED
  BY Zenon, <1>1, <1>2, CutInTwo DEF Content, GetWriteIndex

\* A buffer whose bytes up to the write index are p and then c, read up to the end of p.
LEMMA ContentOf ==
  ASSUME NEW B, NEW p \in Seq(B), NEW c \in Seq(B), NEW b,
         b.mem = p \o c, b.r = Len(p)
  PROVE  Content(b) = c
BY CutWhereJoined DEF Content, GetWriteIndex

\* Appending behind the write index appends to the readable bytes.
LEMMA AppendFacts ==
  ASSUME NEW B, NEW b \in Buffer(B), Ordered(b), NEW bytes \in Seq(B),
         Len(b.mem) + Len(bytes) <= b.len
  PROVE  /\ Appended(b, bytes) \in Buffer(B) /\ Ordered(Appended(b, bytes))
         /\ Content(Appended(b, bytes)) = Content(b) \o bytes
<1> DEFINE x == Appended(b, bytes)
           p == SubSeq(b.mem, 1, b.r)
           c == Content(b)
<1>1. /\ b.mem \in Seq(B) /\ b.r \in Nat /\ b.len \in Nat /\ Len(b.mem) \in Nat
      /\ p \in Seq(B) /\ Len(p) = b.r /\ c \in Seq(B) /\ b.mem = p \o c
  BY Zenon, MemFacts
<1>2. x.mem = b.mem \o bytes /\ x.r = b.r /\ x.len = b.len
  BY Zenon DEF Appended
<1>3. /\ b.mem \o bytes \in Seq(B) /\ Len(b.mem \o bytes) = Len(b.mem) + Len(bytes)
      /\ Len(bytes) \in Nat /\ c \o bytes \in Seq(B)
  BY Zenon, <1>1, ConcatProperties, LenProperties
<1>4. x \in Buffer(B)
  BY Zenon, <1>1, <1>3 DEF Buffer, Appended
<1> HIDE DEF x, p, c
<1>5. Ordered(x)
  BY <1>1, <1>2, <1>3 DEF Ordered
<1>6. x.mem = p \o (c \o bytes)
  <2>1. (p \o c) \o bytes = p \o (c \o bytes)
    <3>1. Cat(Cat(p, c), bytes) = Cat(p, Cat(c, bytes))
      BY <1>1, CatAssoc
    <3> QED BY Zenon, <3>1 DEF Cat
  <2> QED
    BY Zenon, <2>1, <1>1, <1>2
<1>7. Content(x) = c \o bytes
  BY Zenon, <1>1, <1>2, <1>3, <1>6, ContentOf
<1> QED
  BY Zenon, <1>4, <1>5, <1>7 DEF x, c

\* Write appends all of the bytes or, when it fails, changes nothing; the allocation is
\* never smaller than what was written before.
LEMMA WriteFacts ==
  ASSUME NEW B, NEW b \in Buffer(B), Ordered(b), NEW bytes \in Seq(B), NEW x \in Write(b, bytes)
  PROVE  /\ x.b \in Buffer(B) /\ Ordered(x.b) /\ x.ok \in BOOLEAN
         /\ x.ok => Content(x.b) = Content(b) \o bytes
         /\ ~ x.ok => x.b = b
         /\ Len(b.mem) <= x.b.len /\ x.b.r <= b.r
<1>1. PICK e \in EnsureWritableBytes(b, Len(bytes)) :
        x = IF e.ok THEN [b |-> Appended(e.b, bytes), ok |-> TRUE] ELSE e
  BY Zenon DEF Write
<1>2. /\ e.b \in Buffer(B) /\ Ordered(e.b) /\ e.ok \in BOOLEAN
      /\ Content(e.b) = Content(b)
      /\ e.ok => Len(e.b.mem) + Len(bytes) <= e.b.len
      /\ Len(b.mem) <= e.b.len /\ e.b.r <= b.r
      /\ ~ e.ok => e.b = b
  BY LenProperties, EnsureFacts
<1>3. CASE ~ e.ok
  <2>1. x = e
    BY Zenon, <1>1, <1>3
  <2> QED
    BY Zenon, <2>1, <1>2, <1>3
<1>4. CASE e.ok
  <2>1. x.b = Appended(e.b, bytes) /\ x.ok = TRUE
    BY Zenon, <1>1, <1>4
  <2>2. x.b \in Buffer(B) /\ Ordered(x.b) /\ Content(x.b) = Content(e.b) \o bytes
    BY Zenon, <1>2, <1>4, <2>1, AppendFacts
  <2>3. x.b.len = e.b.len /\ x.b.r = e.b.r
    BY <2>1 DEF Appended
  <2> QED
    BY Zenon, <1>2, <2>1, <2>2, <2>3
<1> QED
  BY Zenon, <1>2, <1>3, <1>4

\* Skipping k of the readable bytes leaves the others.
LEMMA SkipFacts ==
  ASSUME NEW B, NEW b \in Buffer(B), Ordered(b), NEW k \in 0 .. ReadableBytes(b)
  PROVE  /\ SkipBytes(b, k) \in Buffer(B) /\ Ordered(SkipBytes(b, k))
         /\ Content(SkipBytes(b, k)) \in Seq(B)
         /\ SubSeq(Content(b), 1, k) \in Seq(B) /\ Len(SubSeq(Content(b), 1, k)) = k
         /\ SubSeq(Content(b), 1, k) \o Content(SkipBytes(b, k)) = Content(b)
<1> DEFINE x == SkipBytes(b, k)
           p == SubSeq(b.mem, 1, b.r)
           c == Content(b)
           c1 == SubSeq(c, 1, k)
           c2 == SubSeq(c, k + 1, Len(c))
<1>1. /\ b.mem \in Seq(B) /\ b.r \in Nat /\ b.len \in Nat /\ Len(b.mem) \in Nat
      /\ p \in Seq(B) /\ Len(p) = b.r /\ c \in Seq(B) /\ b.mem = p \o c
  BY Zenon, MemFacts
<1>2. k \in 0 .. Len(c) /\ Len(c) = Len(b.mem) - b.r
  BY Zenon, ContentFacts
<1> HIDE DEF c
<1>3. c1 \in Seq(B) /\ c2 \in Seq(B) /\ Len(c1) = k /\ c1 \o c2 = c
  <2>1. c \in Seq(B) /\ k \in 0 .. Len(c)
    BY Zenon, <1>1, <1>2
  <2> QED
    BY <2>1, CutInTwo, Zenon
<1>4. x.mem = b.mem /\ x.r = b.r + k /\ x.len = b.len
  BY Zenon DEF SkipBytes
<1>5. x \in Buffer(B)
  BY <1>1, <1>2 DEF Buffer, SkipBytes
<1> HIDE DEF x, p, c1, c2
<1>6. Ordered(x)
  BY <1>1, <1>2, <1>4 DEF Ordered
<1>7. p \o c1 \in Seq(B) /\ Len(p \o c1) = b.r + k /\ (p \o c1) \o c2 = p \o (c1 \o c2)
  <2>1. p \o c1 \in Seq(B) /\ Len(p \o c1) = Len(p) + Len(c1)
    BY Zenon, <1>1, <1>3, ConcatProperties
  <2>2. p \in Seq(B) /\ c1 \in Seq(B) /\ c2 \in Seq(B)
    BY Zenon, <1>1, <1>3
  <2>3. (p \o c1) \o c2 = p \o (c1 \o c2)
    <3>1. Cat(Cat(p, c1), c2) = Cat(p, Cat(c1, c2))
      BY <2>2, CatAssoc
    <3> QED BY Zenon, <3>1 DEF Cat
  <2> QED
    BY Zenon, <2>1, <2>3, <1>1, <1>3
<1>8. x.mem = (p \o c1) \o c2
  BY Zenon, <1>1, <1>3, <1>4, <1>7
<1>9. Content(x) = c2
  BY Zenon, <1>3, <1>4, <1>7, <1>8, ContentOf
<1> QED
  BY Zenon, <1>3, <1>5, <1>6, <1>9 DEF x, c, c1

\* Taking back the last n bytes.
Undone(b, n) == SetWriteIndex(b, GetWriteIndex(b) - n)

\* Setting the write index back over the last bytes written takes just them away.
LEMMA UndoFacts ==
  ASSUME NEW B, NEW b \in Buffer(B), Ordered(b), NEW c \in Seq(B), NEW h \in Seq(B),
         Content(b) = Cat(c, h)
  PROVE  /\ Undone(b, Len(h)) \in Buffer(B) /\ Ordered(Undone(b, Len(h)))
         /\ Content(Undone(b, Len(h))) = c
<1> DEFINE i == GetWriteIndex(b) - Len(h)
           x == SetWriteIndex(b, i)
           p == SubSeq(b.mem, 1, b.r)
<1>1. /\ b.mem \in Seq(B) /\ b.r \in Nat /\ b.len \in Nat /\ Len(b.mem) \in Nat
      /\ p \in Seq(B) /\ Len(p) = b.r /\ b.mem = p \o (c \o h)
  BY Zenon, MemFacts DEF Cat
<1> HIDE DEF p
<1>2. Len(c) \in Nat /\ Len(h) \in Nat
  BY Zenon, LenProperties
<1>3. p \o c \in Seq(B) /\ Len(p \o c) = b.r + Len(c) /\ (p \o c) \o h = p \o (c \o h)
  <2>1. p \o c \in Seq(B) /\ Len(p \o c) = Len(p) + Len(c)
    BY Zenon, <1>1, ConcatProperties
  <2>2. p \in Seq(B)
    BY Zenon, <1>1
  <2>3. (p \o c) \o h = p \o (c \o h)
    <3>1. Cat(Cat(p, c), h) = Cat(p, Cat(c, h))
      BY <2>2, CatAssoc
    <3> QED BY Zenon, <3>1 DEF Cat
  <2> QED
    BY Zenon, <2>1, <2>3, <1>1
<1>4. b.mem = (p \o c) \o h /\ Len(b.mem) = b.r + Len(c) + Len(h)
  <2>1. Len((p \o c) \o h) = Len(p \o c) + Len(h)
    BY Zenon, <1>3, ConcatProperties
  <2> QED
    BY Zenon, <2>1, <1>1, <1>3
<1>5. i = b.r + Len(c) /\ i \in Nat /\ i <= Len(b.mem)
  BY <1>1, <1>2, <1>4 DEF GetWriteIndex
<1> DEFINE y == [j \in 1 .. i |-> IF j <= Len(b.mem) THEN b.mem[j] ELSE Junk]
<1>6. y = p \o c
  <2>1. p \o c = [j \in 1 .. i |-> (p \o c)[j]]
    BY Zenon, <1>3, <1>5, LenProperties
  <2>2. \A j \in 1 .. i : j <= Len(b.mem) /\ b.mem[j] = (p \o c)[j]
    BY <1>1, <1>2, <1>3, <1>4, <1>5, ConcatProperties
  <2> QED
    BY Zenon, <2>1, <2>2
<1>7. x.mem = y /\ x.r = b.r /\ x.len = b.len
  BY Zenon DEF SetWriteIndex
<1>8. x \in Buffer(B)
  BY Zenon, <1>1, <1>3, <1>6 DEF Buffer, SetWriteIndex
<1> HIDE DEF x, y, i
<1>9. Ordered(x)
  BY <1>1, <1>2, <1>3, <1>5, <1>6, <1>7 DEF Ordered
<1>10. Content(x) = c
  <2>1. x.mem = p \o c /\ x.r = Len(p)
    BY Zenon, <1>1, <1>6, <1>7
  <2> QED
    BY Zenon, <2>1, <1>1, ContentOf
<1> QED
  BY Zenon, <1>8, <1>9, <1>10 DEF x, i, Undone

\* Setting the write index anywhere in the allocation and not before the read index keeps
\* the indexes in order, whatever the bytes are then.
LEMMA SetWriteIndexFacts ==
  ASSUME NEW B, Junk \in B, NEW b \in Buffer(B), NEW i \in Nat
  PROVE  /\ SetWriteIndex(b, i) \in Buffer(B)
         /\ b.r <= i /\ i <= b.len => Ordered(SetWriteIndex(b, i))
<1> DEFINE y == [j \in 1 .. i |-> IF j <= Len(b.mem) THEN b.mem[j] ELSE Junk]
<1>1. b.mem \in Seq(B) /\ b.r \in Nat /\ b.len \in Nat /\ Len(b.mem) \in Nat
  BY Zenon, LenProperties DEF Buffer
<1>2. \A j \in 1 .. i : (IF j <= Len(b.mem) THEN b.mem[j] ELSE Junk) \in B
  BY <1>1, ElementOfSeq
<1>3. y \in Seq(B) /\ Len(y) = i
  BY <1>2
<1>4. SetWriteIndex(b, i) \in Buffer(B)
  BY Zenon, <1>1, <1>3 DEF Buffer, SetWriteIndex
<1>5. /\ SetWriteIndex(b, i).mem = y /\ SetWriteIndex(b, i).r = b.r /\ SetWriteIndex(b, i).len = b.len
  BY Zenon DEF SetWriteIndex
<1> HIDE DEF y
<1>6. b.r <= i /\ i <= b.len => Ordered(SetWriteIndex(b, i))
  BY Zenon, <1>1, <1>3, <1>5 DEF Ordered
<1> QED
  BY Zenon, <1>4, <1>6

\* ReadFD appends what was read, in the room behind the write index and, for the rest, in
\* a larger allocation; only then can it fail.
LEMMA ReadFDFacts ==
  ASSUME NEW B, NEW b \in Buffer(B), Ordered(b), NEW bytes \in Seq(B), NEW x \in ReadFD(b, bytes)
  PROVE  /\ x.b \in Buffer(B) /\ x.ok \in BOOLEAN
         /\ x.ok => Ordered(x.b) /\ Content(x.b) = Content(b) \o bytes
<1> DEFINE room == WriteableBytes(b)
<1>1. /\ b.len \in Nat /\ Len(b.mem) \in Nat /\ room = b.len - Len(b.mem) /\ room \in Nat
      /\ Len(bytes) \in Nat /\ Content(b) \in Seq(B)
  BY ContentFacts, MemFacts, LenProperties DEF Ordered
<1> HIDE DEF room
<1>2. CASE Len(bytes) <= room
  <2>1. x = [b |-> Appended(b, bytes), ok |-> TRUE]
    BY Zenon, <1>2 DEF ReadFD, room
  <2>2. Len(b.mem) + Len(bytes) <= b.len
    BY <1>1, <1>2
  <2>3. /\ Appended(b, bytes) \in Buffer(B) /\ Ordered(Appended(b, bytes))
        /\ Content(Appended(b, bytes)) = Content(b) \o bytes
    BY Zenon, <2>2, AppendFacts
  <2> QED
    BY Zenon, <2>1, <2>3
<1>3. CASE ~ (Len(bytes) <= room)
  <2> DEFINE p == SubSeq(bytes, 1, room)
             q == SubSeq(bytes, room + 1, Len(bytes))
             a == Appended(b, p)
  <2>1. room \in 0 .. Len(bytes)
    BY <1>1, <1>3
  <2>2. p \in Seq(B) /\ q \in Seq(B) /\ Len(p) = room /\ p \o q = bytes
    BY Zenon, <2>1, CutInTwo
  <2>3. x \in Write(a, q)
    BY Zenon, <1>3 DEF ReadFD, room
  <2> HIDE DEF p, q, room
  <2>4. Len(b.mem) + Len(p) <= b.len
    BY <1>1, <2>2
  <2>5. a \in Buffer(B) /\ Ordered(a) /\ Content(a) = Content(b) \o p
    BY Zenon, <2>2, <2>4, AppendFacts
  <2> HIDE DEF a
  <2>6. /\ x.b \in Buffer(B) /\ Ordered(x.b) /\ x.ok \in BOOLEAN
        /\ x.ok => Content(x.b) = Content(a) \o q
    <3>1. a \in Buffer(B) /\ Ordered(a) /\ q \in Seq(B)
      BY Zenon, <2>2, <2>5
    <3> QED
      BY <3>1, <2>3, WriteFacts
  <2>7. Content(b) \in Seq(B) /\ p \in Seq(B) /\ q \in Seq(B)
    BY Zenon, <1>1, <2>2
  <2>8. (Content(b) \o p) \o q = Content(b) \o (p \o q)
    <3>1. Cat(Cat(Content(b), p), q) = Cat(Content(b), Cat(p, q))
      BY <2>7, CatAssoc
    <3> QED BY Zenon, <3>1 DEF Cat
  <2> QED
    BY Zenon, <2>2, <2>5, <2>6, <2>8
<1> QED
  BY Zenon, <1>2, <1>3

-----------------------------------------------------------------------------
(* Bytes joined end to end, and the operations of the two ends. *)

\* The bytes of a connection, from those disposed of to those that wait.
All(e, r, w, s, t) == Cat(e, Cat(Cat(Cat(r, w), s), t))

LEMMA Joined ==
  \A x, y \in Seq(Byte) : Cat(x, y) \in Seq(Byte)
BY Zenon, ConcatProperties DEF Cat

LEMMA Assoc ==
  \A x, y, z \in Seq(Byte) : Cat(Cat(x, y), z) = Cat(x, Cat(y, z))
BY CatAssoc

LEMMA JoinedEmpty ==
  /\ <<>> \in Seq(Byte)
  /\ \A x \in Seq(Byte) : Cat(x, <<>>) = x /\ Cat(<<>>, x) = x
BY Zenon, ConcatEmptySeq, EmptySeq DEF Cat

\* The bytes of a connection are bytes.
LEMMA AllType ==
  ASSUME NEW e \in Seq(Byte), NEW r \in Seq(Byte), NEW w \in Seq(Byte), NEW s \in Seq(Byte), NEW t \in Seq(Byte)
  PROVE  All(e, r, w, s, t) \in Seq(Byte)
BY Zenon, Joined DEF All

\* Concatenation to the right.
LEMMA AllRight ==
  ASSUME NEW e \in Seq(Byte), NEW r \in Seq(Byte), NEW w \in Seq(Byte), NEW s \in Seq(Byte), NEW t \in Seq(Byte)
  PROVE  All(e, r, w, s, t) = Cat(e, Cat(r, Cat(w, Cat(s, t))))
<1>1. Cat(w, s) \in Seq(Byte) /\ Cat(s, t) \in Seq(Byte)
  BY Zenon, Joined
<1>2. Cat(Cat(r, w), s) = Cat(r, Cat(w, s)) /\ Cat(Cat(w, s), t) = Cat(w, Cat(s, t))
  BY Assoc
<1>3. Cat(Cat(r, Cat(w, s)), t) = Cat(r, Cat(Cat(w, s), t))
  BY <1>1, Assoc
<1> QED BY Zenon, <1>2, <1>3 DEF All

\* WriteFD moves bytes from the send buffer to the socket.
LEMMA AllWritten ==
  ASSUME NEW e \in Seq(Byte), NEW r \in Seq(Byte), NEW w \in Seq(Byte), NEW t \in Seq(Byte),
         NEW p \in Seq(Byte), NEW q \in Seq(Byte)
  PROVE  All(e, r, Cat(w, p), q, t) = All(e, r, w, Cat(p, q), t)
BY Joined, Assoc DEF All

\* ReadFD moves bytes from the socket to the receive buffer.
LEMMA AllRead ==
  ASSUME NEW e \in Seq(Byte), NEW r \in Seq(Byte), NEW s \in Seq(Byte), NEW t \in Seq(Byte),
         NEW p \in Seq(Byte), NEW q \in Seq(Byte)
  PROVE  All(e, Cat(r, p), q, s, t) = All(e, r, Cat(p, q), s, t)
BY Joined, Assoc DEF All

\* Decode moves bytes from the receive buffer to those disposed of.
LEMMA AllDecoded ==
  ASSUME NEW e \in Seq(Byte), NEW w \in Seq(Byte), NEW s \in Seq(Byte), NEW t \in Seq(Byte),
         NEW p \in Seq(Byte), NEW q \in Seq(Byte)
  PROVE  All(Cat(e, p), q, w, s, t) = All(e, Cat(p, q), w, s, t)
<1>0. Cat(e, p) \in Seq(Byte) /\ Cat(p, q) \in Seq(Byte)
  BY Zenon, Joined
<1>1. All(Cat(e, p), q, w, s, t) = Cat(Cat(e, p), Cat(q, Cat(w, Cat(s, t))))
  BY <1>0, AllRight
<1>2. All(e, Cat(p, q), w, s, t) = Cat(e, Cat(Cat(p, q), Cat(w, Cat(s, t))))
  BY <1>0, AllRight
<1>3. Cat(s, t) \in Seq(Byte) /\ Cat(w, Cat(s, t)) \in Seq(Byte) /\ Cat(q, Cat(w, Cat(s, t))) \in Seq(Byte)
  BY Zenon, Joined
<1> QED
  BY <1>1, <1>2, <1>3, Assoc

\* Bytes appended to what waits are appended to all of them.
LEMMA AllAppended ==
  ASSUME NEW e \in Seq(Byte), NEW r \in Seq(Byte), NEW w \in Seq(Byte), NEW s \in Seq(Byte),
         NEW t \in Seq(Byte), NEW a \in Seq(Byte)
  PROVE  All(e, r, w, s, Cat(t, a)) = Cat(All(e, r, w, s, t), a)
<1>1. /\ Cat(r, w) \in Seq(Byte) /\ Cat(Cat(r, w), s) \in Seq(Byte)
      /\ Cat(Cat(Cat(r, w), s), t) \in Seq(Byte)
  BY Zenon, Joined
<1>2. Cat(Cat(Cat(r, w), s), Cat(t, a)) = Cat(Cat(Cat(Cat(r, w), s), t), a)
  BY <1>1, Assoc
<1> QED
  BY <1>1, <1>2, Assoc DEF All

\* What waits goes to the end of the send buffer.
LEMMA AllFlushed ==
  ASSUME NEW e \in Seq(Byte), NEW r \in Seq(Byte), NEW w \in Seq(Byte), NEW s \in Seq(Byte), NEW t \in Seq(Byte)
  PROVE  All(e, r, w, Cat(s, t), <<>>) = All(e, r, w, s, t)
BY Joined, Assoc, JoinedEmpty DEF All

\* Bytes appended to the send buffer while nothing waits.
LEMMA AllSent ==
  ASSUME NEW e \in Seq(Byte), NEW r \in Seq(Byte), NEW w \in Seq(Byte), NEW s \in Seq(Byte), NEW a \in Seq(Byte)
  PROVE  All(e, r, w, Cat(s, a), <<>>) = Cat(All(e, r, w, s, <<>>), a)
<1>1. All(e, r, w, Cat(s, a), <<>>) = All(e, r, w, s, a)
  BY AllFlushed
<1>2. PICK z \in Seq(Byte) : z = <<>>
  BY Zenon, JoinedEmpty
<1>3. All(e, r, w, s, Cat(z, a)) = Cat(All(e, r, w, s, z), a)
  BY AllAppended
<1> QED
  BY Zenon, <1>1, <1>2, <1>3, JoinedEmpty

\* What a reset leaves, and what the receiver is left with.
LEMMA AllCut ==
  ASSUME NEW e \in Seq(Byte), NEW r \in Seq(Byte), NEW s \in Seq(Byte), NEW t \in Seq(Byte),
         NEW p \in Seq(Byte), NEW q \in Seq(Byte)
  PROVE  /\ All(e, r, Cat(p, q), s, t) = Cat(All(e, r, p, <<>>, <<>>), Cat(q, Cat(s, t)))
         /\ All(e, r, <<>>, <<>>, <<>>) = Cat(e, r)
         /\ All(e, <<>>, <<>>, <<>>, <<>>) = e
<1>1. /\ Cat(p, q) \in Seq(Byte) /\ Cat(s, t) \in Seq(Byte) /\ Cat(r, p) \in Seq(Byte)
      /\ Cat(q, Cat(s, t)) \in Seq(Byte)
  BY Zenon, Joined
<1>2. /\ All(e, r, p, <<>>, <<>>) = Cat(e, Cat(r, p)) /\ All(e, r, <<>>, <<>>, <<>>) = Cat(e, r)
      /\ All(e, <<>>, <<>>, <<>>, <<>>) = e
  BY Zenon, <1>1, JoinedEmpty DEF All
<1>3. All(e, r, Cat(p, q), s, t) = Cat(e, Cat(r, Cat(Cat(p, q), Cat(s, t))))
  <2>1. PICK v \in Seq(Byte) : v = Cat(p, q)
    BY Zenon, <1>1
  <2>2. All(e, r, v, s, t) = Cat(e, Cat(r, Cat(v, Cat(s, t))))
    BY AllRight
  <2> QED BY Zenon, <2>1, <2>2
<1>4. Cat(Cat(p, q), Cat(s, t)) = Cat(p, Cat(q, Cat(s, t)))
  BY <1>1, Assoc
<1>5. Cat(Cat(e, Cat(r, p)), Cat(q, Cat(s, t))) = Cat(e, Cat(Cat(r, p), Cat(q, Cat(s, t))))
  BY <1>1, Assoc
<1>6. Cat(Cat(r, p), Cat(q, Cat(s, t))) = Cat(r, Cat(p, Cat(q, Cat(s, t))))
  BY <1>1, Assoc
<1> QED
  BY Zenon, <1>2, <1>3, <1>4, <1>5, <1>6

\* p is the beginning of x.
Begins(p, x) == \E q \in Seq(Byte) : x = Cat(p, q)

LEMMA BeginsFacts ==
  ASSUME NEW x \in Seq(Byte), NEW p \in Seq(Byte), NEW q \in Seq(Byte)
  PROVE  /\ Begins(x, x)
         /\ Begins(Cat(p, q), x) => Begins(p, x)
         /\ Begins(p, x) => p = SubSeq(x, 1, Len(p))
<1>1. Begins(x, x)
  BY Zenon, JoinedEmpty DEF Begins
<1>2. ASSUME Begins(Cat(p, q), x) PROVE Begins(p, x)
  <2>1. PICK y \in Seq(Byte) : x = Cat(Cat(p, q), y)
    BY Zenon, <1>2 DEF Begins
  <2> QED
    BY <2>1, Joined, Assoc DEF Begins
<1>3. ASSUME Begins(p, x) PROVE p = SubSeq(x, 1, Len(p))
  <2>1. PICK y \in Seq(Byte) : x = p \o y
    BY Zenon, <1>3 DEF Begins, Cat
  <2>2. SubSeq(p \o y, 1, Len(p)) = p
    BY CutWhereJoined
  <2> QED
    BY Zenon, <2>1, <2>2
<1> QED
  BY Zenon, <1>1, <1>2, <1>3
-----------------------------------------------------------------------------
\* The bytes of a message: head and body.
LEMMA BytesFacts ==
  ASSUME NEW m \in Nat, NEW n \in Nat
  PROVE  /\ Bytes(m, n) \in Seq(Byte) /\ HeadBytes(m, n) \in Seq(Byte) /\ BodyBytes(m, n) \in Seq(Byte)
         /\ Len(Bytes(m, n)) = HeadSize + n /\ Len(HeadBytes(m, n)) = HeadSize
         /\ Cat(HeadBytes(m, n), BodyBytes(m, n)) = Bytes(m, n)
         /\ n = 0 => HeadBytes(m, n) = Bytes(m, n)
<1>1. HeadSize \in Nat /\ HeadSize + n \in Nat
  BY FrameAssumption
<1>2. \A k \in 1 .. HeadSize + n : <<m, k, n>> \in Byte
  BY <1>1 DEF Byte
<1>3. Bytes(m, n) \in Seq(Byte) /\ Len(Bytes(m, n)) = HeadSize + n
  <2>1. Bytes(m, n) \in [1 .. HeadSize + n -> Byte]
    BY Zenon, <1>2 DEF Bytes
  <2>2. Bytes(m, n) \in Seq(Byte)
    BY <1>1, <2>1
  <2>3. DOMAIN Bytes(m, n) = 1 .. HeadSize + n
    BY Zenon DEF Bytes
  <2> QED
    BY <1>1, <2>2, <2>3, LenProperties
<1> DEFINE s == Bytes(m, n)
<1> HIDE DEF s
<1>4. s \in Seq(Byte) /\ Len(s) = HeadSize + n /\ HeadSize \in 0 .. Len(s)
  BY <1>1, <1>3 DEF s
<1>5. /\ SubSeq(s, 1, HeadSize) \in Seq(Byte) /\ SubSeq(s, HeadSize + 1, Len(s)) \in Seq(Byte)
      /\ Len(SubSeq(s, 1, HeadSize)) = HeadSize
      /\ SubSeq(s, 1, HeadSize) \o SubSeq(s, HeadSize + 1, Len(s)) = s
  BY Zenon, <1>4, CutInTwo
<1>6. n = 0 => SubSeq(s, 1, HeadSize) = s
  BY <1>1, <1>4, SubSeqFull
<1> QED
  BY Zenon, <1>3, <1>4, <1>5, <1>6 DEF s, HeadBytes, BodyBytes, Cat

\* Write, as concatenation.
LEMMA WriteCat ==
  ASSUME NEW b \in Buffer(Byte), Ordered(b), NEW a \in Seq(Byte), NEW x \in Write(b, a)
  PROVE  /\ x.b \in Buffer(Byte) /\ Ordered(x.b) /\ x.ok \in BOOLEAN
         /\ x.ok => Content(x.b) = Cat(Content(b), a)
         /\ ~ x.ok => x.b = b
         /\ Len(b.mem) <= x.b.len /\ x.b.r <= b.r
BY Zenon, WriteFacts DEF Cat

\* ProtoCodec::Encode appends the whole message or nothing.
LEMMA EncodeFacts ==
  ASSUME NEW b \in Buffer(Byte), Ordered(b), NEW m \in Nat, NEW n \in Nat, NEW x \in Encode(b, m, n)
  PROVE  /\ x.b \in Buffer(Byte) /\ Ordered(x.b) /\ x.ok \in BOOLEAN
         /\ x.ok => Content(x.b) = Cat(Content(b), Bytes(m, n))
         /\ ~ x.ok => Content(x.b) = Content(b)
<1> DEFINE hd == HeadBytes(m, n)
           bd == BodyBytes(m, n)
           c == Content(b)
           undo(w) == SetWriteIndex(w.b, GetWriteIndex(w.b) - HeadSize)
<1>1. /\ hd \in Seq(Byte) /\ bd \in Seq(Byte) /\ c \in Seq(Byte) /\ Len(hd) = HeadSize
      /\ Cat(hd, bd) = Bytes(m, n) /\ (n = 0 => hd = Bytes(m, n))
  BY Zenon, BytesFacts, ContentFacts
<1>2. \/ x = Refused(b)
      \/ \E h \in Write(b, hd) : \/ ~ (h.ok /\ n > 0) /\ x = h
                                 \/ h.ok /\ n > 0 /\ \E w \in Write(h.b, bd) :
                                      x = IF w.ok THEN w ELSE Refused(undo(w))
  BY Zenon DEF Encode
<1> HIDE DEF hd, bd, undo
<1>3. CASE x = Refused(b)
  BY Zenon, <1>3 DEF Refused
<1>4. ASSUME NEW h \in Write(b, hd), ~ (h.ok /\ n > 0), x = h
      PROVE  /\ x.b \in Buffer(Byte) /\ Ordered(x.b) /\ x.ok \in BOOLEAN
             /\ x.ok => Content(x.b) = Cat(c, Bytes(m, n))
             /\ ~ x.ok => Content(x.b) = c
  BY <1>1, <1>4, WriteCat
<1>5. ASSUME NEW h \in Write(b, hd), h.ok, NEW w \in Write(h.b, bd),
             x = IF w.ok THEN w ELSE Refused(undo(w))
      PROVE  /\ x.b \in Buffer(Byte) /\ Ordered(x.b) /\ x.ok \in BOOLEAN
             /\ x.ok => Content(x.b) = Cat(c, Bytes(m, n))
             /\ ~ x.ok => Content(x.b) = c
  <2>1. h.b \in Buffer(Byte) /\ Ordered(h.b) /\ Content(h.b) = Cat(c, hd)
    BY Zenon, <1>1, <1>5, WriteCat
  <2>2. /\ w.b \in Buffer(Byte) /\ Ordered(w.b) /\ w.ok \in BOOLEAN
        /\ w.ok => Content(w.b) = Cat(Cat(c, hd), bd)
        /\ ~ w.ok => w.b = h.b
    BY <1>1, <2>1, WriteCat
  <2>3. Cat(Cat(c, hd), bd) = Cat(c, Bytes(m, n))
    BY <1>1, Assoc
  <2>4. CASE w.ok
    BY Zenon, <1>5, <2>2, <2>3, <2>4
  <2>5. CASE ~ w.ok
    <3>1. c \in Seq(Byte) /\ hd \in Seq(Byte) /\ h.b \in Buffer(Byte) /\ Ordered(h.b) /\ Content(h.b) = Cat(c, hd)
      BY Zenon, <1>1, <2>1
    <3> HIDE DEF c
    <3>2. Undone(h.b, Len(hd)) \in Buffer(Byte) /\ Ordered(Undone(h.b, Len(hd))) /\ Content(Undone(h.b, Len(hd))) = c
      BY <3>1, UndoFacts
    <3>3. undo(w) = Undone(h.b, Len(hd))
      BY Zenon, <1>1, <2>2, <2>5 DEF undo, Undone
    <3>4. undo(w) \in Buffer(Byte) /\ Ordered(undo(w)) /\ Content(undo(w)) = c
      BY Zenon, <3>2, <3>3
    <3> QED
      BY Zenon, <1>5, <2>5, <3>4 DEF Refused
  <2> QED
    BY Zenon, <2>2, <2>4, <2>5
<1> QED
  BY Zenon, <1>2, <1>3, <1>4, <1>5

\* Manager::SendTo: the whole message, or a buffer whose indexes are in order.
LEMMA ManagerEncodeFacts ==
  ASSUME NEW b \in Buffer(Byte), Ordered(b), NEW m \in Nat, NEW n \in Nat, NEW x \in ManagerEncode(b, m, n)
  PROVE  /\ x.b \in Buffer(Byte) /\ Ordered(x.b) /\ x.ok \in BOOLEAN
         /\ x.ok => Content(x.b) = Cat(Content(b), Bytes(m, n))
<1> DEFINE hd == HeadBytes(m, n)
           bd == BodyBytes(m, n)
           c == Content(b)
           i == GetWriteIndex(b)
<1>1. /\ hd \in Seq(Byte) /\ bd \in Seq(Byte) /\ c \in Seq(Byte) /\ Cat(hd, bd) = Bytes(m, n)
  BY Zenon, BytesFacts, ContentFacts
<1>2. PICK h \in Write(b, hd) :
        \/ h.ok /\ \E w \in Write(h.b, bd) : x = IF w.ok THEN w ELSE Refused(SetWriteIndex(w.b, i))
        \/ ~ h.ok /\ x = Refused(SetWriteIndex(h.b, i))
  BY Zenon DEF ManagerEncode
<1>3. /\ i \in Nat /\ i = Len(b.mem) /\ b.r <= i /\ b.r \in Nat
  BY Zenon, MemFacts DEF GetWriteIndex, Ordered
<1>4. Junk \in Byte
  BY Zenon DEF Junk, Byte
<1> HIDE DEF hd, bd, c, i
<1>5. /\ h.b \in Buffer(Byte) /\ Ordered(h.b) /\ h.ok \in BOOLEAN /\ (h.ok => Content(h.b) = Cat(c, hd))
      /\ i <= h.b.len /\ h.b.r <= b.r
  BY Zenon, <1>1, <1>3, WriteCat DEF c
<1>6. h.b.r \in Nat /\ h.b.len \in Nat
  BY Zenon, <1>5, MemFacts
<1>7. h.b.r <= i
  BY <1>3, <1>5, <1>6
<1>8. SetWriteIndex(h.b, i) \in Buffer(Byte) /\ Ordered(SetWriteIndex(h.b, i))
  BY Zenon, <1>3, <1>4, <1>5, <1>7, SetWriteIndexFacts
<1>9. CASE ~ h.ok
  <2>1. x = Refused(SetWriteIndex(h.b, i))
    BY <1>2, <1>9, Zenon
  <2> QED
    BY Zenon, <1>8, <2>1 DEF Refused
<1>10. CASE h.ok
  <2>1. PICK w \in Write(h.b, bd) : x = IF w.ok THEN w ELSE Refused(SetWriteIndex(w.b, i))
    BY Zenon, <1>2, <1>10
  <2>2. /\ w.b \in Buffer(Byte) /\ Ordered(w.b) /\ w.ok \in BOOLEAN
        /\ w.ok => Content(w.b) = Cat(Cat(c, hd), bd)
        /\ ~ w.ok => w.b = h.b
    BY <1>1, <1>5, <1>10, WriteCat
  <2>3. Cat(Cat(c, hd), bd) = Cat(c, Bytes(m, n))
    BY <1>1, Assoc
  <2>4. CASE w.ok
    BY Zenon, <2>1, <2>2, <2>3, <2>4 DEF c
  <2>5. CASE ~ w.ok
    BY Zenon, <1>8, <2>1, <2>2, <2>5 DEF Refused
  <2> QED
    BY Zenon, <2>2, <2>4, <2>5
<1> QED
  BY Zenon, <1>5, <1>9, <1>10

\* SendToParent, SendToWorker: the same.
LEMMA PlainEncodeFacts ==
  ASSUME NEW b \in Buffer(Byte), Ordered(b), NEW m \in Nat, NEW n \in Nat, NEW x \in PlainEncode(b, m, n)
  PROVE  /\ x.b \in Buffer(Byte) /\ Ordered(x.b) /\ x.ok \in BOOLEAN
         /\ x.ok => Content(x.b) = Cat(Content(b), Bytes(m, n))
<1> DEFINE hd == HeadBytes(m, n)
           bd == BodyBytes(m, n)
           c == Content(b)
<1>1. /\ hd \in Seq(Byte) /\ bd \in Seq(Byte) /\ c \in Seq(Byte) /\ Cat(hd, bd) = Bytes(m, n)
  BY Zenon, BytesFacts, ContentFacts
<1>2. PICK h \in Write(b, hd) : \E w \in Write(h.b, bd) : x = [b |-> w.b, ok |-> h.ok /\ w.ok]
  BY Zenon DEF PlainEncode
<1>3. PICK w \in Write(h.b, bd) : x = [b |-> w.b, ok |-> h.ok /\ w.ok]
  BY Zenon, <1>2
<1> HIDE DEF hd, bd, c
<1>4. /\ h.b \in Buffer(Byte) /\ Ordered(h.b) /\ h.ok \in BOOLEAN /\ (h.ok => Content(h.b) = Cat(c, hd))
  BY Zenon, <1>1, WriteCat DEF c
<1>5. /\ w.b \in Buffer(Byte) /\ Ordered(w.b) /\ w.ok \in BOOLEAN
      /\ w.ok => Content(w.b) = Cat(Content(h.b), bd)
  BY Zenon, <1>1, <1>4, WriteCat
<1>6. Cat(Cat(c, hd), bd) = Cat(c, Bytes(m, n))
  BY <1>1, Assoc
<1>7. x.b = w.b /\ x.ok = (h.ok /\ w.ok)
  BY Zenon, <1>3
<1>8. x.ok \in BOOLEAN
  BY <1>4, <1>5, <1>7, Zenon
<1>9. x.ok => Content(x.b) = Cat(c, Bytes(m, n))
  BY Zenon, <1>4, <1>5, <1>6, <1>7
<1> QED
  BY Zenon, <1>5, <1>7, <1>8, <1>9 DEF c

\* WriteFD never writes more than there is.
LEMMA WriteLensFacts ==
  ASSUME NEW b \in Buffer(Byte), Ordered(b), wire \in Seq(Byte), NEW k \in WriteLens(b)
  PROVE  k \in 0 .. ReadableBytes(b)
<1>1. ReadableBytes(b) \in Nat /\ Len(wire) \in Nat
  BY Zenon, ContentFacts, LenProperties
<1> QED
  BY <1>1, FrameAssumption DEF WriteLens, Space, Least
-----------------------------------------------------------------------------

Whole == All(eaten, Content(recv), wire, Content(send), Waiting)

\* Only a Worker's connection to a Worker has a handshake, during which none of these
\* messages is written; and a closed connection has nothing left to send.
InHandshake == link = <<"worker", "worker">> /\ armed = FALSE

Phases ==
  /\ up \/ InHandshake
  /\ ~ torn /\ conn = "closed" => Content(wait) = <<>> /\ Content(send) = <<>>

Intact == ~ torn => /\ Begins(Whole, stream)
                    /\ conn = "open" => Whole = stream

IInv == TypeOK /\ InBounds /\ Phases /\ Intact

\* The buffers of a stream that is not torn.
LEMMA Contents ==
  ASSUME IInv, ~ torn
  PROVE  /\ wait \in Buffer(Byte) /\ Ordered(wait) /\ Content(wait) \in Seq(Byte)
         /\ send \in Buffer(Byte) /\ Ordered(send) /\ Content(send) \in Seq(Byte)
         /\ recv \in Buffer(Byte) /\ Ordered(recv) /\ Content(recv) \in Seq(Byte)
         /\ wire \in Seq(Byte) /\ eaten \in Seq(Byte) /\ stream \in Seq(Byte) /\ Waiting \in Seq(Byte)
<1>1. /\ wait \in Buffer(Byte) /\ Ordered(wait) /\ send \in Buffer(Byte) /\ Ordered(send)
      /\ recv \in Buffer(Byte) /\ Ordered(recv)
      /\ wire \in Seq(Byte) /\ eaten \in Seq(Byte) /\ stream \in Seq(Byte)
  BY Zenon DEF IInv, TypeOK, InBounds
<1> QED
  BY Zenon, <1>1, ContentFacts, JoinedEmpty DEF Waiting

\* A new buffer.
LEMMA NewBuffer ==
  CBufferNew \in Buffer(Byte) /\ Ordered(CBufferNew) /\ Content(CBufferNew) = <<>>
<1>1. <<>> \in Seq(Byte) /\ Len(<<>>) = 0
  BY Zenon, EmptySeq
<1>2. CBufferNew.mem = <<>> /\ CBufferNew.r = 0 /\ CBufferNew.len = 0
  BY Zenon DEF CBufferNew
<1>3. CBufferNew \in Buffer(Byte)
  BY Zenon, <1>1 DEF CBufferNew, Buffer
<1>4. Ordered(CBufferNew)
  BY <1>1, <1>2 DEF Ordered
<1>5. Len(Content(CBufferNew)) = 0 /\ Content(CBufferNew) \in Seq(Byte)
  BY <1>1, <1>2, <1>3, <1>4, ContentFacts
<1>6. Content(CBufferNew) = <<>>
  BY Zenon, <1>5, EmptySeq
<1> QED
  BY Zenon, <1>3, <1>4, <1>6

\* Nothing is left when all is skipped.
LEMMA SkipAll ==
  ASSUME NEW b \in Buffer(Byte), Ordered(b)
  PROVE  LET x == SkipBytes(b, ReadableBytes(b))
         IN  x \in Buffer(Byte) /\ Ordered(x) /\ Content(x) = <<>>
<1> DEFINE k == ReadableBytes(b)
           x == SkipBytes(b, k)
<1>1. k \in Nat /\ k = Len(b.mem) - b.r /\ Len(b.mem) \in Nat /\ b.r \in Nat
  BY Zenon, ContentFacts, MemFacts, LenProperties
<1>2. k \in 0 .. ReadableBytes(b)
  BY <1>1
<1>3. x.r = b.r + k /\ x.mem = b.mem
  BY Zenon DEF SkipBytes
<1> HIDE DEF k
<1>4. x \in Buffer(Byte) /\ Ordered(x)
  BY Zenon, <1>2, SkipFacts
<1> HIDE DEF x
<1>5. Content(x) \in Seq(Byte) /\ Len(Content(x)) = Len(x.mem) - x.r
  BY Zenon, <1>4, ContentFacts
<1>6. Len(Content(x)) = 0
  BY <1>1, <1>3, <1>5
<1>7. Content(x) = <<>>
  BY Zenon, <1>5, <1>6, EmptySeq
<1> QED
  BY Zenon, <1>4, <1>7 DEF x, k

\* One WriteFD from the buffer b, compacted or not: the bytes only move.
LEMMA WriteStep ==
  ASSUME NEW e \in Seq(Byte), NEW r \in Seq(Byte), wire \in Seq(Byte), NEW t \in Seq(Byte),
         NEW b \in Buffer(Byte), Ordered(b), NEW k \in WriteLens(b), NEW least,
         Written(b, k), send' = Compact(SkipBytes(b, k), least) \/ send' = SkipBytes(b, k)
  PROVE  /\ wire' \in Seq(Byte) /\ send' \in Buffer(Byte) /\ Ordered(send')
         /\ All(e, r, wire', Content(send'), t) = All(e, r, wire, Content(b), t)
<1> DEFINE p == SubSeq(Content(b), 1, k)
           q == Content(SkipBytes(b, k))
<1>1. k \in 0 .. ReadableBytes(b)
  BY Zenon, WriteLensFacts
<1>2. /\ SkipBytes(b, k) \in Buffer(Byte) /\ Ordered(SkipBytes(b, k))
      /\ p \in Seq(Byte) /\ q \in Seq(Byte) /\ Cat(p, q) = Content(b)
  BY Zenon, <1>1, SkipFacts DEF Cat
<1>3. wire' = Cat(wire, p)
  BY Zenon DEF Written, Cat
<1> HIDE DEF p
<1>4. send' \in Buffer(Byte) /\ Ordered(send') /\ Content(send') = q
  BY <1>2, CompactFacts
<1> HIDE DEF q
<1>5. All(e, r, Cat(wire, p), q, t) = All(e, r, wire, Cat(p, q), t)
  BY <1>2, AllWritten
<1>6. wire' \in Seq(Byte)
  BY Zenon, <1>2, <1>3, Joined
<1> QED
  BY Zenon, <1>2, <1>3, <1>4, <1>5, <1>6

\* What is left to show of a step on an open connection, and of one that tears the stream.
LEMMA OpenStep ==
  ASSUME TypeOK', Ordered(wait'), Ordered(send'), Ordered(recv'), conn' = "open",
         up' \/ InHandshake', Whole' = stream'
  PROVE  IInv'
<1>1. stream' \in Seq(Byte)
  BY Zenon DEF TypeOK
<1>2. Begins(stream', stream')
  BY Zenon, <1>1, BeginsFacts
<1>3. Intact'
  BY Zenon, <1>2 DEF Intact
<1>4. Phases' /\ InBounds'
  BY Zenon DEF Phases, InBounds
<1> QED
  BY Zenon, <1>3, <1>4 DEF IInv

LEMMA TornStep ==
  ASSUME TypeOK', torn', up' \/ InHandshake'
  PROVE  IInv'
BY Zenon DEF IInv, InBounds, Phases, Intact

\* The event is a Boolean after each write.
LEMMA ArmedFacts ==
  ASSUME armed \in BOOLEAN, NEW b, NEW k
  PROVE  /\ Listening(b, k) => armed' \in BOOLEAN /\ direct' \in BOOLEAN
         /\ ArmedAfterManager(b, k) \in BOOLEAN
<1>1. ArmedAfter(b, k) \in BOOLEAN
  <2>1. CASE ReadableBytes(b) = 0
    BY Zenon, <2>1 DEF ArmedAfter
  <2>2. CASE ReadableBytes(b) # 0
    BY <2>2 DEF ArmedAfter
  <2> QED
    BY Zenon, <2>1, <2>2
<1>2. ArmedAfterManager(b, k) \in BOOLEAN
  <2>1. CASE ReadableBytes(b) = 0
    BY Zenon, <2>1 DEF ArmedAfterManager
  <2>2. CASE ReadableBytes(b) # 0
    BY Zenon, <2>2 DEF ArmedAfterManager
  <2> QED
    BY Zenon, <2>1, <2>2
<1>3. Listening(b, k) => armed' \in BOOLEAN /\ direct' \in BOOLEAN
  BY Zenon, <1>1 DEF Listening
<1> QED
  BY Zenon, <1>2, <1>3

\* One attempt to write, from a buffer to which the bytes a were appended, or nothing.
LEMMA WrittenStep ==
  ASSUME IInv, ~ torn, conn = "open", up, NEW a \in Seq(Byte),
         NEW b \in Buffer(Byte), Ordered(b), Content(b) = Cat(Content(send), a),
         NEW k \in WriteLens(b), NEW least,
         Written(b, k), send' = Compact(SkipBytes(b, k), least) \/ send' = SkipBytes(b, k),
         stream' = Cat(stream, a), nMsg' \in Nat, armed' \in BOOLEAN, direct' \in BOOLEAN,
         wait' \in Buffer(Byte), Ordered(wait'),
         UNCHANGED <<link, up, gaveUp, conn, receiving, torn>>
  PROVE  IInv'
<1> DEFINE e == eaten
           r == Content(recv)
           s == Content(send)
<1>1. /\ e \in Seq(Byte) /\ r \in Seq(Byte) /\ wire \in Seq(Byte) /\ s \in Seq(Byte)
      /\ stream \in Seq(Byte) /\ Ordered(recv)
  BY Zenon, Contents
<1>2. recv' = recv /\ rcv' = rcv /\ got' = got /\ eaten' = eaten
  BY Zenon DEF receiving
<1>3. PICK z \in Seq(Byte) : z = <<>>
  BY Zenon, JoinedEmpty
<1>4. All(e, r, wire, s, z) = stream /\ Waiting' = z
  BY Zenon, <1>3 DEF IInv, Intact, Whole, Waiting
<1> HIDE DEF e, r, s
<1>5. /\ wire' \in Seq(Byte) /\ send' \in Buffer(Byte) /\ Ordered(send')
      /\ All(e, r, wire', Content(send'), z) = All(e, r, wire, Content(b), z)
  BY <1>1, WriteStep
<1>6. All(e, r, wire, Content(b), z) = Cat(stream, a)
  BY <1>1, <1>3, <1>4, AllSent DEF s
<1>7. Whole' = stream'
  BY Zenon, <1>2, <1>4, <1>5, <1>6 DEF Whole, e, r
<1>8. stream' \in Seq(Byte)
  BY Zenon, <1>1, Joined
<1>9. TypeOK'
  BY Zenon, <1>2, <1>5, <1>8 DEF IInv, TypeOK
<1> QED
  BY Zenon, <1>1, <1>2, <1>5, <1>7, <1>9, OpenStep

\* The same where what waits stays.
LEMMA SentStep ==
  ASSUME IInv, ~ torn, conn = "open", up, NEW a \in Seq(Byte),
         NEW b \in Buffer(Byte), Ordered(b), Content(b) = Cat(Content(send), a),
         NEW k \in WriteLens(b), NEW least,
         Written(b, k), send' = Compact(SkipBytes(b, k), least) \/ send' = SkipBytes(b, k),
         stream' = Cat(stream, a), nMsg' \in Nat, armed' \in BOOLEAN, direct' \in BOOLEAN,
         UNCHANGED <<link, up, gaveUp, wait, conn, receiving, torn>>
  PROVE  IInv'
<1>1. wait \in Buffer(Byte) /\ Ordered(wait)
  BY Zenon, Contents
<1>2. wait' \in Buffer(Byte) /\ Ordered(wait')
  BY Zenon, <1>1
<1> QED
  BY Zenon, <1>2, WrittenStep

\* The connection is usable and what waits is left behind.
LEMMA LeftBehindStep ==
  ASSUME IInv, Sending, ~ up, LeftBehind, gaveUp' \in BOOLEAN,
         UNCHANGED <<link, conn, nMsg, receiving, torn>>
  PROVE  IInv'
<1> DEFINE t == Content(wait)
           q == All(eaten, Content(recv), wire, Content(send), <<>>)
<1>1. /\ ~ torn /\ conn = "open" /\ up' = TRUE /\ wait' = wait /\ send' = send /\ armed' = armed
      /\ direct' = direct /\ wire' = wire /\ recv' = recv /\ rcv' = rcv /\ got' = got /\ eaten' = eaten
      /\ stream' = SubSeq(stream, 1, Len(stream) - ReadableBytes(wait))
  BY Zenon DEF Sending, LeftBehind, receiving
<1>2. /\ wait \in Buffer(Byte) /\ Ordered(wait) /\ Ordered(send) /\ Ordered(recv) /\ t \in Seq(Byte)
      /\ Content(send) \in Seq(Byte) /\ Content(recv) \in Seq(Byte) /\ wire \in Seq(Byte) /\ eaten \in Seq(Byte)
  BY Zenon, <1>1, Contents
<1>3. stream = All(eaten, Content(recv), wire, Content(send), t)
  BY Zenon, <1>1 DEF IInv, Intact, Whole, Waiting
<1>4. PICK z \in Seq(Byte) : z = <<>>
  BY Zenon, JoinedEmpty
<1>5. All(eaten, Content(recv), wire, Content(send), Cat(z, t))
        = Cat(All(eaten, Content(recv), wire, Content(send), z), t)
  <2> HIDE DEF t
  <2> QED
    BY <1>2, AllAppended
<1>6. stream = q \o t /\ q \in Seq(Byte)
  BY Zenon, <1>2, <1>3, <1>4, <1>5, JoinedEmpty, AllType DEF Cat
<1>7. ReadableBytes(wait) = Len(t) /\ Len(t) \in Nat /\ Len(q) \in Nat
  BY Zenon, <1>2, <1>6, ContentFacts, LenProperties
<1>8. Whole' = q
  BY Zenon, <1>1 DEF Whole, Waiting
<1> HIDE DEF q, t
<1>9. Len(stream) = Len(q) + Len(t) /\ SubSeq(stream, 1, Len(q)) = q
  <2>1. t \in Seq(Byte) /\ q \in Seq(Byte)
    BY Zenon, <1>2, <1>6
  <2>2. Len(q \o t) = Len(q) + Len(t) /\ SubSeq(q \o t, 1, Len(q)) = q
    BY <2>1, CutWhereJoined
  <2> QED
    BY Zenon, <1>6, <2>2
<1>10. Len(stream) - ReadableBytes(wait) = Len(q)
  BY <1>7, <1>9
<1>11. stream' = q
  BY Zenon, <1>1, <1>9, <1>10
<1>12. TypeOK'
  BY Zenon, <1>1, <1>6, <1>11 DEF IInv, TypeOK
<1> QED
  BY Zenon, <1>1, <1>2, <1>8, <1>11, <1>12, OpenStep

\* The message Taken.
LEMMA TakenFacts ==
  ASSUME IInv, NEW n \in Bodies
  PROVE  /\ nMsg + 1 \in Nat /\ n \in Nat /\ Bytes(nMsg + 1, n) \in Seq(Byte)
         /\ Taken(n) => nMsg' \in Nat /\ stream' = Cat(stream, Bytes(nMsg + 1, n))
<1>1. nMsg \in Nat /\ n \in Nat
  BY Zenon, FrameAssumption DEF IInv, TypeOK
<1>3. nMsg + 1 \in Nat
  BY <1>1
<1>4. Bytes(nMsg + 1, n) \in Seq(Byte)
  BY Zenon, <1>1, <1>3, BytesFacts
<1>5. Taken(n) => nMsg' \in Nat /\ stream' = Cat(stream, Bytes(nMsg + 1, n))
  BY Zenon, <1>3 DEF Taken, Cat
<1> QED
  BY Zenon, <1>1, <1>3, <1>4, <1>5

\* A message refused by a Worker leaves the stream as it is.
LEMMA RejectedStep ==
  ASSUME IInv, ~ torn, conn = "open", NEW x, Rejected(x, FALSE), NEW b \in Buffer(Byte), Ordered(b),
         \/ send' = b /\ wait' = wait /\ Content(b) = Content(send)
         \/ wait' = b /\ send' = send /\ Content(b) = Content(wait)
  PROVE  IInv'
<1>1. /\ link' = link /\ up' = up /\ gaveUp' = gaveUp /\ armed' = armed /\ direct' = direct /\ wire' = wire /\ conn' = conn
      /\ nMsg' = nMsg /\ stream' = stream /\ recv' = recv /\ rcv' = rcv /\ got' = got /\ eaten' = eaten
      /\ torn' = FALSE
  BY Zenon DEF Rejected, receiving
<1>2. Content(send') = Content(send) /\ Content(wait') = Content(wait)
  BY Zenon
<1>3. Ordered(wait) /\ Ordered(send) /\ Ordered(recv)
  BY Zenon, Contents
<1>4. Ordered(wait') /\ Ordered(send')
  BY Zenon, <1>3
<1>5. Whole' = stream'
  BY Zenon, <1>1, <1>2 DEF Whole, Waiting, IInv, Intact
<1>6. TypeOK'
  BY Zenon, <1>1 DEF IInv, TypeOK
<1>7. up' \/ InHandshake'
  BY Zenon, <1>1 DEF IInv, Phases, InHandshake
<1> QED
  BY Zenon, <1>1, <1>3, <1>4, <1>5, <1>6, <1>7, OpenStep
-----------------------------------------------------------------------------
(***************************************************************************)
(* One lemma per action.                                                   *)
(***************************************************************************)
LEMMA SendToStep ==
  ASSUME IInv, NEW n \in Bodies, SendTo(n)
  PROVE  IInv'
<1>1. ~ torn /\ conn = "open"
  BY Zenon DEF SendTo, MayTake, Sending
<1>2. /\ wait \in Buffer(Byte) /\ Ordered(wait) /\ send \in Buffer(Byte) /\ Ordered(send) /\ recv \in Buffer(Byte)
      /\ Ordered(recv) /\ wire \in Seq(Byte) /\ eaten \in Seq(Byte) /\ stream \in Seq(Byte) /\ armed \in BOOLEAN
      /\ Content(wait) \in Seq(Byte) /\ Content(send) \in Seq(Byte) /\ Content(recv) \in Seq(Byte)
  BY Zenon, <1>1, Contents DEF IInv, TypeOK
<1>3. /\ nMsg + 1 \in Nat /\ n \in Nat /\ Bytes(nMsg + 1, n) \in Seq(Byte)
      /\ Taken(n) => nMsg' \in Nat /\ stream' = Cat(stream, Bytes(nMsg + 1, n))
  BY Zenon, <1>1, TakenFacts
<1>4. CASE up
  <2>1. PICK x \in Encode(send, nMsg + 1, n) :
          \/ Rejected(x, FALSE) /\ send' = x.b /\ UNCHANGED wait
          \/ /\ x.ok /\ Taken(n)
             /\ \E k \in WriteLens(x.b) :
                  Written(x.b, k) /\ send' = Compact(SkipBytes(x.b, k), Keep) /\ Listening(x.b, k)
             /\ UNCHANGED <<link, up, gaveUp, wait, conn, receiving, torn>>
    BY Zenon, <1>4 DEF SendTo
  <2>2. /\ x.b \in Buffer(Byte) /\ Ordered(x.b)
        /\ x.ok => Content(x.b) = Cat(Content(send), Bytes(nMsg + 1, n))
        /\ ~ x.ok => Content(x.b) = Content(send)
    BY <1>2, <1>3, EncodeFacts
  <2>3. CASE Rejected(x, FALSE) /\ send' = x.b /\ UNCHANGED wait
    <3>1. ~ x.ok
      BY Zenon, <2>3 DEF Rejected
    <3> QED
      BY Zenon, <1>1, <2>2, <2>3, <3>1, RejectedStep
  <2>4. CASE /\ x.ok /\ Taken(n)
             /\ \E k \in WriteLens(x.b) :
                  Written(x.b, k) /\ send' = Compact(SkipBytes(x.b, k), Keep) /\ Listening(x.b, k)
             /\ UNCHANGED <<link, up, gaveUp, wait, conn, receiving, torn>>
    <3>1. PICK k \in WriteLens(x.b) :
            Written(x.b, k) /\ send' = Compact(SkipBytes(x.b, k), Keep) /\ Listening(x.b, k)
      BY Zenon, <2>4
    <3>2. armed' \in BOOLEAN /\ direct' \in BOOLEAN
      BY Zenon, <1>2, <3>1, ArmedFacts
    <3> QED
      BY Zenon, <1>1, <1>3, <1>4, <2>2, <2>4, <3>1, <3>2, SentStep
  <2> QED
    BY Zenon, <2>1, <2>3, <2>4
<1>5. CASE ~ up
  <2>1. PICK x \in Encode(wait, nMsg + 1, n) :
          \/ Rejected(x, FALSE) /\ wait' = x.b /\ UNCHANGED send
          \/ /\ x.ok /\ Taken(n) /\ wait' = x.b
             /\ UNCHANGED <<link, up, gaveUp, send, armed, direct, wire, conn, receiving, torn>>
    BY Zenon, <1>5 DEF SendTo
  <2>2. /\ x.b \in Buffer(Byte) /\ Ordered(x.b)
        /\ x.ok => Content(x.b) = Cat(Content(wait), Bytes(nMsg + 1, n))
        /\ ~ x.ok => Content(x.b) = Content(wait)
    BY <1>2, <1>3, EncodeFacts
  <2>3. CASE Rejected(x, FALSE) /\ wait' = x.b /\ UNCHANGED send
    <3>1. ~ x.ok
      BY Zenon, <2>3 DEF Rejected
    <3> QED
      BY Zenon, <1>1, <2>2, <2>3, <3>1, RejectedStep
  <2>4. CASE /\ x.ok /\ Taken(n) /\ wait' = x.b
             /\ UNCHANGED <<link, up, gaveUp, send, armed, direct, wire, conn, receiving, torn>>
    <3>1. /\ link' = link /\ up' = up /\ gaveUp' = gaveUp /\ send' = send /\ armed' = armed /\ direct' = direct /\ wire' = wire
          /\ conn' = conn /\ torn' = torn /\ recv' = recv /\ rcv' = rcv /\ got' = got /\ eaten' = eaten
      BY Zenon, <2>4 DEF receiving
    <3>2. Whole = stream /\ (up \/ InHandshake)
      BY Zenon, <1>1 DEF IInv, Intact, Phases
    <3> DEFINE a == Bytes(nMsg + 1, n)
               t == Waiting
               s == Content(send)
               r == Content(recv)
    <3>3. Whole' = Cat(Whole, a)
      <4>1. a \in Seq(Byte) /\ t \in Seq(Byte) /\ s \in Seq(Byte) /\ r \in Seq(Byte) /\ wire \in Seq(Byte) /\ eaten \in Seq(Byte)
        BY Zenon, <1>1, <1>2, <1>3, Contents
      <4>0. Waiting = Content(wait) /\ Waiting' = Content(wait')
        BY Zenon, <1>5, <3>1 DEF Waiting
      <4>2. Whole' = All(eaten, r, wire, s, Cat(t, a))
        BY Zenon, <2>2, <2>4, <3>1, <4>0 DEF Whole
      <4>3. Whole = All(eaten, r, wire, s, t)
        BY Zenon DEF Whole
      <4> HIDE DEF a, t, s, r
      <4>4. All(eaten, r, wire, s, Cat(t, a)) = Cat(All(eaten, r, wire, s, t), a)
        BY <4>1, AllAppended
      <4> QED
        BY Zenon, <4>2, <4>3, <4>4
    <3>4. Whole' = stream' /\ stream' \in Seq(Byte) /\ nMsg' \in Nat
      BY Zenon, <1>2, <1>3, <2>4, <3>2, <3>3, Joined
    <3>5. TypeOK'
      BY Zenon, <2>2, <2>4, <3>1, <3>4 DEF IInv, TypeOK
    <3>6. /\ Ordered(wait') /\ Ordered(send') /\ Ordered(recv') /\ conn' = "open"
          /\ up' \/ InHandshake'
      <4>1. up' \/ InHandshake'
        BY Zenon, <3>1, <3>2 DEF InHandshake
      <4> QED
        BY Zenon, <1>1, <1>2, <2>2, <2>4, <3>1, <4>1
    <3> QED
      BY Zenon, <3>4, <3>5, <3>6, OpenStep
  <2> QED
    BY Zenon, <2>1, <2>3, <2>4
<1> QED
  BY Zenon, <1>4, <1>5

LEMMA EstablishedStep ==
  ASSUME IInv, Established
  PROVE  IInv'
<1> DEFINE s == Content(send)
           t == Content(wait)
           r == Content(recv)
<1>1. ~ torn /\ conn = "open" /\ ~ up /\ UNCHANGED <<link, conn, nMsg, receiving, torn>>
  BY Zenon DEF Established, Sending
<1>2. /\ wait \in Buffer(Byte) /\ Ordered(wait) /\ send \in Buffer(Byte) /\ Ordered(send)
      /\ Ordered(recv) /\ wire \in Seq(Byte) /\ eaten \in Seq(Byte) /\ stream \in Seq(Byte) /\ armed \in BOOLEAN
      /\ t \in Seq(Byte) /\ s \in Seq(Byte) /\ r \in Seq(Byte)
  BY Zenon, <1>1, Contents DEF IInv, TypeOK
<1>3. PICK x \in Write(send, t) :
        \/ up' = TRUE /\ Flushed(x) /\ UNCHANGED <<gaveUp, stream>>
        \/ ~ x.ok /\ gaveUp' = TRUE /\ LeftBehind
  BY Zenon DEF Established
<1>4. recv' = recv /\ rcv' = rcv /\ got' = got /\ eaten' = eaten
  BY Zenon, <1>1 DEF receiving
<1>5. CASE gaveUp' = TRUE /\ LeftBehind
  BY Zenon, <1>1, <1>5, LeftBehindStep DEF Sending
<1>6. CASE up' = TRUE /\ Flushed(x) /\ UNCHANGED <<gaveUp, stream>>
  <2>0. x.ok /\ wait' = SkipBytes(wait, ReadableBytes(wait))
    BY Zenon, <1>6 DEF Flushed
  <2>1. PICK k \in WriteLens(x.b) :
          Written(x.b, k) /\ send' = Compact(SkipBytes(x.b, k), Keep) /\ Listening(x.b, k)
    BY Zenon, <1>6 DEF Flushed
  <2>2. x.b \in Buffer(Byte) /\ Ordered(x.b) /\ Content(x.b) = Cat(s, t)
    BY Zenon, <1>2, <2>0, WriteCat
  <2>3. wait' \in Buffer(Byte) /\ Ordered(wait') /\ Content(wait') = <<>>
    BY Zenon, <1>2, <2>0, SkipAll
  <2>4. armed' \in BOOLEAN /\ direct' \in BOOLEAN
    BY Zenon, <1>2, <2>1, ArmedFacts
  <2>5. All(eaten, r, wire, s, t) = stream
    BY Zenon, <1>1 DEF IInv, Intact, Whole, Waiting
  <2> HIDE DEF r, s, t
  <2>6. PICK z \in Seq(Byte) : z = <<>>
    BY Zenon, JoinedEmpty
  <2>7. /\ wire' \in Seq(Byte) /\ send' \in Buffer(Byte) /\ Ordered(send')
        /\ All(eaten, r, wire', Content(send'), z) = All(eaten, r, wire, Content(x.b), z)
    BY <1>2, <2>1, <2>2, WriteStep
  <2>8. All(eaten, r, wire, Cat(s, t), z) = stream
    BY <1>2, <2>5, <2>6, AllFlushed
  <2>9. Whole' = stream'
    BY Zenon, <1>4, <1>6, <2>2, <2>6, <2>7, <2>8 DEF Whole, Waiting, r
  <2>10. TypeOK'
    BY Zenon, <1>1, <1>4, <1>6, <2>3, <2>4, <2>7 DEF IInv, TypeOK
  <2> QED
    BY Zenon, <1>1, <1>2, <1>4, <1>6, <2>3, <2>7, <2>9, <2>10, OpenStep
<1> QED
  BY Zenon, <1>3, <1>5, <1>6

LEMMA GiveUpStep ==
  ASSUME IInv, GiveUp
  PROVE  IInv'
<1>1. /\ link' = link /\ up' = up /\ gaveUp' = TRUE /\ wait' = wait /\ send' = send /\ armed' = armed
      /\ direct' = direct /\ nMsg' = nMsg /\ stream' = stream /\ wire' = wire /\ conn' = conn /\ torn' = torn
      /\ recv' = recv /\ rcv' = rcv /\ got' = got /\ eaten' = eaten
  BY Zenon DEF GiveUp, receiving
<1>2. Whole' = Whole
  BY Zenon, <1>1 DEF Whole, Waiting
<1>3. TypeOK'
  BY Zenon, <1>1 DEF IInv, TypeOK
<1>4. InBounds' /\ Phases'
  BY Zenon, <1>1 DEF IInv, InBounds, Phases, InHandshake
<1>5. Intact'
  BY Zenon, <1>1, <1>2 DEF IInv, Intact
<1> QED
  BY Zenon, <1>3, <1>4, <1>5 DEF IInv

LEMMA LateTellStep ==
  ASSUME IInv, LateTell
  PROVE  IInv'
<1>1. Sending /\ ~ up /\ LeftBehind /\ UNCHANGED <<link, conn, nMsg, receiving, torn>> /\ gaveUp' = gaveUp
  BY Zenon DEF LateTell
<1>2. gaveUp' \in BOOLEAN
  BY Zenon, <1>1 DEF IInv, TypeOK
<1> QED
  BY Zenon, <1>1, <1>2, LeftBehindStep

LEMMA AnswerStep ==
  ASSUME IInv, NEW n \in Bodies, Answer(n)
  PROVE  IInv'
<1>1. ~ torn /\ conn = "open" /\ up
  BY Zenon DEF Answer, MayTake, Sending
<1>2. send \in Buffer(Byte) /\ Ordered(send) /\ armed \in BOOLEAN
  BY Zenon, <1>1, Contents DEF IInv, TypeOK
<1>3. /\ nMsg + 1 \in Nat /\ n \in Nat /\ Bytes(nMsg + 1, n) \in Seq(Byte)
      /\ Taken(n) => nMsg' \in Nat /\ stream' = Cat(stream, Bytes(nMsg + 1, n))
  BY Zenon, <1>1, TakenFacts
<1>4. PICK x \in Encode(send, nMsg + 1, n) :
        \/ Rejected(x, FALSE) /\ send' = x.b /\ UNCHANGED wait
        \/ /\ x.ok /\ Taken(n)
           /\ \E k \in WriteLens(x.b) :
                /\ Written(x.b, k) /\ send' = Compact(SkipBytes(x.b, k), Keep)
                /\ direct' = (~ armed /\ k < ReadableBytes(x.b))
           /\ UNCHANGED <<link, up, gaveUp, wait, armed, conn, receiving, torn>>
  BY Zenon DEF Answer
<1>5. /\ x.b \in Buffer(Byte) /\ Ordered(x.b)
      /\ x.ok => Content(x.b) = Cat(Content(send), Bytes(nMsg + 1, n))
      /\ ~ x.ok => Content(x.b) = Content(send)
  BY <1>2, <1>3, EncodeFacts
<1>6. CASE Rejected(x, FALSE) /\ send' = x.b /\ UNCHANGED wait
  <2>1. ~ x.ok
    BY Zenon, <1>6 DEF Rejected
  <2> QED
    BY Zenon, <1>1, <1>5, <1>6, <2>1, RejectedStep
<1>7. CASE /\ x.ok /\ Taken(n)
           /\ \E k \in WriteLens(x.b) :
                /\ Written(x.b, k) /\ send' = Compact(SkipBytes(x.b, k), Keep)
                /\ direct' = (~ armed /\ k < ReadableBytes(x.b))
           /\ UNCHANGED <<link, up, gaveUp, wait, armed, conn, receiving, torn>>
  <2>1. PICK k \in WriteLens(x.b) :
          /\ Written(x.b, k) /\ send' = Compact(SkipBytes(x.b, k), Keep)
          /\ direct' = (~ armed /\ k < ReadableBytes(x.b))
    BY Zenon, <1>7
  <2>2. armed' \in BOOLEAN /\ direct' \in BOOLEAN
    BY Zenon, <1>2, <1>7, <2>1
  <2>3. /\ stream' = Cat(stream, Bytes(nMsg + 1, n)) /\ nMsg' \in Nat
        /\ UNCHANGED <<link, up, gaveUp, wait, conn, receiving, torn>>
    BY Zenon, <1>3, <1>7
  <2> QED
    BY Zenon, <1>1, <1>3, <1>5, <1>7, <2>1, <2>2, <2>3, SentStep
<1> QED
  BY Zenon, <1>4, <1>6, <1>7

\* What SendToParent and SendToWorker have in common.
LEMMA PlainStep ==
  ASSUME IInv, Sending, NEW n \in Bodies, link # <<"worker", "worker">>,
         NEW x \in PlainEncode(send, nMsg + 1, n), TakenIfWhole(n, x),
         NEW k \in WriteLens(x.b), NEW least, Written(x.b, k), send' = Compact(SkipBytes(x.b, k), least),
         armed' \in BOOLEAN, direct' \in BOOLEAN, UNCHANGED <<link, up, gaveUp, wait, conn, receiving>>
  PROVE  IInv'
<1>1. ~ torn /\ torn = FALSE /\ conn = "open" /\ up
  BY Zenon DEF Sending, IInv, TypeOK, Phases, InHandshake
<1>2. send \in Buffer(Byte) /\ Ordered(send) /\ Content(send) \in Seq(Byte) /\ stream \in Seq(Byte)
  BY Zenon, <1>1, Contents
<1>3. /\ nMsg + 1 \in Nat /\ n \in Nat /\ Bytes(nMsg + 1, n) \in Seq(Byte)
      /\ Taken(n) => nMsg' \in Nat /\ stream' = Cat(stream, Bytes(nMsg + 1, n))
  BY Zenon, TakenFacts
<1>4. /\ x.b \in Buffer(Byte) /\ Ordered(x.b)
      /\ x.ok => Content(x.b) = Cat(Content(send), Bytes(nMsg + 1, n))
  BY Zenon, <1>2, <1>3, PlainEncodeFacts
<1>5. CASE x.ok
  <2>1. Taken(n) /\ torn' = torn
    BY Zenon, <1>1, <1>5 DEF TakenIfWhole
  <2>2. /\ stream' = Cat(stream, Bytes(nMsg + 1, n)) /\ nMsg' \in Nat
        /\ UNCHANGED <<link, up, gaveUp, wait, conn, receiving, torn>>
    BY Zenon, <1>3, <2>1
  <2> QED
    BY Zenon, <1>1, <1>3, <1>4, <1>5, <2>2, SentStep
<1>6. CASE ~ x.ok /\ Content(x.b) = Content(send)
  <2>1. nMsg' = nMsg /\ stream' = stream /\ torn' = torn
    BY Zenon, <1>1, <1>6 DEF TakenIfWhole
  <2>2. PICK z \in Seq(Byte) : z = <<>>
    BY Zenon, JoinedEmpty
  <2>3. /\ stream' = Cat(stream, z) /\ Content(x.b) = Cat(Content(send), z)
        /\ UNCHANGED <<link, up, gaveUp, wait, conn, receiving, torn>>
    BY Zenon, <1>2, <1>6, <2>1, <2>2, JoinedEmpty
  <2>4. nMsg' \in Nat
    BY Zenon, <2>1 DEF IInv, TypeOK
  <2> QED
    BY Zenon, <1>1, <1>4, <2>3, <2>4, SentStep
<1>7. CASE ~ x.ok /\ Content(x.b) # Content(send)
  <2>1. nMsg' = nMsg /\ stream' = stream /\ torn' = TRUE
    BY Zenon, <1>7 DEF TakenIfWhole
  <2>2. wire \in Seq(Byte)
    BY Zenon, <1>1, Contents
  <2>3. PICK z \in Seq(Byte) : z = <<>>
    BY Zenon, JoinedEmpty
  <2>4. wire' \in Seq(Byte) /\ send' \in Buffer(Byte)
    BY Zenon, <1>4, <2>2, <2>3, WriteStep
  <2>5. TypeOK'
    BY Zenon, <2>1, <2>4 DEF IInv, TypeOK, receiving
  <2> QED
    BY Zenon, <1>1, <2>1, <2>5, TornStep
<1> QED
  BY Zenon, <1>5, <1>6, <1>7

LEMMA SendToParentStep ==
  ASSUME IInv, NEW n \in Bodies, SendToParent(n)
  PROVE  IInv'
<1>1. /\ Sending /\ link # <<"worker", "worker">>
      /\ UNCHANGED <<link, up, gaveUp, wait, conn, receiving>> /\ armed' = armed
  BY Zenon DEF SendToParent, MayTake
<1>2. PICK x \in PlainEncode(send, nMsg + 1, n) :
        /\ TakenIfWhole(n, x)
        /\ \E k \in WriteLens(x.b) :
             /\ Written(x.b, k) /\ send' = Compact(SkipBytes(x.b, k), Keep)
             /\ direct' = (~ armed /\ k < ReadableBytes(x.b))
  BY Zenon DEF SendToParent
<1>3. PICK k \in WriteLens(x.b) :
        /\ Written(x.b, k) /\ send' = Compact(SkipBytes(x.b, k), Keep)
        /\ direct' = (~ armed /\ k < ReadableBytes(x.b))
  BY Zenon, <1>2
<1>4. armed' \in BOOLEAN /\ direct' \in BOOLEAN
  BY Zenon, <1>1, <1>3 DEF IInv, TypeOK
<1> QED
  BY Zenon, <1>1, <1>2, <1>3, <1>4, PlainStep

LEMMA SendToWorkerStep ==
  ASSUME IInv, NEW n \in Bodies, SendToWorker(n)
  PROVE  IInv'
<1>1. /\ Sending /\ link # <<"worker", "worker">>
      /\ UNCHANGED <<link, up, gaveUp, wait, conn, receiving>>
  BY Zenon DEF SendToWorker, MayTake
<1>2. PICK x \in PlainEncode(send, nMsg + 1, n) :
        /\ TakenIfWhole(n, x)
        /\ \E k \in WriteLens(x.b) :
             /\ Written(x.b, k) /\ send' = Compact(SkipBytes(x.b, k), KeepManager)
             /\ Listening(x.b, k)
  BY Zenon DEF SendToWorker
<1>3. PICK k \in WriteLens(x.b) :
        /\ Written(x.b, k) /\ send' = Compact(SkipBytes(x.b, k), KeepManager)
        /\ Listening(x.b, k)
  BY Zenon, <1>2
<1>4. armed \in BOOLEAN
  BY Zenon DEF IInv, TypeOK
<1>5. armed' \in BOOLEAN /\ direct' \in BOOLEAN
  BY Zenon, <1>3, <1>4, ArmedFacts
<1> QED
  BY Zenon, <1>1, <1>2, <1>3, <1>5, PlainStep

LEMMA ManagerSendToStep ==
  ASSUME IInv, NEW n \in Bodies, ManagerSendTo(n)
  PROVE  IInv'
<1>1. ~ torn /\ conn = "open" /\ Sender = "manager"
  BY Zenon DEF ManagerSendTo, MayTake, Sending
<1>2. up
  BY <1>1 DEF IInv, Phases, InHandshake, Sender
<1>3. send \in Buffer(Byte) /\ Ordered(send) /\ armed \in BOOLEAN /\ Content(send) \in Seq(Byte)
  BY Zenon, <1>1, Contents DEF IInv, TypeOK
<1>4. /\ nMsg + 1 \in Nat /\ n \in Nat /\ Bytes(nMsg + 1, n) \in Seq(Byte)
      /\ Taken(n) => nMsg' \in Nat /\ stream' = Cat(stream, Bytes(nMsg + 1, n))
  BY Zenon, <1>1, TakenFacts
<1>5. PICK x \in ManagerEncode(send, nMsg + 1, n) :
        \/ Rejected(x, Content(x.b) # Content(send)) /\ send' = x.b /\ UNCHANGED wait
        \/ /\ x.ok /\ Taken(n)
           /\ \E k \in WriteLens(x.b) :
                Written(x.b, k) /\ send' = SkipBytes(x.b, k) /\ Listening(x.b, k)
           /\ UNCHANGED <<link, up, gaveUp, wait, conn, receiving, torn>>
  BY Zenon DEF ManagerSendTo
<1>6. /\ x.b \in Buffer(Byte) /\ Ordered(x.b)
      /\ x.ok => Content(x.b) = Cat(Content(send), Bytes(nMsg + 1, n))
  BY Zenon, <1>3, <1>4, ManagerEncodeFacts
<1>7. CASE Rejected(x, Content(x.b) # Content(send)) /\ send' = x.b /\ UNCHANGED wait
  <2>1. CASE Content(x.b) = Content(send)
    <3>1. Rejected(x, FALSE)
      BY Zenon, <1>7, <2>1 DEF Rejected
    <3> QED
      BY Zenon, <1>1, <1>6, <1>7, <2>1, <3>1, RejectedStep
  <2>2. CASE Content(x.b) # Content(send)
    <3>1. torn' = TRUE /\ UNCHANGED <<link, up, gaveUp, armed, direct, wire, conn, nMsg, stream, receiving>>
      BY Zenon, <1>7, <2>2 DEF Rejected
    <3>2. TypeOK'
      BY Zenon, <1>6, <1>7, <3>1 DEF IInv, TypeOK, receiving
    <3> QED
      BY Zenon, <1>2, <3>1, <3>2, TornStep
  <2> QED
    BY Zenon, <2>1, <2>2
<1>8. CASE /\ x.ok /\ Taken(n)
           /\ \E k \in WriteLens(x.b) :
                Written(x.b, k) /\ send' = SkipBytes(x.b, k) /\ Listening(x.b, k)
           /\ UNCHANGED <<link, up, gaveUp, wait, conn, receiving, torn>>
  <2>1. PICK k \in WriteLens(x.b) : Written(x.b, k) /\ send' = SkipBytes(x.b, k) /\ Listening(x.b, k)
    BY Zenon, <1>8
  <2>2. armed' \in BOOLEAN /\ direct' \in BOOLEAN
    BY Zenon, <1>3, <2>1, ArmedFacts
  <2>3. /\ stream' = Cat(stream, Bytes(nMsg + 1, n)) /\ nMsg' \in Nat
        /\ UNCHANGED <<link, up, gaveUp, wait, conn, receiving, torn>>
    BY Zenon, <1>4, <1>8
  <2> QED
    BY Zenon, <1>1, <1>2, <1>4, <1>6, <1>8, <2>1, <2>2, <2>3, SentStep
<1> QED
  BY Zenon, <1>5, <1>7, <1>8

\* A write event of a Worker with nothing to write: what waits goes behind all others.
LEMMA TakenUpStep ==
  ASSUME IInv, Sending, up, UNCHANGED <<link, up, gaveUp, nMsg, conn, receiving, torn>>,
         NEW x \in Write(Compact(send, Keep), Content(wait)),
         \/ Flushed(x) /\ stream' = stream \o Content(wait)
         \/ ~ x.ok /\ send' = x.b /\ UNCHANGED <<wait, armed, direct, wire, stream>>
  PROVE  IInv'
<1> DEFINE c == Compact(send, Keep)
           t == Content(wait)
<1>1. ~ torn /\ conn = "open"
  BY Zenon DEF Sending
<1>2. /\ wait \in Buffer(Byte) /\ Ordered(wait) /\ Ordered(recv) /\ t \in Seq(Byte) /\ stream \in Seq(Byte)
      /\ c \in Buffer(Byte) /\ Ordered(c) /\ Content(c) = Content(send)
      /\ armed \in BOOLEAN /\ nMsg \in Nat
  BY Zenon, <1>1, Contents, CompactFacts DEF IInv, TypeOK
<1> HIDE DEF c
<1>3. x \in Write(c, t)
  BY Zenon DEF c
<1>4. x.b \in Buffer(Byte) /\ Ordered(x.b)
  BY Zenon, <1>2, <1>3, WriteCat
<1>5. CASE Flushed(x) /\ stream' = stream \o t
  <2>1. x.ok /\ wait' = SkipBytes(wait, ReadableBytes(wait)) /\ stream' = Cat(stream, t)
    BY Zenon, <1>5 DEF Flushed, Cat
  <2>2. PICK k \in WriteLens(x.b) :
          Written(x.b, k) /\ send' = Compact(SkipBytes(x.b, k), Keep) /\ Listening(x.b, k)
    BY Zenon, <1>5 DEF Flushed
  <2>3. Content(x.b) = Cat(Content(c), t)
    <3> HIDE DEF t
    <3> QED
      BY Zenon, <1>2, <1>3, <2>1, WriteCat
  <2>4. wait' \in Buffer(Byte) /\ Ordered(wait')
    BY Zenon, <1>2, <2>1, SkipAll
  <2>5. armed' \in BOOLEAN /\ direct' \in BOOLEAN /\ nMsg' \in Nat
    BY Zenon, <1>2, <2>2, ArmedFacts
  <2> HIDE DEF t
  <2> QED
    BY Zenon, <1>1, <1>2, <1>4, <2>1, <2>2, <2>3, <2>4, <2>5, WrittenStep
<1>6. CASE ~ x.ok /\ send' = x.b /\ UNCHANGED <<wait, armed, direct, wire, stream>>
  <2>1. x.b = c
    BY Zenon, <1>2, <1>3, <1>6, WriteCat
  <2>2. send' \in Buffer(Byte) /\ Ordered(send') /\ Content(send') = Content(send)
    BY Zenon, <1>2, <1>6, <2>1
  <2>3. recv' = recv /\ rcv' = rcv /\ got' = got /\ eaten' = eaten
    BY Zenon DEF receiving
  <2>4. Whole' = stream'
    BY Zenon, <1>1, <1>6, <2>2, <2>3 DEF IInv, Intact, Whole, Waiting
  <2>5. TypeOK'
    BY Zenon, <1>6, <2>2, <2>3 DEF IInv, TypeOK
  <2> QED
    BY Zenon, <1>1, <1>2, <1>6, <2>2, <2>3, <2>4, <2>5, OpenStep
<1> QED
  BY Zenon, <1>5, <1>6

\* A write event that sends what is left.
LEMMA SendsRest ==
  ASSUME IInv, Sending, up, NEW k \in WriteLens(send), Written(send, k),
         send' = Compact(SkipBytes(send, k), Keep) \/ send' = SkipBytes(send, k),
         Listening(send, k) \/ (armed' = ArmedAfterManager(send, k) /\ direct' = direct),
         UNCHANGED <<link, up, gaveUp, wait, nMsg, stream, conn, receiving, torn>>
  PROVE  IInv'
<1>1. ~ torn /\ conn = "open" /\ nMsg' = nMsg /\ stream' = stream
      /\ UNCHANGED <<link, up, gaveUp, wait, conn, receiving, torn>>
  BY Zenon DEF Sending
<1>2. /\ send \in Buffer(Byte) /\ Ordered(send) /\ Content(send) \in Seq(Byte) /\ stream \in Seq(Byte)
      /\ armed \in BOOLEAN /\ direct \in BOOLEAN /\ nMsg' \in Nat
  BY Zenon, <1>1, Contents DEF IInv, TypeOK
<1>3. armed' \in BOOLEAN /\ direct' \in BOOLEAN
  BY Zenon, <1>2, ArmedFacts
<1>4. PICK z \in Seq(Byte) : z = <<>>
  BY Zenon, JoinedEmpty
<1>5. stream' = Cat(stream, z) /\ Content(send) = Cat(Content(send), z)
  BY Zenon, <1>1, <1>2, <1>4, JoinedEmpty
<1> QED
  BY Zenon, <1>1, <1>2, <1>3, <1>4, <1>5, SentStep

LEMMA WorkerIoWriteStep ==
  ASSUME IInv, WorkerIoWrite
  PROVE  IInv'
<1>1. Sending /\ up /\ UNCHANGED <<link, up, gaveUp, nMsg, conn, receiving, torn>>
  BY Zenon DEF WorkerIoWrite, IInv, Phases, InHandshake
<1>2. ASSUME NEW k \in WriteLens(send), Written(send, k), send' = Compact(SkipBytes(send, k), Keep),
             Listening(send, k), UNCHANGED <<wait, stream>>
      PROVE  IInv'
  BY Zenon, <1>1, <1>2, SendsRest
<1>3. ASSUME NEW x \in Write(Compact(send, Keep), Content(wait)),
             \/ Flushed(x) /\ stream' = stream \o Content(wait)
             \/ ~ x.ok /\ send' = x.b /\ UNCHANGED <<wait, armed, direct, wire, stream>>
      PROVE  IInv'
  BY Zenon, <1>1, <1>3, TakenUpStep
<1> QED
  BY Zenon, <1>2, <1>3 DEF WorkerIoWrite

LEMMA ManagerIoWriteStep ==
  ASSUME IInv, ManagerIoWrite
  PROVE  IInv'
<1>1. Sending /\ up /\ UNCHANGED <<link, up, gaveUp, wait, nMsg, stream, conn, receiving, torn>> /\ direct' = direct
  BY Zenon DEF ManagerIoWrite, IInv, Phases, InHandshake
<1>2. PICK k \in WriteLens(send) :
        Written(send, k) /\ send' = SkipBytes(send, k) /\ armed' = ArmedAfterManager(send, k)
  BY Zenon DEF ManagerIoWrite
<1> QED
  BY Zenon, <1>1, <1>2, SendsRest

LEMMA DestroyConnectStep ==
  ASSUME IInv, DestroyConnect
  PROVE  IInv'
<1> DEFINE s == Content(send)
           t == Waiting
           r == Content(recv)
<1>1. /\ ~ torn /\ conn' = "closed" /\ wait' = CBufferNew /\ send' = CBufferNew /\ armed' = FALSE
      /\ direct' = FALSE /\ link' = link /\ up' = up /\ gaveUp' = gaveUp /\ nMsg' = nMsg /\ stream' = stream /\ torn' = torn
      /\ recv' = recv /\ rcv' = rcv /\ got' = got /\ eaten' = eaten
  BY Zenon DEF DestroyConnect, Sending, receiving
<1>2. /\ Ordered(recv) /\ wire \in Seq(Byte) /\ eaten \in Seq(Byte) /\ stream \in Seq(Byte)
      /\ t \in Seq(Byte) /\ s \in Seq(Byte) /\ r \in Seq(Byte)
  BY Zenon, <1>1, Contents
<1>3. PICK k \in 0 .. Len(wire) : wire' = SubSeq(wire, 1, k)
  BY Zenon DEF DestroyConnect
<1> DEFINE p == SubSeq(wire, 1, k)
           q == SubSeq(wire, k + 1, Len(wire))
<1>4. p \in Seq(Byte) /\ q \in Seq(Byte) /\ Cat(p, q) = wire
  BY Zenon, <1>2, CutInTwo DEF Cat
<1>5. wire' = p
  BY Zenon, <1>3
<1>6. Begins(Whole, stream) /\ Whole = All(eaten, r, wire, s, t)
  BY Zenon, <1>1 DEF IInv, Intact, Whole
<1> HIDE DEF p, q
<1>7. Whole' = All(eaten, r, p, <<>>, <<>>)
  BY Zenon, <1>1, <1>5, NewBuffer DEF Whole, Waiting
<1> HIDE DEF r, s, t
<1>8. All(eaten, r, wire, s, t) = Cat(All(eaten, r, p, <<>>, <<>>), Cat(q, Cat(s, t)))
  <2>1. /\ eaten \in Seq(Byte) /\ r \in Seq(Byte) /\ s \in Seq(Byte) /\ t \in Seq(Byte)
        /\ p \in Seq(Byte) /\ q \in Seq(Byte)
    BY Zenon, <1>2, <1>4
  <2>2. All(eaten, r, Cat(p, q), s, t) = Cat(All(eaten, r, p, <<>>, <<>>), Cat(q, Cat(s, t)))
    BY <2>1, AllCut
  <2> QED
    BY Zenon, <1>4, <2>2
<1>9. Cat(q, Cat(s, t)) \in Seq(Byte) /\ All(eaten, r, p, <<>>, <<>>) \in Seq(Byte)
  BY Zenon, <1>2, <1>4, Joined, JoinedEmpty, AllType
<1>10. Begins(Whole', stream')
  BY <1>1, <1>2, <1>6, <1>7, <1>8, <1>9, BeginsFacts
<1>11. TypeOK'
  BY Zenon, <1>1, <1>4, <1>5, NewBuffer DEF IInv, TypeOK
<1>12. Phases'
  BY Zenon, <1>1, NewBuffer DEF IInv, Phases, InHandshake
<1>13. InBounds'
  BY Zenon, <1>1, <1>2, NewBuffer DEF InBounds
<1>14. Intact'
  BY Zenon, <1>1, <1>10 DEF Intact
<1> QED
  BY Zenon, <1>11, <1>12, <1>13, <1>14 DEF IInv

LEMMA ReceiverDestroysConnectStep ==
  ASSUME IInv, ReceiverDestroysConnect
  PROVE  IInv'
<1> DEFINE w == Cat(Cat(Cat(Content(recv), wire), Content(send)), Waiting)
<1>1. /\ ~ torn /\ conn' = "closed" /\ rcv' = "closed" /\ wait' = CBufferNew /\ send' = CBufferNew
      /\ recv' = CBufferNew /\ wire' = <<>> /\ armed' = FALSE /\ direct' = FALSE /\ link' = link /\ up' = up
      /\ gaveUp' = gaveUp /\ nMsg' = nMsg /\ stream' = stream /\ torn' = torn /\ got' = got /\ eaten' = eaten
  BY Zenon DEF ReceiverDestroysConnect, Sending
<1>2. eaten \in Seq(Byte) /\ stream \in Seq(Byte) /\ w \in Seq(Byte)
  BY Zenon, <1>1, Contents, Joined
<1>3. Begins(Whole, stream) /\ Whole = Cat(eaten, w)
  BY Zenon, <1>1 DEF IInv, Intact, Whole, All
<1> HIDE DEF w
<1>4. Begins(eaten, stream)
  BY <1>2, <1>3, BeginsFacts
<1>5. PICK z \in Seq(Byte) : z = <<>>
  BY Zenon, JoinedEmpty
<1>6. Whole' = All(eaten, <<>>, <<>>, <<>>, <<>>)
  BY Zenon, <1>1, NewBuffer DEF Whole, Waiting
<1>7. Whole' = eaten
  BY <1>2, <1>5, <1>6, AllCut
<1>8. TypeOK'
  BY Zenon, <1>1, <1>5, NewBuffer DEF IInv, TypeOK
<1>9. Phases' /\ InBounds'
  BY Zenon, <1>1, NewBuffer DEF IInv, Phases, InHandshake, InBounds
<1>10. Intact'
  BY Zenon, <1>1, <1>4, <1>7 DEF Intact
<1> QED
  BY Zenon, <1>8, <1>9, <1>10 DEF IInv

\* A step of the receiver in which the bytes only move.
LEMMA ReceivingStep ==
  ASSUME IInv, ~ torn, TypeOK', UNCHANGED <<link, sending, conn>>, torn' = FALSE, Ordered(recv'), Whole' = Whole
  PROVE  IInv'
<1>1. /\ up' = up /\ gaveUp' = gaveUp /\ armed' = armed /\ wait' = wait /\ send' = send /\ stream' = stream
      /\ link' = link /\ conn' = conn
  BY Zenon DEF sending
<1>2. Ordered(send) /\ Ordered(wait)
  BY Zenon, Contents
<1>3. Phases' /\ InBounds'
  BY Zenon, <1>1, <1>2 DEF IInv, Phases, InHandshake, InBounds
<1>4. Intact'
  BY Zenon, <1>1 DEF IInv, Intact
<1> QED
  BY Zenon, <1>3, <1>4 DEF IInv

LEMMA IoReadStep ==
  ASSUME IInv, IoRead
  PROVE  IInv'
<1> DEFINE b == IF Receiver = "worker" THEN Compact(recv, Keep) ELSE recv
           s == Content(send)
           t == Waiting
           r == Content(recv)
<1>1. /\ ~ torn /\ rcv' = "decoding" /\ UNCHANGED <<link, sending, conn>> /\ got' = got /\ eaten' = eaten
  BY Zenon DEF IoRead
<1>2. /\ recv \in Buffer(Byte) /\ Ordered(recv) /\ wire \in Seq(Byte) /\ eaten \in Seq(Byte)
      /\ t \in Seq(Byte) /\ s \in Seq(Byte) /\ r \in Seq(Byte)
  BY Zenon, <1>1, Contents
<1>3. PICK k \in 1 .. Least(Len(wire), ReadFDMax(b)) : \E x \in ReadFD(b, SubSeq(wire, 1, k)) :
        recv' = x.b /\ wire' = SubSeq(wire, k + 1, Len(wire)) /\ torn' = ~ x.ok
  BY Zenon DEF IoRead
<1>4. b \in Buffer(Byte) /\ Ordered(b) /\ Content(b) = r
  BY Zenon, <1>2, CompactFacts
<1> DEFINE p == SubSeq(wire, 1, k)
           q == SubSeq(wire, k + 1, Len(wire))
<1>5. PICK x \in ReadFD(b, p) : recv' = x.b /\ wire' = q /\ torn' = ~ x.ok
  BY Zenon, <1>3
<1>6. k \in 0 .. Len(wire)
  <2>1. Len(wire) \in Nat
    BY Zenon, <1>2, LenProperties
  <2>2. \A m : Least(Len(wire), m) = Len(wire) \/ (Least(Len(wire), m) = m /\ ~ (Len(wire) <= m))
    BY Zenon DEF Least
  <2>3. ReadFDMax(b) \in Nat
    <3>1. WriteableBytes(b) \in Nat
      BY <1>4, MemFacts DEF WriteableBytes, GetWriteIndex
    <3> QED
      BY <3>1, SizeAssumption DEF ReadFDMax
  <2> QED
    BY <2>1, <2>2, <2>3
<1>7. p \in Seq(Byte) /\ q \in Seq(Byte) /\ Cat(p, q) = wire
  BY Zenon, <1>2, <1>6, CutInTwo DEF Cat
<1> HIDE DEF b, p, q
<1>8. x.b \in Buffer(Byte) /\ x.ok \in BOOLEAN /\ (x.ok => Ordered(x.b) /\ Content(x.b) = Cat(r, p))
  BY Zenon, <1>4, <1>7, ReadFDFacts DEF Cat
<1>9. TypeOK'
  BY Zenon, <1>1, <1>5, <1>7, <1>8 DEF IInv, TypeOK, sending
<1>10. CASE ~ x.ok
  <2>1. torn' = TRUE /\ (up' \/ InHandshake')
    BY Zenon, <1>1, <1>5, <1>10 DEF IInv, Phases, InHandshake, sending
  <2> QED
    BY Zenon, <1>9, <2>1, TornStep
<1>11. CASE x.ok
  <2>1. Whole' = All(eaten, Cat(r, p), q, s, t)
    BY Zenon, <1>1, <1>5, <1>8, <1>11 DEF Whole, Waiting, sending
  <2>2. Whole = All(eaten, r, wire, s, t)
    BY Zenon DEF Whole, Waiting
  <2> HIDE DEF r, s, t
  <2>3. /\ eaten \in Seq(Byte) /\ r \in Seq(Byte) /\ s \in Seq(Byte) /\ t \in Seq(Byte)
        /\ p \in Seq(Byte) /\ q \in Seq(Byte)
    BY Zenon, <1>2, <1>7
  <2>4. All(eaten, Cat(r, p), q, s, t) = All(eaten, r, Cat(p, q), s, t)
    BY <2>3, AllRead
  <2>5. Whole' = Whole
    BY Zenon, <1>7, <2>1, <2>2, <2>4
  <2>6. torn' = FALSE /\ Ordered(recv')
    BY Zenon, <1>5, <1>8, <1>11
  <2> QED
    BY Zenon, <1>1, <1>9, <2>5, <2>6, ReceivingStep
<1> QED
  BY Zenon, <1>8, <1>10, <1>11

LEMMA DecodeStep ==
  ASSUME IInv, Decode
  PROVE  IInv'
<1> DEFINE c == Content(recv)
           n == HeadSize + c[1][3]
           rest == SkipBytes(recv, n)
           p == SubSeq(c, 1, n)
           s == Content(send)
           t == Waiting
<1>1. ~ torn /\ torn = FALSE /\ UNCHANGED <<link, sending, conn>> /\ torn' = torn /\ wire' = wire
  BY Zenon DEF Decode, IInv, TypeOK
<1>2. /\ recv \in Buffer(Byte) /\ Ordered(recv) /\ wire \in Seq(Byte) /\ eaten \in Seq(Byte)
      /\ t \in Seq(Byte) /\ s \in Seq(Byte) /\ c \in Seq(Byte)
  BY Zenon, <1>1, Contents
<1>3. \/ rcv' = "idle" /\ UNCHANGED <<recv, got, eaten>>
      \/ /\ ~ (Len(c) < HeadSize) /\ ~ (Len(c) < n)
         /\ got' = Append(got, Parse(p)) /\ eaten' = eaten \o p
         /\ recv' = IF Receiver = "manager" THEN Compact(rest, KeepManager) ELSE rest
         /\ UNCHANGED rcv
  BY Zenon DEF Decode
<1>4. CASE rcv' = "idle" /\ UNCHANGED <<recv, got, eaten>>
  <2>1. TypeOK'
    BY Zenon, <1>1, <1>4 DEF IInv, TypeOK, sending
  <2>2. Whole' = Whole
    BY Zenon, <1>1, <1>4 DEF Whole, Waiting, sending
  <2>3. Ordered(recv')
    BY Zenon, <1>2, <1>4
  <2> QED
    BY Zenon, <1>1, <2>1, <2>2, <2>3, ReceivingStep
<1>5. CASE /\ ~ (Len(c) < HeadSize) /\ ~ (Len(c) < n)
           /\ got' = Append(got, Parse(p)) /\ eaten' = eaten \o p
           /\ recv' = IF Receiver = "manager" THEN Compact(rest, KeepManager) ELSE rest
           /\ UNCHANGED rcv
  <2>1. Len(c) \in Nat /\ 1 \in 1 .. Len(c) /\ ReadableBytes(recv) = Len(c)
    BY <1>2, <1>5, FrameAssumption, LenProperties, ContentFacts
  <2>2. c[1] \in Byte
    <3> HIDE DEF c
    <3> QED
      BY Zenon, <1>2, <2>1, ElementOfSeq
  <2>3. c[1][1] \in Nat /\ c[1][3] \in Nat
    BY Zenon, <2>2 DEF Byte
  <2>4. n \in Nat /\ n \in 0 .. ReadableBytes(recv) /\ 1 \in 1 .. n /\ n <= Len(c)
    <3>1. n = HeadSize + c[1][3] /\ HeadSize \in Nat \ {0}
      BY Zenon, FrameAssumption
    <3>2. ~ (Len(c) < n)
      BY Zenon, <1>5
    <3> HIDE DEF n, c
    <3> QED BY <2>1, <2>3, <3>1, <3>2
  <2>5. /\ rest \in Buffer(Byte) /\ Ordered(rest) /\ Content(rest) \in Seq(Byte)
        /\ p \in Seq(Byte) /\ Len(p) = n /\ Cat(p, Content(rest)) = c
    BY Zenon, <1>2, <2>4, SkipFacts DEF Cat
  <2>6. p[1] = c[1]
    <3> HIDE DEF c, n
    <3>1. \A i \in 1 .. n - 1 + 1 : SubSeq(c, 1, n)[i] = c[1 + i - 1]
      BY <1>2, <2>4, PartOf
    <3> QED
      BY <2>4, <3>1
  <2> HIDE DEF c, p, n, rest
  <2>7. Parse(p) \in Nat \X Nat
    BY Zenon, <2>3, <2>6 DEF Parse
  <2>8. got' \in Seq(Nat \X Nat)
    BY <1>5, <2>7 DEF IInv, TypeOK
  <2>9. recv' \in Buffer(Byte) /\ Ordered(recv') /\ Content(recv') = Content(rest)
    BY Zenon, <1>5, <2>5, CompactFacts
  <2>10. eaten' = Cat(eaten, p) /\ eaten' \in Seq(Byte)
    <3>1. eaten' = Cat(eaten, p)
      BY Zenon, <1>5 DEF Cat
    <3> QED
      BY Zenon, <1>2, <2>5, <3>1, Joined
  <2>11. TypeOK'
    BY Zenon, <1>1, <1>5, <2>8, <2>9, <2>10 DEF IInv, TypeOK, sending
  <2>12. Whole' = Whole
    <3> DEFINE q == Content(rest)
    <3>1. Whole' = All(Cat(eaten, p), q, wire, s, t)
      BY Zenon, <1>1, <2>9, <2>10 DEF Whole, Waiting, sending
    <3>2. Whole = All(eaten, c, wire, s, t)
      BY Zenon DEF Whole, c
    <3>3. q \in Seq(Byte) /\ p \in Seq(Byte) /\ Cat(p, q) = c
      BY Zenon, <2>5
    <3> HIDE DEF q, s, t, p, c, n
    <3>4. All(Cat(eaten, p), q, wire, s, t) = All(eaten, Cat(p, q), wire, s, t)
      <4>1. /\ eaten \in Seq(Byte) /\ wire \in Seq(Byte) /\ s \in Seq(Byte) /\ t \in Seq(Byte)
            /\ p \in Seq(Byte) /\ q \in Seq(Byte)
        BY Zenon, <1>2, <3>3
      <4> QED BY <4>1, AllDecoded
    <3> QED
      BY Zenon, <3>1, <3>2, <3>3, <3>4
  <2> QED
    BY Zenon, <1>1, <2>9, <2>11, <2>12, ReceivingStep
<1> QED
  BY Zenon, <1>3, <1>4, <1>5

LEMMA PeerClosedStep ==
  ASSUME IInv, PeerClosed
  PROVE  IInv'
<1> DEFINE r == Content(recv)
<1>1. /\ ~ torn /\ torn = FALSE /\ UNCHANGED <<link, sending, wire, conn, got, eaten, torn>> /\ rcv' = "closed"
      /\ recv' = recv \/ recv' = CBufferNew
      /\ conn = "closed" /\ wire = <<>>
  BY Zenon DEF PeerClosed, IInv, TypeOK
<1>2. /\ eaten \in Seq(Byte) /\ stream \in Seq(Byte) /\ r \in Seq(Byte) /\ Ordered(send) /\ Ordered(wait)
      /\ recv \in Buffer(Byte) /\ Ordered(recv)
  BY Zenon, <1>1, Contents
<1>3. Content(send) = <<>> /\ Content(wait) = <<>> /\ Begins(Whole, stream)
  BY Zenon, <1>1 DEF IInv, Phases, Intact
<1>4. up' = up /\ armed' = armed /\ wait' = wait /\ send' = send /\ stream' = stream
  BY Zenon, <1>1 DEF sending
<1>5. recv' \in Buffer(Byte) /\ Ordered(recv')
  BY Zenon, <1>1, <1>2, NewBuffer
<1>6. TypeOK'
  BY Zenon, <1>1, <1>5 DEF IInv, TypeOK, sending
<1>7. CASE recv' = recv
  <2>1. Whole' = Whole
    BY Zenon, <1>1, <1>4, <1>7 DEF Whole, Waiting
  <2> QED
    BY Zenon, <1>1, <1>5, <1>6, <2>1, ReceivingStep
<1>8. CASE recv' = CBufferNew
  <2>1. Whole = All(eaten, r, <<>>, <<>>, <<>>) /\ Whole' = All(eaten, <<>>, <<>>, <<>>, <<>>)
    BY Zenon, <1>1, <1>3, <1>4, <1>8, NewBuffer DEF Whole, Waiting
  <2> HIDE DEF r
  <2>2. PICK z \in Seq(Byte) : z = <<>>
    BY Zenon, JoinedEmpty
  <2>3. All(eaten, r, <<>>, <<>>, <<>>) = Cat(eaten, r) /\ All(eaten, <<>>, <<>>, <<>>, <<>>) = eaten
    BY <1>2, <2>2, AllCut
  <2>4. Begins(eaten, stream)
    BY <1>2, <1>3, <2>1, <2>3, BeginsFacts
  <2>5. Begins(Whole', stream')
    BY Zenon, <1>4, <2>1, <2>3, <2>4
  <2>6. Phases'
    BY Zenon, <1>1, <1>4 DEF IInv, Phases, InHandshake
  <2>7. InBounds'
    BY Zenon, <1>2, <1>4, <1>5 DEF InBounds
  <2>8. Intact'
    BY Zenon, <1>1, <2>5 DEF Intact
  <2> QED
    BY Zenon, <1>6, <2>6, <2>7, <2>8 DEF IInv
<1> QED
  BY Zenon, <1>1, <1>7, <1>8

-----------------------------------------------------------------------------
(* The specification. *)

LEMMA InitIInv ==
  Init => IInv
<1> SUFFICES ASSUME Init PROVE IInv
  BY Zenon
<1>1. <<>> \in Seq(Byte) /\ <<>> \in Seq(Nat \X Nat)
  BY Zenon, EmptySeq, FrameAssumption
<1>2. TypeOK
  <2>1. up \in BOOLEAN
    BY Zenon DEF Init
  <2>2. /\ link \in Links /\ gaveUp = FALSE /\ armed = FALSE /\ direct = FALSE /\ torn = FALSE
        /\ wait = CBufferNew /\ send = CBufferNew /\ recv = CBufferNew
        /\ wire = <<>> /\ stream = <<>> /\ eaten = <<>> /\ got = <<>>
        /\ conn = "open" /\ rcv = "idle" /\ nMsg = 0
    BY Zenon DEF Init
  <2>3. nMsg \in Nat
    BY <1>1, <2>2
  <2> QED
    BY Zenon, <1>1, <2>1, <2>2, <2>3, NewBuffer DEF TypeOK
<1>3. Phases /\ InBounds
  BY Zenon, NewBuffer DEF Init, Phases, InHandshake, InBounds
<1>4. Whole = All(<<>>, <<>>, <<>>, <<>>, <<>>)
  BY Zenon, NewBuffer DEF Init, Whole, Waiting
<1>5. Whole = <<>>
  BY Zenon, <1>1, <1>4, JoinedEmpty DEF All
<1>6. Begins(stream, stream)
  BY Zenon, <1>1, BeginsFacts DEF Init
<1>7. Intact
  BY Zenon, <1>5, <1>6 DEF Init, Intact
<1> QED
  BY Zenon, <1>2, <1>3, <1>7 DEF IInv

LEMMA StutterIInv ==
  ASSUME IInv, UNCHANGED vars
  PROVE  IInv'
<1>1. /\ link' = link /\ up' = up /\ gaveUp' = gaveUp /\ wait' = wait /\ send' = send /\ armed' = armed /\ direct' = direct
      /\ nMsg' = nMsg /\ stream' = stream /\ wire' = wire /\ conn' = conn /\ torn' = torn
      /\ recv' = recv /\ rcv' = rcv /\ got' = got /\ eaten' = eaten
  BY Zenon DEF vars, sending, receiving
<1>2. Whole' = Whole
  BY Zenon, <1>1 DEF Whole, Waiting
<1>3. TypeOK'
  BY Zenon, <1>1 DEF IInv, TypeOK
<1>4. InBounds' /\ Phases'
  BY Zenon, <1>1 DEF IInv, InBounds, Phases, InHandshake
<1>5. Intact'
  BY Zenon, <1>1, <1>2 DEF IInv, Intact
<1> QED
  BY Zenon, <1>3, <1>4, <1>5 DEF IInv

LEMMA NextIInv ==
  IInv /\ [Next]_vars => IInv'
<1> SUFFICES ASSUME IInv, [Next]_vars PROVE IInv'
  BY Zenon
<1>1. ASSUME NEW n \in Bodies, SendTo(n) PROVE IInv'
  BY Zenon, <1>1, SendToStep
<1>2. ASSUME NEW n \in Bodies, Answer(n) PROVE IInv'
  BY Zenon, <1>2, AnswerStep
<1>3. ASSUME NEW n \in Bodies, SendToParent(n) PROVE IInv'
  BY Zenon, <1>3, SendToParentStep
<1>4. ASSUME NEW n \in Bodies, ManagerSendTo(n) PROVE IInv'
  BY Zenon, <1>4, ManagerSendToStep
<1>5. ASSUME NEW n \in Bodies, SendToWorker(n) PROVE IInv'
  BY Zenon, <1>5, SendToWorkerStep
<1>6. CASE Established
  BY Zenon, <1>6, EstablishedStep
<1>6a. CASE GiveUp
  BY Zenon, <1>6a, GiveUpStep
<1>6b. CASE LateTell
  BY Zenon, <1>6b, LateTellStep
<1>7. CASE WorkerIoWrite
  BY Zenon, <1>7, WorkerIoWriteStep
<1>7a. CASE ManagerIoWrite
  BY Zenon, <1>7a, ManagerIoWriteStep
<1>8. CASE DestroyConnect
  BY Zenon, <1>8, DestroyConnectStep
<1>8a. CASE ReceiverDestroysConnect
  BY Zenon, <1>8a, ReceiverDestroysConnectStep
<1>9. CASE IoRead
  BY Zenon, <1>9, IoReadStep
<1>10. CASE Decode
  BY Zenon, <1>10, DecodeStep
<1>11. CASE PeerClosed
  BY Zenon, <1>11, PeerClosedStep
<1>12. CASE UNCHANGED vars
  BY Zenon, <1>12, StutterIInv
<1> QED
  BY Zenon, <1>1, <1>2, <1>3, <1>4, <1>5, <1>6, <1>6a, <1>6b, <1>7, <1>7a, <1>8, <1>8a, <1>9, <1>10, <1>11, <1>12 DEF Next

\* The invariant says what StreamIntact says.
LEMMA IntactIsStreamIntact ==
  IInv => StreamIntact
<1> SUFFICES ASSUME IInv, ~ torn
             PROVE  LET all == eaten \o Underway
                    IN  /\ Len(all) <= Len(stream) /\ all = SubSeq(stream, 1, Len(all))
                        /\ conn = "open" => all = stream
  BY Zenon DEF StreamIntact
<1>1. eaten \o Underway = Whole
  BY Zenon DEF Underway, Whole, All, Cat
<1>2. Whole \in Seq(Byte) /\ stream \in Seq(Byte)
  BY Zenon, Contents, AllType DEF Whole, Waiting
<1>3. Begins(Whole, stream) /\ (conn = "open" => Whole = stream)
  BY Zenon DEF IInv, Intact
<1>4. Whole = SubSeq(stream, 1, Len(Whole))
  BY Zenon, <1>2, <1>3, BeginsFacts
<1>5. Len(Whole) <= Len(stream)
  <2>1. PICK q \in Seq(Byte) : stream = Whole \o q
    BY Zenon, <1>3 DEF Begins, Cat
  <2> QED
    BY <1>2, <2>1, ConcatProperties, LenProperties
<1> QED
  BY Zenon, <1>1, <1>3, <1>4, <1>5

(***************************************************************************)
(* For any sizes of messages, buffers and sockets, and whatever malloc and   *)
(* write return.                                                            *)
(***************************************************************************)
\* The invariant holds of Worker and Manager connections.
THEOREM Invariance == Spec => []IInv
BY InitIInv, NextIInv, PTL DEF Spec

\* The state keeps its type.
THEOREM TypeCorrect == Spec => []TypeOK
<1>1. IInv => TypeOK
  BY Zenon DEF IInv
<1> QED
  BY <1>1, Invariance, PTL

\* The indexes of the CBuffers of a connection stay in order and in the allocation, until
\* an allocation fails where the code does not look.
THEOREM BuffersInBounds == Spec => []InBounds
<1>1. IInv => InBounds
  BY Zenon DEF IInv
<1> QED
  BY <1>1, Invariance, PTL

\* Encode, IoWrite, RecvDataAndDispose and Decode lose, add and reorder no byte.
THEOREM StreamKept == Spec => []StreamIntact
BY IntactIsStreamIntact, Invariance, PTL
-----------------------------------------------------------------------------
(***************************************************************************)
(* Bytes left behind are listened for.                                     *)
(***************************************************************************)
Unsent ==
  ~ torn => /\ Sender = "worker" /\ up /\ Content(send) # <<>> => armed \/ direct
            /\ ~ up => Content(send) = <<>>

\* After a write that was not short nothing is left.
LEMMA WroteAll ==
  ASSUME NEW b \in Buffer(Byte), Ordered(b), wire \in Seq(Byte), NEW k \in WriteLens(b), NEW least,
         send' = Compact(SkipBytes(b, k), least) \/ send' = SkipBytes(b, k),
         ~ (k < ReadableBytes(b))
  PROVE  Content(send') = <<>>
<1>1. k \in 0 .. ReadableBytes(b) /\ ReadableBytes(b) \in Nat
  BY WriteLensFacts, ContentFacts, LenProperties
<1>2. k = ReadableBytes(b)
  BY <1>1
<1>3. /\ SkipBytes(b, k) \in Buffer(Byte) /\ Ordered(SkipBytes(b, k))
      /\ Content(SkipBytes(b, k)) = <<>>
  BY Zenon, <1>2, SkipAll
<1> QED
  BY Zenon, <1>3, CompactFacts

\* Listening after a write from b, and not listening.
LEMMA ListeningFacts ==
  ASSUME NEW b \in Buffer(Byte), Ordered(b), wire \in Seq(Byte), NEW k \in WriteLens(b), NEW least,
         send' = Compact(SkipBytes(b, k), least) \/ send' = SkipBytes(b, k),
         Listening(b, k) \/ (armed' = armed /\ direct' = (~ armed /\ k < ReadableBytes(b)))
  PROVE  /\ Content(send') # <<>> => armed' \/ direct'
         /\ Content(b) = <<>> => Content(send') = <<>>
<1>1. k \in 0 .. ReadableBytes(b) /\ ReadableBytes(b) \in Nat /\ ReadableBytes(b) = Len(Content(b))
  BY WriteLensFacts, ContentFacts, LenProperties
<1>2. CASE k < ReadableBytes(b)
  <2>1. armed' \/ direct'
    <3>1. CASE Listening(b, k)
      <4>1. ReadableBytes(b) # 0
        BY <1>1, <1>2
      <4>2. armed' = (k < ReadableBytes(b))
        BY Zenon, <3>1, <4>1 DEF Listening, ArmedAfter
      <4> QED
        BY Zenon, <1>2, <4>2
    <3>2. CASE armed' = armed /\ direct' = (~ armed /\ k < ReadableBytes(b))
      BY Zenon, <1>2, <3>2
    <3> QED
      BY Zenon, <3>1, <3>2
  <2>2. Content(b) # <<>>
    BY <1>1, <1>2, EmptySeq
  <2> QED
    BY Zenon, <2>1, <2>2
<1>3. CASE ~ (k < ReadableBytes(b))
  BY Zenon, <1>3, WroteAll
<1> QED
  BY Zenon, <1>2, <1>3

LEMMA SendToUnsent ==
  ASSUME IInv, Unsent, NEW n \in Bodies, SendTo(n)
  PROVE  Unsent'
<1>1. ~ torn
  BY Zenon DEF SendTo, MayTake, Sending
<1>2. wait \in Buffer(Byte) /\ Ordered(wait) /\ send \in Buffer(Byte) /\ Ordered(send) /\ wire \in Seq(Byte)
  BY Zenon, <1>1, Contents
<1>3. nMsg + 1 \in Nat /\ n \in Nat
  BY Zenon, <1>1, TakenFacts
<1>4. CASE up
  <2>1. PICK x \in Encode(send, nMsg + 1, n) :
          \/ Rejected(x, FALSE) /\ send' = x.b
          \/ /\ \E k \in WriteLens(x.b) : send' = Compact(SkipBytes(x.b, k), Keep) /\ Listening(x.b, k)
             /\ link' = link /\ up' = up
    BY Zenon, <1>4 DEF SendTo
  <2>2. x.b \in Buffer(Byte) /\ Ordered(x.b) /\ (~ x.ok => Content(x.b) = Content(send))
    BY <1>2, <1>3, EncodeFacts
  <2>3. CASE Rejected(x, FALSE) /\ send' = x.b
    BY Zenon, <1>1, <2>2, <2>3 DEF Rejected, Unsent, Sender
  <2>4. ASSUME NEW k \in WriteLens(x.b), send' = Compact(SkipBytes(x.b, k), Keep), Listening(x.b, k),
               link' = link, up' = up
        PROVE  Unsent'
    <3>1. Content(send') # <<>> => armed' \/ direct'
      BY Zenon, <1>2, <2>2, <2>4, ListeningFacts
    <3> QED
      BY Zenon, <1>4, <2>4, <3>1 DEF Unsent
  <2> QED
    BY Zenon, <2>1, <2>3, <2>4
<1>5. CASE ~ up
  <2>1. send' = send /\ up' = up
    BY Zenon, <1>5 DEF SendTo, Rejected
  <2> QED
    BY Zenon, <1>1, <1>5, <2>1 DEF Unsent
<1> QED
  BY Zenon, <1>4, <1>5

LEMMA EstablishedUnsent ==
  ASSUME IInv, Unsent, Established
  PROVE  Unsent'
<1>1. ~ torn /\ ~ up /\ up' = TRUE /\ link' = link
  BY Zenon DEF Established, LeftBehind, Sending
<1>2. send \in Buffer(Byte) /\ Ordered(send) /\ wire \in Seq(Byte) /\ Content(wait) \in Seq(Byte)
  BY Zenon, <1>1, Contents
<1>3. PICK x \in Write(send, Content(wait)) :
        \/ LeftBehind
        \/ \E k \in WriteLens(x.b) : send' = Compact(SkipBytes(x.b, k), Keep) /\ Listening(x.b, k)
  BY Zenon DEF Established, Flushed
<1>4. x.b \in Buffer(Byte) /\ Ordered(x.b)
  BY Zenon, <1>2, WriteCat
<1>5. CASE LeftBehind
  BY Zenon, <1>1, <1>5 DEF LeftBehind, Unsent
<1>6. ASSUME NEW k \in WriteLens(x.b), send' = Compact(SkipBytes(x.b, k), Keep), Listening(x.b, k)
      PROVE  Unsent'
  <2>1. Content(send') # <<>> => armed' \/ direct'
    BY Zenon, <1>2, <1>4, <1>6, ListeningFacts
  <2> QED
    BY Zenon, <1>1, <2>1 DEF Unsent
<1> QED
  BY Zenon, <1>3, <1>5, <1>6

LEMMA LeftBehindUnsent ==
  ASSUME IInv, Unsent, GiveUp \/ LateTell
  PROVE  Unsent'
BY Zenon DEF GiveUp, LateTell, LeftBehind, Sending, Unsent, Sender

LEMMA AnswerUnsent ==
  ASSUME IInv, Unsent, NEW n \in Bodies, Answer(n)
  PROVE  Unsent'
<1>1. ~ torn /\ up
  BY Zenon DEF Answer, MayTake, Sending
<1>2. send \in Buffer(Byte) /\ Ordered(send) /\ wire \in Seq(Byte)
  BY Zenon, <1>1, Contents
<1>3. nMsg + 1 \in Nat /\ n \in Nat
  BY Zenon, <1>1, TakenFacts
<1>4. PICK x \in Encode(send, nMsg + 1, n) :
        \/ Rejected(x, FALSE) /\ send' = x.b
        \/ /\ \E k \in WriteLens(x.b) : /\ send' = Compact(SkipBytes(x.b, k), Keep)
                                        /\ direct' = (~ armed /\ k < ReadableBytes(x.b))
           /\ link' = link /\ up' = up /\ gaveUp' = gaveUp /\ armed' = armed
  BY Zenon DEF Answer
<1>5. x.b \in Buffer(Byte) /\ Ordered(x.b) /\ (~ x.ok => Content(x.b) = Content(send))
  BY <1>2, <1>3, EncodeFacts
<1>6. CASE Rejected(x, FALSE) /\ send' = x.b
  BY Zenon, <1>1, <1>5, <1>6 DEF Rejected, Unsent, Sender
<1>7. ASSUME NEW k \in WriteLens(x.b), send' = Compact(SkipBytes(x.b, k), Keep), up' = up,
             direct' = (~ armed /\ k < ReadableBytes(x.b)), armed' = armed
      PROVE  Unsent'
  <2>1. Content(send') # <<>> => armed' \/ direct'
    BY Zenon, <1>2, <1>5, <1>7, ListeningFacts
  <2> QED
    BY Zenon, <1>1, <1>7, <2>1 DEF Unsent
<1> QED
  BY Zenon, <1>4, <1>6, <1>7

LEMMA SendToParentUnsent ==
  ASSUME IInv, Unsent, NEW n \in Bodies, SendToParent(n)
  PROVE  Unsent'
<1>1. ~ torn /\ up /\ up' = up /\ gaveUp' = gaveUp /\ armed' = armed
  BY Zenon DEF SendToParent, MayTake, Sending, IInv, Phases, InHandshake
<1>2. send \in Buffer(Byte) /\ Ordered(send) /\ wire \in Seq(Byte)
  BY Zenon, <1>1, Contents
<1>3. nMsg + 1 \in Nat /\ n \in Nat
  BY Zenon, <1>1, TakenFacts
<1>4. PICK x \in PlainEncode(send, nMsg + 1, n) : \E k \in WriteLens(x.b) :
        send' = Compact(SkipBytes(x.b, k), Keep) /\ direct' = (~ armed /\ k < ReadableBytes(x.b))
  BY Zenon DEF SendToParent
<1>5. x.b \in Buffer(Byte) /\ Ordered(x.b)
  BY Zenon, <1>2, <1>3, PlainEncodeFacts
<1>6. PICK k \in WriteLens(x.b) :
        send' = Compact(SkipBytes(x.b, k), Keep) /\ direct' = (~ armed /\ k < ReadableBytes(x.b))
  BY Zenon, <1>4
<1>7. Content(send') # <<>> => armed' \/ direct'
  BY Zenon, <1>1, <1>2, <1>5, <1>6, ListeningFacts
<1> QED
  BY Zenon, <1>1, <1>7 DEF Unsent

LEMMA WorkerIoWriteUnsent ==
  ASSUME IInv, Unsent, WorkerIoWrite
  PROVE  Unsent'
<1>1. ~ torn /\ up /\ up' = up /\ link' = link
  BY Zenon DEF WorkerIoWrite, Sending, IInv, Phases, InHandshake
<1>2. /\ send \in Buffer(Byte) /\ Ordered(send) /\ wire \in Seq(Byte) /\ Content(wait) \in Seq(Byte)
      /\ Compact(send, Keep) \in Buffer(Byte) /\ Ordered(Compact(send, Keep))
      /\ Content(Compact(send, Keep)) = Content(send)
  BY Zenon, <1>1, Contents, CompactFacts
<1>3. ASSUME NEW b \in Buffer(Byte), Ordered(b), NEW k \in WriteLens(b),
             send' = Compact(SkipBytes(b, k), Keep), Listening(b, k)
      PROVE  Unsent'
  <2>1. Content(send') # <<>> => armed' \/ direct'
    BY Zenon, <1>2, <1>3, ListeningFacts
  <2> QED
    BY Zenon, <1>1, <2>1 DEF Unsent
<1>4. ASSUME NEW x \in Write(Compact(send, Keep), Content(wait)), Flushed(x)
      PROVE  Unsent'
  <2>1. x.b \in Buffer(Byte) /\ Ordered(x.b)
    BY Zenon, <1>2, <1>4, WriteCat
  <2> QED
    BY Zenon, <1>3, <1>4, <2>1 DEF Flushed
<1>5. ASSUME NEW x \in Write(Compact(send, Keep), Content(wait)), ~ x.ok, send' = x.b,
             armed' = armed, direct' = direct
      PROVE  Unsent'
  <2>1. Content(send') = Content(send)
    BY Zenon, <1>2, <1>5, WriteCat
  <2> QED
    BY Zenon, <1>1, <1>5, <2>1 DEF Unsent, Sender
<1> QED
  BY Zenon, <1>2, <1>3, <1>4, <1>5 DEF WorkerIoWrite

\* What a Manager sends is not the subject here.
LEMMA ManagerUnsent ==
  ASSUME IInv, Unsent,
         (\E n \in Bodies : ManagerSendTo(n) \/ SendToWorker(n)) \/ ManagerIoWrite
  PROVE  Unsent'
<1>1. Sender = "manager" /\ link' = link /\ up' = up
  <2> DEFINE Goal == Sender = "manager" /\ link' = link /\ up' = up
  <2>1. ASSUME NEW n \in Bodies, ManagerSendTo(n) PROVE Goal
    <3>1. PICK x \in ManagerEncode(send, nMsg + 1, n) :
            \/ Rejected(x, Content(x.b) # Content(send))
            \/ UNCHANGED <<link, up, gaveUp, wait, conn, receiving, torn>>
      BY <2>1, Zenon DEF ManagerSendTo
    <3>2. link' = link /\ up' = up
      BY <3>1, Zenon DEF Rejected
    <3> QED
      BY <2>1, <3>2, Zenon DEF ManagerSendTo
  <2>2. ASSUME NEW n \in Bodies, SendToWorker(n) PROVE Goal
    <3>1. link = <<"manager", "worker">> /\ UNCHANGED <<link, up, gaveUp, wait, conn, receiving>>
      BY <2>2, Zenon DEF SendToWorker
    <3> QED
      BY Zenon, <3>1 DEF Sender
  <2>3. CASE ManagerIoWrite
    BY <2>3, Zenon DEF ManagerIoWrite
  <2> QED
    BY Zenon, <2>1, <2>2, <2>3
<1>2. up
  BY <1>1 DEF IInv, Phases, InHandshake, Sender
<1> QED
  BY Zenon, <1>1, <1>2 DEF Unsent, Sender

LEMMA NextUnsent ==
  IInv /\ Unsent /\ [Next]_vars => Unsent'
<1> SUFFICES ASSUME IInv, Unsent, [Next]_vars PROVE Unsent'
  BY Zenon
<1>1. ASSUME NEW n \in Bodies, SendTo(n) PROVE Unsent'
  BY Zenon, <1>1, SendToUnsent
<1>2. ASSUME NEW n \in Bodies, Answer(n) PROVE Unsent'
  BY Zenon, <1>2, AnswerUnsent
<1>3. ASSUME NEW n \in Bodies, SendToParent(n) PROVE Unsent'
  BY Zenon, <1>3, SendToParentUnsent
<1>4. CASE (\E n \in Bodies : ManagerSendTo(n) \/ SendToWorker(n)) \/ ManagerIoWrite
  BY Zenon, <1>4, ManagerUnsent
<1>5. CASE Established
  BY Zenon, <1>5, EstablishedUnsent
<1>6. CASE WorkerIoWrite
  BY Zenon, <1>6, WorkerIoWriteUnsent
<1>5a. CASE GiveUp \/ LateTell
  BY Zenon, <1>5a, LeftBehindUnsent
<1>7. CASE DestroyConnect \/ ReceiverDestroysConnect
  BY Zenon, <1>7, NewBuffer DEF DestroyConnect, ReceiverDestroysConnect, Unsent
<1>8. CASE IoRead \/ Decode \/ PeerClosed \/ UNCHANGED vars
  <2>1. UNCHANGED <<link, sending>> /\ (torn => torn')
    <3>1. CASE IoRead
      BY <3>1, Zenon DEF IoRead
    <3>2. CASE Decode
      BY <3>2, Zenon DEF Decode
    <3>3. CASE PeerClosed
      BY <3>3, Zenon DEF PeerClosed
    <3>4. CASE UNCHANGED vars
      BY <3>4, Zenon DEF vars
    <3> QED
      BY Zenon, <1>8, <3>1, <3>2, <3>3, <3>4
  <2> QED
    BY Zenon, <2>1 DEF Unsent, sending, Sender
<1> QED
  BY Zenon, <1>1, <1>2, <1>3, <1>4, <1>5, <1>5a, <1>6, <1>7, <1>8 DEF Next

\* What a Worker could not write is listened for, but for SendToParent's and Answer's rest.
THEOREM WorkerListens == Spec => []WorkerUnsentIsArmed
<1>1. Init => Unsent
  BY Zenon, NewBuffer DEF Init, Unsent
<1>2. Unsent => WorkerUnsentIsArmed
  BY Zenon DEF Unsent, WorkerUnsentIsArmed, UnsentIsArmed
<1> QED
  BY <1>1, <1>2, NextUnsent, Invariance, PTL DEF Spec
=============================================================================
