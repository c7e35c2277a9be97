------------------------------- MODULE CBuffer -------------------------------
(***************************************************************************)
(* util::CBuffer, the growing buffer every connection sends from and        *)
(* receives into (pSendBuff, pWaitForSendBuff, pRecvBuff).                  *)
(*                                                                          *)
(* A buffer is a record: mem, the bytes up to m_write_idx (what lies behind *)
(* is never read); r, m_read_idx; len, m_buffer_len.  An operation that may *)
(* allocate gives the set of its outcomes [b |-> the buffer, ok |-> BOOLEAN],*)
(* one of them the failure of malloc.                                       *)
(***************************************************************************)
EXTENDS Naturals, Sequences

CONSTANTS DefaultSize,  \* DEFAULT_BUFFER_SIZE, 32
          MaxRead,      \* BUFFER_MAX_READ, 8192
          ExtraSize     \* sizeof(extrabuf) in ReadFD, 32768

ASSUME SizeAssumption == /\ DefaultSize \in Nat \ {0}
                         /\ MaxRead \in Nat
                         /\ ExtraSize \in Nat \ {0}

Junk == <<0, 0, 0>>     \* a byte that nobody wrote

\* The buffers of bytes of a set; the indexes of a buffer in order.
Buffer(B) == [mem : Seq(B), r : Nat, len : Nat]
Ordered(b) == b.r <= Len(b.mem) /\ Len(b.mem) <= b.len

CBufferNew == [mem |-> <<>>, r |-> 0, len |-> 0]

GetWriteIndex(b) == Len(b.mem)
ReadableBytes(b) == IF GetWriteIndex(b) > b.r THEN GetWriteIndex(b) - b.r ELSE 0
WriteableBytes(b) == IF b.len > GetWriteIndex(b) THEN b.len - GetWriteIndex(b) ELSE 0

\* The readable bytes.
Content(b) == SubSeq(b.mem, b.r + 1, GetWriteIndex(b))

\* The readable bytes moved to the start of a new allocation.
Moved(b, cap) == [mem |-> Content(b), r |-> 0, len |-> cap]

\* Mutant: the bytes are counted, but copied from the start of the buffer.
CompactFromStart(b, least) ==
  IF WriteableBytes(b) < least THEN b
  ELSE [mem |-> SubSeq(b.mem, 1, ReadableBytes(b)), r |-> 0, len |-> ReadableBytes(b)]

\* Compact: a buffer with that much room behind is cut to what it holds.
Compact(b, least) == IF WriteableBytes(b) < least THEN b ELSE Moved(b, ReadableBytes(b))

\* newCapacity <<= 1 until it is enough: the one c * 2^k that is, and whose half is not.
Doubled(c, min) ==
  {d \in c .. c + 2 * min : d >= min /\ (d = c \/ d < 2 * min) /\ \E k \in 0 .. min : d = c * 2^k}

\* Mutant: the room is counted from the start of the buffer, not from m_write_idx.
EnsureWritableBytesShort(b, n) ==
  IF WriteableBytes(b) >= n THEN {[b |-> b, ok |-> TRUE]}
  ELSE {[b |-> b, ok |-> FALSE]} \cup
       {[b |-> Moved(b, d), ok |-> TRUE] : d \in Doubled(IF b.len = 0 THEN DefaultSize ELSE b.len, n)}

EnsureWritableBytes(b, n) ==
  IF WriteableBytes(b) >= n THEN {[b |-> b, ok |-> TRUE]}
  ELSE LET p == IF b.len > MaxRead THEN Compact(b, n) ELSE b
           c == IF b.len = 0 THEN DefaultSize ELSE b.len
       IN  {[b |-> p, ok |-> FALSE]} \cup
           {[b |-> Moved(p, d), ok |-> TRUE] : d \in Doubled(c, GetWriteIndex(p) + n)}

\* memcpy behind m_write_idx.
Appended(b, bytes) == [mem |-> b.mem \o bytes, r |-> b.r, len |-> b.len]

Write(b, bytes) ==
  {IF e.ok THEN [b |-> Appended(e.b, bytes), ok |-> TRUE] ELSE e : e \in EnsureWritableBytes(b, Len(bytes))}

\* SkipBytes, and the m_read_idx += n of Read and WriteFD.
SkipBytes(b, n) == [mem |-> b.mem, r |-> b.r + n, len |-> b.len]

\* SetWriteIndex, used to undo a Write.
SetWriteIndex(b, i) ==
  [mem |-> [k \in 1 .. i |-> IF k <= Len(b.mem) THEN b.mem[k] ELSE Junk], r |-> b.r, len |-> b.len]

\* What one ReadFD can take.
ReadFDMax(b) == WriteableBytes(b) + (IF WriteableBytes(b) > ExtraSize THEN 0 ELSE ExtraSize)

\* Mutant: what went to extrabuf is forgotten.
ReadFDShort(b, bytes) ==
  LET room == WriteableBytes(b)
      n == IF Len(bytes) <= room THEN Len(bytes) ELSE room
  IN  {[b |-> Appended(b, SubSeq(bytes, 1, n)), ok |-> TRUE]}

\* ReadFD of these bytes: into the room behind m_write_idx, the rest by extrabuf and
\* Write, whose failure goes unnoticed.
ReadFD(b, bytes) ==
  LET room == WriteableBytes(b)
  IN  IF Len(bytes) <= room THEN {[b |-> Appended(b, bytes), ok |-> TRUE]}
      ELSE Write(Appended(b, SubSeq(bytes, 1, room)), SubSeq(bytes, room + 1, Len(bytes)))
=============================================================================
