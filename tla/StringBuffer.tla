----------------------------- MODULE StringBuffer -----------------------------
(***************************************************************************)
(* StringBuffer: a vector with a read and a write position.  A buffer is a *)
(* record; what the members of the class do to it are operators.  A cell   *)
(* holds a symbol, which stands for one byte or for a text that no         *)
(* operation takes apart.                                                  *)
(***************************************************************************)
EXTENDS Naturals, Sequences, SequencesExt

CONSTANTS
  Nul,        \* the symbol of the byte 0
  InitSize,   \* init_buff_size
  Overflow    \* the size of the second buffer of ReadFromFd

ASSUME BufferAssumption == InitSize \in Nat /\ Overflow \in Nat

Zeros(n) == [i \in 1..n |-> Nul]

NewBuffer == [cells |-> Zeros(InitSize), read |-> 0, write |-> 0]

ReadableBytes(b)     == b.write - b.read
PreWritableBytes(b)  == b.read
PostWritableBytes(b) == Len(b.cells) - b.write

\* What is between the two positions.
Readable(b) == SubSeq(b.cells, b.read + 1, b.write)

\* The vector with data copied to index at.
Copied(cells, data, at) ==
  [i \in DOMAIN cells |-> IF i - at \in 1..Len(data) THEN data[i - at] ELSE cells[i]]

\* ManageSpace_: the vector grows,
Resized(b, n) == [b EXCEPT !.cells = @ \o Zeros(n - Len(@))]

\* Mutant: the positions move, the data does not.
MutCompacted(b) == [b EXCEPT !.read = 0, !.write = ReadableBytes(b)]

\* or what is readable moves to its front.
Compacted(b) ==
  [cells |-> Copied(b.cells, Readable(b), 0), read |-> 0, write |-> ReadableBytes(b)]

ManageSpace_(b, len) ==
  IF PreWritableBytes(b) + PostWritableBytes(b) < len
    THEN Resized(b, b.write + len + 1) ELSE Compacted(b)

EnsureWritable(b, len) == IF PostWritableBytes(b) < len THEN ManageSpace_(b, len) ELSE b

Written(b, data) ==
  [b EXCEPT !.cells = Copied(@, data, b.write), !.write = @ + Len(data)]

\* What strlen leaves of the data: all that comes before the first zero.
Text(data) ==
  LET zero == SelectInSeq(data, LAMBDA c : c = Nul) IN
  IF zero = 0 THEN data ELSE SubSeq(data, 1, zero - 1)

AppendData(b, data) == Written(EnsureWritable(b, Len(Text(data))), Text(data))

\* RetrieveUntil and Retrieve: within the readable part.
Retrieve(b, len) == [b EXCEPT !.read = @ + len]

RetrieveAll(b) == [cells |-> Zeros(Len(b.cells)), read |-> 0, write |-> 0]

\* One readv: how much it may return, and what becomes of the buffer.  What does not
\* fit goes through the second buffer to Append.
ReadMax(b) == PostWritableBytes(b) + Overflow

ReadFromFd(b, data) ==
  LET fits == SubSeq(data, 1, PostWritableBytes(b))
      rest == SubSeq(data, PostWritableBytes(b) + 1, Len(data))
  IN IF rest = <<>> THEN Written(b, data) ELSE AppendData(Written(b, fits), rest)
=============================================================================
