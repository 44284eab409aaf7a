----------------------------- MODULE Serializer -----------------------------
(***************************************************************************)
(* How chains become bytes and chains again (src/src/serializer.rs).  A    *)
(* cell stands for four bytes: a size header is one cell, and chain c is   *)
(* encoded in Size[c] more.  The buffer of a serializer and a file are     *)
(* sequences of cells.                                                     *)
(***************************************************************************)
EXTENDS Naturals, Sequences

CONSTANTS
  Chains,
  Size,       \* cells of each chain, as bincode encodes it
  B,          \* BUFFER_SIZE
  Zero,       \* a cell of zeros
  Bad         \* decoding fails or panics, or yields what nobody encoded

ASSUME SizeAssumption == Size \in [Chains -> Nat \ {0}]
ASSUME BadAssumption == Bad \notin Chains
ASSUME BAssumption == B \in Nat \ {0, 1}

Cells == (Chains \X Nat) \cup {Zero}

(***************************************************************************)
(* The header of c is its cell 0.                                          *)
(***************************************************************************)
Entry(c) == [i \in 1 .. Size[c] + 1 |-> << c, i - 1 >>]

Blank(n) == [i \in 1 .. n |-> Zero]

(***************************************************************************)
(* resize: cut, or fill with zeros.                                        *)
(***************************************************************************)
Resize(buffer, n) ==
  [i \in 1 .. n |-> IF i <= Len(buffer) THEN buffer[i] ELSE Zero]

(***************************************************************************)
(* copy_from_slice into buffer[offset ..].                                 *)
(***************************************************************************)
PutAt(buffer, offset, cells) ==
  [i \in 1 .. Len(buffer) |->
     IF i \in offset + 1 .. offset + Len(cells) THEN cells[i - offset]
     ELSE buffer[i]]

Fits(buffer, offset, c) == offset + Size[c] + 1 <= Len(buffer)

(***************************************************************************)
(* What encode_into_slice leaves in the buffer when it runs out of room:   *)
(* the beginning of the chain, without its header.                         *)
(***************************************************************************)
Spill(buffer, offset, c) ==
  [i \in 1 .. Len(buffer) |->
     IF i > offset + 1 THEN << c, i - offset - 1 >> ELSE buffer[i]]

-----------------------------------------------------------------------------
\* Mutant of EncodeNext: the next chain begins where the data of this one
\* would end without its header.
EncodeNextOverlaps(st, c) ==
  LET grown == Resize(st.buffer, 2 * B)
      put(b) == [st EXCEPT !.buffer = PutAt(b, st.offset, Entry(c)),
                           !.offset = @ + Size[c]]
      stop(status) == [st EXCEPT !.status = status]
  IN  IF st.status # "ok"                   THEN st
      ELSE IF st.offset >= Len(st.buffer)   THEN stop("panic")
      ELSE IF Fits(st.buffer, st.offset, c) THEN put(st.buffer)
      ELSE IF st.offset >= 2 * B            THEN stop("panic")
      ELSE IF Fits(grown, st.offset, c)     THEN put(grown)
      ELSE stop("hang")

(***************************************************************************)
(* encode_vec_into.  Without room, the buffer is resized to a size that is *)
(* the same each time, and the chain tried again.  A slice that begins     *)
(* behind the end of the buffer panics.                                    *)
(***************************************************************************)
EncodeNext(st, c) ==
  LET grown == Resize(st.buffer, 2 * B)
      put(b) == [st EXCEPT !.buffer = PutAt(b, st.offset, Entry(c)),
                           !.offset = @ + Size[c] + 1]
      stop(status) == [st EXCEPT !.status = status]
  IN  IF st.status # "ok"                   THEN st
      ELSE IF st.offset >= Len(st.buffer)   THEN stop("panic")
      ELSE IF Fits(st.buffer, st.offset, c) THEN put(st.buffer)
      ELSE IF st.offset >= 2 * B            THEN stop("panic")
      ELSE IF Fits(grown, st.offset, c)     THEN put(grown)
      ELSE stop("hang")

EncodeVec(buffer, cs) ==
  LET after[n \in 0 .. Len(cs)] ==
        IF n = 0 THEN [buffer |-> buffer, offset |-> 0, status |-> "ok"]
        ELSE EncodeNext(after[n - 1], cs[n])
  IN  after[Len(cs)]

-----------------------------------------------------------------------------
\* Mutant of ReadInto: no extension at the end.
ReadIntoPlace(buffer, total, cells) == PutAt(buffer, total, cells)

\* Mutant of ReadInto: the buffer is only extended.
ReadIntoEnd(buffer, total, cells) == buffer \o cells

(***************************************************************************)
(* One round of read_all_from_stream, with what the stream gave.  In place *)
(* only if it leaves room; behind the end of the buffer in any case.  If   *)
(* it does not fit, the temporary buffer is resized to nothing and then    *)
(* sliced, which panics.                                                   *)
(***************************************************************************)
ReadInto(buffer, total, cells) ==
  (IF Len(buffer) > total + Len(cells) THEN PutAt(buffer, total, cells) ELSE buffer)
    \o cells

ReadPanics(buffer, total, cells) == Len(buffer) < total + Len(cells)

(***************************************************************************)
(* get_header and decode_from_slice give c at p: its cells are all there,  *)
(* below the header that says how many they are.                           *)
(***************************************************************************)
Whole(cells, p, c) ==
  /\ p + Size[c] <= Len(cells)
  /\ SubSeq(cells, p, p + Size[c]) = Entry(c)

(***************************************************************************)
(* decode_from_slice_with_header: entry after entry.  Anything but a whole *)
(* entry under its header is Bad, and the end.                             *)
(***************************************************************************)
Decode(cells) ==
  LET from[p \in 1 .. Len(cells) + 1] ==
        IF p > Len(cells) THEN << >>
        ELSE IF \E c \in Chains : Whole(cells, p, c)
          THEN LET c == CHOOSE x \in Chains : Whole(cells, p, x)
               IN  << c >> \o from[p + Size[c] + 1]
        ELSE << Bad >>
  IN  from[1]
=============================================================================
