------------------------------- MODULE Bundle -------------------------------
(***************************************************************************)
(* A Bundle (src/src/db.rs) keeps chains in one file: save_to_file appends *)
(* one, save_chains_to_bundle writes several from the beginning of the     *)
(* file, load_chains_from_bundle reads them all.  One buffer serves them   *)
(* all.                                                                    *)
(*                                                                         *)
(* A tokio file takes the bytes of a write and says that it is done; they  *)
(* reach the file later, while the bundle goes on, or not all of them, and *)
(* nobody asks (nothing flushes).  Each call opens the file anew, so such  *)
(* writes may overtake each other.  One write reaches it in one step.      *)
(***************************************************************************)
EXTENDS Serializer, FiniteSets, SequencesExt

CONSTANTS
  Origin,       \* timestamp of the first block of each chain
  Gap,          \* its time_gap
  TimeSpace,    \* how many numbers the type u64 has, 2^64 in the code
  Empty,        \* the chains without a block, which have no origin
  Vectors,      \* what save_chains_to_bundle is called with
  SaveBound,    \* bound on the saves
  BufferBound   \* bound on the cells of the buffer when a load begins

ASSUME TimesAssumption ==
  /\ TimeSpace \in Nat \ {0}
  /\ Origin \in [Chains -> 0 .. TimeSpace - 1]
  /\ Gap \in [Chains -> 0 .. TimeSpace - 1]
  /\ Empty \subseteq Chains
ASSUME VectorsAssumption == Vectors \subseteq Seq(Chains)
ASSUME BoundsAssumption == SaveBound \in Nat /\ BufferBound \in Nat

VARIABLES
  pc,           \* "idle", or in load_chains_from_bundle, or at its end
  file,
  underway,      \* the writes that have not reached the file
  buffer,       \* of the serializer
  total,        \* cells read by the load
  loaded,       \* what the last load returned
  desc,         \* counter, origin and time_gap of the bundle
  saves,        \* the number of saves
  \* history:
  moved,        \* whether a write reached the file since the load began
  first,        \* the chains at the beginning of the file, see Land
  added         \* the chains that save_to_file returned since default_new

history == << moved, first, added >>
vars == << pc, file, underway, buffer, total, loaded, desc, saves, history >>

NoDesc == [counter |-> 0, origin |-> 0, gap |-> 0]

Init ==
  /\ pc = "idle"
  /\ file = << >>
  /\ underway = {}
  /\ buffer = Blank(B)
  /\ total = 0
  /\ loaded = << >>
  /\ desc = NoDesc
  /\ saves = 0
  /\ moved = FALSE /\ first = << >> /\ added = {}

-----------------------------------------------------------------------------
(***************************************************************************)
(* update_description_with_chain: the window from the first timestamp to   *)
(* the last one of all the chains.                                         *)
(***************************************************************************)
Later(a, b) == IF a > b THEN a ELSE b

Earlier(a, b) == IF a < b THEN a ELSE b

\* The sum and the difference of two u64, which wrap in a build without
\* overflow checks (with them they panic).
Plus(a, b) == IF a + b < TimeSpace THEN a + b ELSE a + b - TimeSpace

Minus(a, b) == IF b <= a THEN a - b ELSE a + TimeSpace - b

\* Mutant of Described: the longer time_gap instead of the later end.
DescribedByGap(d, c) ==
  IF c \in Empty THEN d
  ELSE IF d.counter = 0
    THEN [counter |-> 1, origin |-> Origin[c], gap |-> Gap[c]]
  ELSE [counter |-> d.counter + 1, origin |-> Earlier(d.origin, Origin[c]),
        gap |-> Later(d.gap, Gap[c])]

Described(d, c) ==
  LET origin == Earlier(d.origin, Origin[c])
      max    == Later(Plus(d.origin, d.gap), Plus(Origin[c], Gap[c]))
  IN  IF c \in Empty THEN d
      ELSE IF d.counter = 0
        THEN [counter |-> 1, origin |-> Origin[c], gap |-> Gap[c]]
      ELSE [counter |-> d.counter + 1, origin |-> origin, gap |-> Minus(max, origin)]

(***************************************************************************)
(* tokio::fs::File: cells of cs on their way to the beginning or the end   *)
(* of the file.  saves tells writes apart.                                 *)
(***************************************************************************)
WriteOf(at, cells, cs) == [id |-> saves, at |-> at, cells |-> cells, cs |-> cs]

Submit(at, cells, cs) ==
  /\ saves < SaveBound
  /\ saves' = saves + 1
  /\ underway' = underway \cup {WriteOf(at, cells, cs)}

(***************************************************************************)
(* save_to_file, when the chain fits the buffer.                           *)
(***************************************************************************)
SaveToFile(c) ==
  /\ pc = "idle"
  /\ Fits(buffer, 0, c)
  /\ Submit("end", Entry(c), << >>)
  /\ buffer' = PutAt(buffer, 0, Entry(c))
  /\ desc' = Described(desc, c)
  /\ added' = added \cup {c}
  /\ UNCHANGED << pc, file, total, loaded, moved, first >>

(***************************************************************************)
(* write_all fails after n cells (db.rs:452): the bundle is not described  *)
(* anew, what was written stays, and the chain is not returned.            *)
(***************************************************************************)
SaveToFileFails(c, n) ==
  /\ pc = "idle"
  /\ Fits(buffer, 0, c)
  /\ n < Len(Entry(c))
  /\ Submit("end", SubSeq(Entry(c), 1, n), << >>)
  /\ buffer' = PutAt(buffer, 0, Entry(c))
  /\ UNCHANGED << pc, file, total, loaded, desc, history >>

(***************************************************************************)
(* When it does not, the buffer does not grow: an error, and the chain is  *)
(* not returned.                                                           *)
(***************************************************************************)
SaveTooLarge(c) ==
  /\ pc = "idle"
  /\ ~ Fits(buffer, 0, c)
  /\ buffer' = Spill(buffer, 0, c)
  /\ UNCHANGED << pc, file, underway, total, loaded, desc, saves, history >>

(***************************************************************************)
(* save_chains_to_bundle, of whose cells the one call of write took n: Ok  *)
(* if these are all, else Err.  It writes from the beginning of the file.  *)
(* Nothing of it comes into the description.                               *)
(***************************************************************************)
SaveChains(cs, n) ==
  LET enc == EncodeVec(buffer, cs)
  IN  /\ pc = "idle"
      /\ enc.status = "ok"
      /\ n <= enc.offset
      /\ Submit("start", SubSeq(enc.buffer, 1, n), cs)
      /\ buffer' = enc.buffer
      /\ UNCHANGED << pc, file, total, loaded, desc, history >>

SaveChainsNever(cs) ==
  /\ pc = "idle"
  /\ EncodeVec(buffer, cs).status # "ok"
  /\ pc' = EncodeVec(buffer, cs).status
  /\ UNCHANGED << file, underway, buffer, total, loaded, desc, saves, history >>

(***************************************************************************)
(* The first k entries of cs are whole in the first n cells of a write.    *)
(***************************************************************************)
Arrived(cs, k, n) ==
  \E o \in [0 .. k -> 0 .. n] :
    /\ o[0] = 0
    /\ \A i \in 1 .. k : o[i] = o[i - 1] + Size[cs[i]] + 1

(***************************************************************************)
(* The first n cells of a write reach the file, if it fails not all.  What *)
(* was in the file behind them stays.                                      *)
(***************************************************************************)
Land(w, n) ==
  /\ w \in underway
  /\ n <= Len(w.cells)
  /\ underway' = underway \ {w}
  /\ moved' = (pc \in {"loading", "loaded"})
  /\ UNCHANGED << pc, buffer, total, loaded, desc, saves, added >>

LandAtEnd(w, n) ==
  /\ w.at = "end"
  /\ Land(w, n)
  /\ file' = file \o SubSeq(w.cells, 1, n)
  /\ UNCHANGED first

LandAtStart(w, n) ==
  /\ w.at = "start"
  /\ Land(w, n)
  /\ file' = SubSeq(w.cells, 1, n) \o SubSeq(file, n + 1, Len(file))
  /\ \E k \in 0 .. Len(w.cs) :
       /\ Arrived(w.cs, k, n)
       /\ k < Len(w.cs) => ~ Arrived(w.cs, k + 1, n)
       /\ first' = SubSeq(w.cs, 1, k)

-----------------------------------------------------------------------------
Open ==
  /\ pc = "idle"
  /\ Len(buffer) <= BufferBound
  /\ pc' = "loading"
  /\ total' = 0
  /\ UNCHANGED << file, underway, buffer, loaded, desc, saves, history >>

(***************************************************************************)
(* A read gives as much as it likes, up to the size of the temporary       *)
(* buffer.                                                                 *)
(***************************************************************************)
Read(n) ==
  LET cells == SubSeq(file, total + 1, total + n)
  IN  /\ pc = "loading"
      /\ n <= B
      /\ total + n <= Len(file)
      /\ ~ ReadPanics(buffer, total, cells)
      /\ buffer' = ReadInto(buffer, total, cells)
      /\ total' = total + n
      /\ UNCHANGED << pc, file, underway, loaded, desc, saves, history >>

(***************************************************************************)
(* The end of the file ends the load, and so does a read that fails: what  *)
(* was read until then is decoded.                                         *)
(***************************************************************************)
EndOfRead ==
  /\ pc = "loading"
  /\ loaded' = Decode(SubSeq(buffer, 1, total))
  /\ pc' = "loaded"
  /\ UNCHANGED << file, underway, buffer, total, desc, saves, history >>

EndOfFile == total = Len(file) /\ EndOfRead

ReadFails == total < Len(file) /\ EndOfRead

Return ==
  /\ pc = "loaded"
  /\ pc' = "idle"
  /\ loaded' = << >>
  /\ total' = 0
  /\ moved' = FALSE
  /\ UNCHANGED << file, underway, buffer, desc, saves, first, added >>

(***************************************************************************)
(* The process is started again, with Bundle::default_new: the writes that *)
(* had not reached the file are lost.                                      *)
(***************************************************************************)
Restart ==
  /\ pc' = "idle"
  /\ underway' = {}
  /\ buffer' = Blank(B)
  /\ total' = 0
  /\ loaded' = << >>
  /\ desc' = NoDesc
  /\ moved' = FALSE /\ added' = {}
  /\ UNCHANGED << file, saves, first >>

Next ==
  \/ \E c \in Chains :
       \/ SaveToFile(c) \/ SaveTooLarge(c)
       \/ \E n \in 0 .. Size[c] : SaveToFileFails(c, n)
  \/ \E cs \in Vectors :
       \/ \E n \in 0 .. EncodeVec(buffer, cs).offset : SaveChains(cs, n)
       \/ SaveChainsNever(cs)
  \/ \E w \in underway : \E n \in 0 .. Len(w.cells) : LandAtEnd(w, n) \/ LandAtStart(w, n)
  \/ Open \/ (\E n \in 1 .. B : Read(n)) \/ EndOfFile \/ ReadFails \/ Return
  \/ Restart

Spec == Init /\ [][Next]_vars

-----------------------------------------------------------------------------
(***************************************************************************)
(* Types; the buffer of a bundle never gets smaller than BUFFER_SIZE,      *)
(* which every load counts on (serializer.rs:302).                         *)
(***************************************************************************)
TypeOK ==
  /\ pc \in {"idle", "loading", "loaded", "panic", "hang"}
  /\ file \in Seq(Cells)
  /\ buffer \in Seq(Cells) /\ Len(buffer) >= B
  /\ total \in 0 .. Len(file)
  /\ loaded \in Seq(Chains \cup {Bad})
  /\ desc \in [counter : Nat, origin : 0 .. TimeSpace - 1, gap : 0 .. TimeSpace - 1]
  /\ saves \in 0 .. SaveBound
  /\ underway \subseteq [id : 0 .. saves - 1, at : {"start", "end"},
                        cells : Seq(Cells), cs : Seq(Chains)]
  /\ moved \in BOOLEAN
  /\ first \in Seq(Chains)
  /\ added \subseteq Chains

(***************************************************************************)
(* read_all_from_stream never takes the branch that extends the buffer     *)
(* with the temporary one (serializer.rs:430): every read also extends it  *)
(* at the end, so a whole temporary buffer always has room.  That branch   *)
(* resizes the temporary buffer to nothing and would panic at 444.         *)
(***************************************************************************)
NoGrowth == pc = "loading" => Len(buffer) - total >= B

(***************************************************************************)
(* The buffer never gets too small, neither for the next load nor for the  *)
(* read under way.                                                         *)
(***************************************************************************)
BufferFits ==
  /\ TypeOK
  /\ NoGrowth

(***************************************************************************)
(* However the reads divide the file, and whatever the buffer held before, *)
(* load_chains_from_bundle returns what the file holds, if the file is     *)
(* smaller than BUFFER_SIZE or a chain has been loaded before, and if no   *)
(* write of an earlier save reaches it meanwhile.  A load that meets an    *)
(* error returns the beginning of it, and at its end at most one entry     *)
(* that is not whole.                                                      *)
(***************************************************************************)
LoadReturnsFile ==
  pc = "loaded" /\ ~ moved /\ (Len(file) < B \/ Len(buffer) - total > B) =>
    /\ total = Len(file) => loaded = Decode(file)
    /\ \/ IsPrefix(loaded, Decode(file))
       \/ /\ loaded # << >> /\ Last(loaded) = Bad
          /\ IsPrefix(Front(loaded), Decode(file))

(***************************************************************************)
(* The file begins with the vector whose write was the last to reach it,   *)
(* whatever the buffer and the file held and the buffer had to grow; with  *)
(* as much of it as was written, when the write was short (db.rs 484-493), *)
(* failed or was cut off.  No append and no load harms it.                 *)
(***************************************************************************)
VectorFirst == IsPrefix(first, Decode(file))

(***************************************************************************)
(* The description of a bundle is the smallest window of time around the   *)
(* chains that save_to_file returned since the bundle was made, if none of *)
(* them reaches past the last u64; chains without a block do not count.    *)
(* Of what save_chains_to_bundle writes it says nothing.                   *)
(***************************************************************************)
DescriptionCovers ==
  LET dated  == added \ Empty
      end(c) == Origin[c] + Gap[c]
  IN  dated # {} /\ (\A c \in dated : end(c) < TimeSpace) =>
        /\ desc.counter >= Cardinality(dated)
        /\ \A c \in dated : desc.origin <= Origin[c] /\ end(c) <= desc.origin + desc.gap
        /\ \E c \in dated : desc.origin = Origin[c]
        /\ \E c \in dated : end(c) = desc.origin + desc.gap

(***************************************************************************)
(* serializer.rs:407 "read all the data from the stream into the vector    *)
(* buffer, if the buffer is not enough, extend it": a load that read the   *)
(* whole file, which nobody wrote meanwhile, returns what the file holds.  *)
(***************************************************************************)
LoadReturnsAll ==
  pc = "loaded" /\ ~ moved /\ total = Len(file) => loaded = Decode(file)
=============================================================================
