-------------------------------- MODULE Wire --------------------------------
(***************************************************************************)
(* How messages travel (src/src/network/protocol.rs): a header with the    *)
(* length of the message, its signature and the key of the signer, then    *)
(* the message; in a datagram, or in a stream.  Frames are sequences of    *)
(* cells, of which a header has H.  A datagram may be lost, arrive twice   *)
(* or late, and a stream gives its reader whatever it holds.               *)
(***************************************************************************)
EXTENDS Naturals, Sequences, FiniteSets

CONSTANTS
  Nodes,
  Msgs,         \* what is sent
  Reader,       \* the node that reads the stream
  H,            \* Header::header_size()
  MAX,          \* MAX_UDP_MSG_SIZE
  SendBound,    \* bound on the messages sent
  Zero

(***************************************************************************)
(* sender and receiver are the names in the message, signer the identity   *)
(* that signs it, size the cells of the message without its header.        *)
(***************************************************************************)
Message == [sender : Nodes, signer : Nodes, receiver : Nodes, size : Nat \ {0}]

ASSUME MsgsAssumption == Msgs \subseteq Message /\ Reader \in Nodes
ASSUME SizesAssumption == H \in Nat \ {0} /\ MAX \in Nat /\ SendBound \in Nat

VARIABLES
  sent,       \* the messages sent in datagrams so far
  written,    \* the messages written to the stream so far, in order
  net,        \* datagrams under way
  accepted,   \* << node, message >> that decoding returned
  stream,     \* the cells written and not yet read
  closed,     \* the writer of the stream is gone
  header,     \* what from_stream took as the header: its message and length
  rpc         \* from_stream reads a "header" or a "body", or met the "end"

vars == << sent, written, net, accepted, stream, closed, header, rpc >>

Header(m) == [i \in 1 .. H |-> << m, "header", i >>]

Body(m) == [i \in 1 .. m.size |-> << m, "message", i >>]

(***************************************************************************)
(* Message::encode and encode_into_slice fill a buffer of MAX cells alike, *)
(* but return the size with and without the header.                        *)
(***************************************************************************)
Encodes(m) == H + m.size <= MAX

Buffer(m) ==
  LET frame == Header(m) \o Body(m)
  IN  [i \in 1 .. MAX |-> IF i <= H + m.size THEN frame[i] ELSE Zero]

(***************************************************************************)
(* The message whose header is made of these cells; any other cells make a *)
(* header of nobody's.                                                     *)
(***************************************************************************)
Owner(cells) ==
  IF \E m \in Msgs : cells = Header(m)
  THEN {CHOOSE m \in Msgs : cells = Header(m)}
  ELSE {}

\* Mutant of Valid: the name of the receiver is not compared.
ValidForAll(me, owner, body) ==
  \E m \in owner : body = Body(m) /\ m.sender = m.signer

(***************************************************************************)
(* decode_from_slice_with_header: the signature is of these cells, by the  *)
(* sender, for me.                                                         *)
(***************************************************************************)
Valid(me, owner, body) ==
  \E m \in owner :
    /\ body = Body(m)
    /\ m.sender = m.signer
    /\ m.receiver = me

(***************************************************************************)
(* Message::decode_from_slice on what came in a datagram.                  *)
(***************************************************************************)
Decoded(me, cells) ==
  IF Len(cells) < H THEN {}
  ELSE {m \in Owner(SubSeq(cells, 1, H)) :
          /\ Len(cells) >= H + m.size
          /\ Valid(me, {m}, SubSeq(cells, H + 1, H + m.size))}

Init ==
  /\ sent = {}
  /\ written = << >>
  /\ net = {}
  /\ accepted = {}
  /\ stream = << >>
  /\ closed = FALSE
  /\ header = [owner |-> {}, length |-> 0]
  /\ rpc = "header"

-----------------------------------------------------------------------------
MaySend == Cardinality(sent) + Len(written) < SendBound

Put(m, to, size) ==
  /\ sent' = sent \cup {m}
  /\ net' = net \cup {[to |-> to, cells |-> SubSeq(Buffer(m), 1, size)]}
  /\ UNCHANGED << written, accepted, stream, closed, header, rpc >>

\* Mutant of SendPadded: the size of the message for that of the frame.
SendCut(m, to) ==
  MaySend /\ Encodes(m) /\ 2 * H + m.size <= MAX /\ Put(m, to, m.size)

(***************************************************************************)
(* UdpConnection::udp_send_to adds the size of the header to a size that   *)
(* has it.  A slice longer than the buffer panics: nothing is sent.        *)
(***************************************************************************)
SendPadded(m, to) ==
  MaySend /\ Encodes(m) /\ 2 * H + m.size <= MAX /\ Put(m, to, 2 * H + m.size)

(***************************************************************************)
(* The sending task of a node hands on the frame as long as it is.         *)
(***************************************************************************)
SendExact(m, to) == MaySend /\ Encodes(m) /\ Put(m, to, H + m.size)

(***************************************************************************)
(* A node takes a datagram; the network may keep a copy.                   *)
(***************************************************************************)
Receive(d, copy) ==
  /\ d \in net
  /\ net' = IF copy THEN net ELSE net \ {d}
  /\ accepted' = accepted \cup {<< d.to, m >> : m \in Decoded(d.to, d.cells)}
  /\ UNCHANGED << sent, written, stream, closed, header, rpc >>

Lose(d) ==
  /\ d \in net
  /\ net' = net \ {d}
  /\ UNCHANGED << sent, written, accepted, stream, closed, header, rpc >>

-----------------------------------------------------------------------------
(***************************************************************************)
(* Message::into_stream writes the first cells of the buffer, as many as   *)
(* the message has without its header.                                     *)
(***************************************************************************)
IntoStream(m) ==
  /\ MaySend
  /\ ~ closed
  /\ Encodes(m)
  /\ written' = Append(written, m)
  /\ stream' = stream \o SubSeq(Buffer(m), 1, m.size)
  /\ UNCHANGED << sent, net, accepted, closed, header, rpc >>

Close ==
  /\ ~ closed
  /\ closed' = TRUE
  /\ UNCHANGED << sent, written, net, accepted, stream, header, rpc >>

(***************************************************************************)
(* Header::from_stream.  Cells that are no header decode as one, too, with *)
(* any length.                                                             *)
(***************************************************************************)
ReadHeader ==
  LET owner == Owner(SubSeq(stream, 1, H))
  IN  /\ rpc = "header"
      /\ Len(stream) >= H
      /\ \E length \in IF owner = {} THEN 0 .. MAX ELSE {m.size : m \in owner} :
           header' = [owner |-> owner, length |-> length]
      /\ stream' = SubSeq(stream, H + 1, Len(stream))
      /\ rpc' = "body"
      /\ UNCHANGED << sent, written, net, accepted, closed >>

(***************************************************************************)
(* The rest of Message::from_stream.  After an error, too, the next call   *)
(* goes on behind these cells.                                             *)
(***************************************************************************)
ReadBody ==
  LET body == SubSeq(stream, 1, header.length)
  IN  /\ rpc = "body"
      /\ Len(stream) >= header.length
      /\ accepted' = accepted \cup
           {<< Reader, m >> : m \in {x \in header.owner : Valid(Reader, {x}, body)}}
      /\ stream' = SubSeq(stream, header.length + 1, Len(stream))
      /\ rpc' = "header"
      /\ header' = [owner |-> {}, length |-> 0]
      /\ UNCHANGED << sent, written, net, closed >>

(***************************************************************************)
(* read_exact on a stream that ended fails.                                *)
(***************************************************************************)
ReadEnds ==
  /\ closed
  /\ \/ rpc = "header" /\ Len(stream) < H
     \/ rpc = "body" /\ Len(stream) < header.length
  /\ rpc' = "end"
  /\ UNCHANGED << sent, written, net, accepted, stream, closed, header >>

Next ==
  \/ \E m \in Msgs, to \in Nodes : SendPadded(m, to) \/ SendExact(m, to)
  \/ \E d \in net : Lose(d) \/ \E copy \in BOOLEAN : Receive(d, copy)
  \/ \E m \in Msgs : IntoStream(m)
  \/ Close \/ ReadHeader \/ ReadBody \/ ReadEnds

Spec == Init /\ [][Next]_vars

-----------------------------------------------------------------------------
(***************************************************************************)
(* Types; the stream never holds more than the messages without headers.   *)
(***************************************************************************)
TypeOK ==
  /\ sent \subseteq Msgs
  /\ written \in Seq(Msgs)
  /\ \A d \in net : d.to \in Nodes /\ Len(d.cells) \in 1 .. MAX
  /\ accepted \subseteq Nodes \X Msgs
  /\ Len(stream) <= Len(written) * (MAX - H)
  /\ closed \in BOOLEAN
  /\ header.owner \subseteq Msgs /\ header.length \in 0 .. MAX
  /\ rpc \in {"header", "body", "end"}

WasSent(m) == m \in sent \/ \E i \in DOMAIN written : written[i] = m

(***************************************************************************)
(* A node accepts only what was sent, to it, by the node that signed it:   *)
(* whichever way it came, whoever else got a copy, and however far out of  *)
(* step the reader of a stream is (protocol.rs:471, 479).                  *)
(***************************************************************************)
AcceptedAsSent ==
  \A p \in accepted :
    /\ WasSent(p[2])
    /\ p[2].receiver = p[1]
    /\ p[2].sender = p[2].signer

(***************************************************************************)
(* A datagram on its way to the node its message names decodes to this     *)
(* message, padded or not (udp.rs:89); at another node it is refused.      *)
(***************************************************************************)
DatagramsDecode ==
  \A d \in net :
    \E m \in Msgs :
      /\ m \in sent
      /\ Decoded(d.to, d.cells) =
           IF m.receiver = d.to /\ m.sender = m.signer THEN {m} ELSE {}

(***************************************************************************)
(* Frames fit their datagrams, streams hold what was written, and what is  *)
(* under way can be decoded.                                               *)
(***************************************************************************)
FramesInv ==
  /\ TypeOK
  /\ DatagramsDecode

=============================================================================
