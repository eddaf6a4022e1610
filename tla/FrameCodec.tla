----------------------------- MODULE FrameCodec -----------------------------
(***************************************************************************)
(* The frame codec (frame.rs, message.rs) under Framed, over a connection  *)
(* that delivers the bytes of one direction in pieces cut anywhere, and    *)
(* may break between any two of them.  It is TLS: an end that the sender   *)
(* did not announce (close_notify) is an error for its reader, also where  *)
(* TCP ends orderly.                                                       *)
(*                                                                         *)
(* Frames are real sequences of bytes, of bytes with fewer values and      *)
(* fields with fewer bytes than the code's.  The text of a control message *)
(* stands for the message; what serde makes of a text is that it parses or *)
(* does not.                                                               *)
(***************************************************************************)
EXTENDS Naturals, Sequences

CONSTANTS Base,            \* values of a byte (256)
          LengthBytes,     \* bytes of the length field (4)
          ReservedBytes,   \* reserved bytes in the header (2)
          IdBytes,         \* bytes of a connection id (8)
          MAX_FRAME_SIZE,  \* longest payload that is accepted (64 MiB)
          Json,            \* texts that are JSON of the type their frame names
          Messages,        \* messages that are sent
          MaxSent          \* messages sent in a behaviour

ASSUME CodecAssumption ==
    /\ Base \in Nat /\ Base > 9
    /\ {LengthBytes, ReservedBytes, IdBytes, MAX_FRAME_SIZE, MaxSent} \subseteq Nat

\* MessageType.  Types 1 to 6 have a JSON payload.
Data == 7
Ping == 8
Pong == 9
JsonTypes == 1 .. 6
MessageTypes == JsonTypes \cup {Data, Ping, Pong}

HEADER_SIZE == LengthBytes + 1 + ReservedBytes

\* How many values w bytes have.
Values[w \in Nat] == IF w = 0 THEN 1 ELSE Base * Values[w - 1]

\* to_be_bytes and from_be_bytes, for w bytes: a longer number loses its upper part.
ToBytes(n, w) == [i \in 1 .. w |-> (n \div Values[w - i]) % Base]
FromBytes(s) ==
    LET value[i \in 0 .. Len(s)] == IF i = 0 THEN 0 ELSE value[i - 1] * Base + s[i]
    IN  value[Len(s)]

VARIABLES sent,      \* messages given to encode
          wire,      \* bytes on their way
          closed,    \* nothing more can be sent
          broken,    \* the connection ended without the sender's announcement
          lost,      \* bytes were lost with it
          src,       \* the reader's buffer
          readable,  \* Framed may find a frame in the buffer
          eof,       \* Framed has read the end of the connection
          decoded,   \* messages that Framed has returned
          status     \* open; ended: next() returned None; failed: an error

vars == <<sent, wire, closed, broken, lost, src, readable, eof, decoded, status>>

Init ==
    /\ sent     = <<>>
    /\ wire     = <<>>
    /\ closed   = FALSE
    /\ broken   = FALSE
    /\ lost     = FALSE
    /\ src      = <<>>
    /\ readable = FALSE
    /\ eof      = FALSE
    /\ decoded  = <<>>
    /\ status   = "open"

-----------------------------------------------------------------------------
(* The codec *)

\* Mutant: the frame that ends a stream carries no id.
PayloadBare(m) ==
    IF m.type = Data /\ m.body # <<>> THEN ToBytes(m.id, IdBytes) \o m.body ELSE m.body

\* What follows the header: the JSON text, id and data, or nothing.
Payload(m) == IF m.type = Data THEN ToBytes(m.id, IdBytes) \o m.body ELSE m.body

\* What can be sent: an id fits its field, a text is JSON of the type, Ping and Pong
\* carry nothing, and no payload is so long that its length does not fit the header.
ASSUME MessagesAssumption ==
    /\ Messages \subseteq [type : MessageTypes, id : Nat, body : Seq(0 .. Base - 1)]
    /\ \A m \in Messages :
          /\ m.id < Values[IdBytes] /\ (m.type # Data => m.id = 0)
          /\ m.type \in JsonTypes => m.body \in Json
          /\ m.type \in {Ping, Pong} => m.body = <<>>
          /\ Len(Payload(m)) < Values[LengthBytes]

\* Mutant: the length counts the header too.
EncodeWhole(m) ==
    ToBytes(Len(Payload(m)) + HEADER_SIZE, LengthBytes) \o <<m.type>>
        \o ToBytes(0, ReservedBytes) \o Payload(m)

\* encode checks no length: `payload.len() as u32`.
encode(m) ==
    ToBytes(Len(Payload(m)), LengthBytes) \o <<m.type>>
        \o ToBytes(0, ReservedBytes) \o Payload(m)

Control(type, text) == [type |-> type, id |-> 0, body |-> text]
None(rest) == [result |-> "none", rest |-> rest]
Err(rest) == [result |-> "err", rest |-> rest]
Some(m, rest) == [result |-> "some", message |-> m, rest |-> rest]

\* DataMessage::decode: a payload too short for its id is no message, but consumed.
DecodeData(payload, rest) ==
    IF Len(payload) < IdBytes
    THEN None(rest)
    ELSE Some([type |-> Data,
               id |-> FromBytes(SubSeq(payload, 1, IdBytes)),
               body |-> SubSeq(payload, IdBytes + 1, Len(payload))], rest)

\* The payload of a whole frame of a known type.
Parse(type, payload, rest) ==
    CASE type \in JsonTypes ->
            IF payload \in Json THEN Some(Control(type, payload), rest) ELSE Err(rest)
      [] type = Data -> DecodeData(payload, rest)
      [] type \in {Ping, Pong} -> Some(Control(type, <<>>), rest)

\* Mutant: the header is consumed before the payload has arrived.
DecodeConsumes(s) ==
    LET length == FromBytes(SubSeq(s, 1, LengthBytes))
        end    == HEADER_SIZE + length
    IN  IF Len(s) < HEADER_SIZE THEN None(s)
        ELSE IF length > MAX_FRAME_SIZE THEN Err(s)
        ELSE IF Len(s) < end THEN None(SubSeq(s, HEADER_SIZE + 1, Len(s)))
        ELSE IF s[LengthBytes + 1] \notin MessageTypes THEN Err(s)
        ELSE Parse(s[LengthBytes + 1], SubSeq(s, HEADER_SIZE + 1, end),
                   SubSeq(s, end + 1, Len(s)))

\* decode: the result, and what it leaves in the buffer.
decode(s) ==
    LET length == FromBytes(SubSeq(s, 1, LengthBytes))
        end    == HEADER_SIZE + length
    IN  IF Len(s) < HEADER_SIZE THEN None(s)
        ELSE IF length > MAX_FRAME_SIZE THEN Err(s)
        ELSE IF Len(s) < end THEN None(s)
        ELSE IF s[LengthBytes + 1] \notin MessageTypes THEN Err(s)
        ELSE Parse(s[LengthBytes + 1], SubSeq(s, HEADER_SIZE + 1, end),
                   SubSeq(s, end + 1, Len(s)))

-----------------------------------------------------------------------------
(* The connection *)

\* framed.send: the message is encoded and its bytes set off.
Send(m) ==
    /\ ~closed
    /\ Len(sent) < MaxSent
    /\ sent' = Append(sent, m)
    /\ wire' = wire \o encode(m)
    /\ UNCHANGED <<closed, broken, lost, src, readable, eof, decoded, status>>

\* framed.close(): the announcement of the end follows the last byte.
Close ==
    /\ ~closed
    /\ closed' = TRUE
    /\ UNCHANGED <<sent, wire, broken, lost, src, readable, eof, decoded, status>>

\* The sender drops its end, or dies, or the connection is reset: of the bytes
\* under way only the first n arrive, and no announcement.
Break(n) ==
    /\ ~broken /\ ~eof
    /\ closed' = TRUE
    /\ broken' = TRUE
    /\ lost' = (n < Len(wire))
    /\ wire' = SubSeq(wire, 1, n)
    /\ UNCHANGED <<sent, src, readable, eof, decoded, status>>

\* The next n bytes arrive.  Framed reads only after decode asked for more.
Arrive(n) ==
    /\ status = "open" /\ ~readable /\ ~eof
    /\ src' = src \o SubSeq(wire, 1, n)
    /\ wire' = SubSeq(wire, n + 1, Len(wire))
    /\ readable' = TRUE
    /\ UNCHANGED <<sent, closed, broken, lost, eof, decoded, status>>

\* The read returns 0 bytes.
ReadEof ==
    /\ status = "open" /\ ~readable /\ ~eof
    /\ closed /\ ~broken /\ wire = <<>>
    /\ eof' = TRUE
    /\ readable' = TRUE
    /\ UNCHANGED <<sent, wire, closed, broken, lost, src, decoded, status>>

\* The read fails: Framed returns the error, FrameError::Io, and whatever part of
\* a frame is in the buffer is dropped with it.
ReadFails ==
    /\ status = "open" /\ ~readable
    /\ broken /\ wire = <<>>
    /\ status' = "failed"
    /\ UNCHANGED <<sent, wire, closed, broken, lost, src, readable, eof, decoded>>

\* Framed calls decode on the buffer: a message is returned and Framed asked for
\* the next; with None it waits for more bytes or, at the end of the connection,
\* ends, which is an error if bytes remain; an error is returned and is the last.
PollNext(d) ==
    /\ status = "open" /\ readable
    /\ src' = d.rest
    /\ \/ /\ d.result = "some"
          /\ decoded' = Append(decoded, d.message)
          /\ UNCHANGED <<readable, status>>
       \/ /\ d.result = "none"
          /\ readable' = FALSE
          /\ status' = IF ~eof THEN "open" ELSE IF d.rest = <<>> THEN "ended" ELSE "failed"
          /\ UNCHANGED decoded
       \/ /\ d.result = "err"
          /\ status' = "failed"
          /\ UNCHANGED <<decoded, readable>>
    /\ UNCHANGED <<sent, wire, closed, broken, lost, eof>>

Read == PollNext(decode(src)) \/ ReadEof \/ ReadFails \/ \E n \in 1 .. Len(wire) : Arrive(n)

Next ==
    \/ \E m \in Messages : Send(m)
    \/ Close
    \/ \E n \in 0 .. Len(wire) : Break(n)
    \/ Read

Spec == Init /\ [][Next]_vars

\* Every task that has a Framed polls it, and bytes under way arrive.
FairSpec == Spec /\ WF_vars(Read)

-----------------------------------------------------------------------------
(* Properties *)

\* encode does not refuse what decode will.
TooLarge(m) == Len(Payload(m)) > MAX_FRAME_SIZE

\* What comes out of Framed is what was put in, from the first message on, in
\* order and unchanged, wherever the bytes are cut and whatever they look like,
\* and it fails for a reason only: the codec implements MessageStream.
Stream == INSTANCE MessageStream WITH
              received <- decoded,
              TooLong  <- {m \in Messages : TooLarge(m)}
StreamSpec == Stream!Spec

\* The reader learns of every loss: it sees an orderly end only when everything
\* sent has been returned, and an error only when the connection broke or the
\* next message is too long; messages before that one are not lost with it.
EndsForCause ==
    LET rest == SubSeq(sent, Len(decoded) + 1, Len(sent))
    IN  /\ status = "ended" => src = <<>> /\ rest = <<>>
        /\ status = "failed" => broken \/ (rest # <<>> /\ TooLarge(Head(rest)))

\* No message waits in the buffer for bytes that need not come: whatever was
\* sent is returned, although nothing is sent after it, unless it was lost or
\* comes after a message that is too long.
Delivered ==
    \A n \in 1 .. MaxSent :
        Len(sent) >= n ~>
            Len(decoded) >= n \/ lost \/ \E i \in 1 .. Len(sent) : i <= n /\ TooLarge(sent[i])
=============================================================================
