---------------------------- MODULE EventStream ----------------------------
(***************************************************************************)
(* The decoder of events.watch (_decode_stream, src/deixic/client.py): a    *)
(* generator that reads the response body in chunks, cuts it into Connect   *)
(* envelopes, yields the messages, and tells a whole stream from one that   *)
(* was cut off.                                                             *)
(*                                                                          *)
(* The body is any sequence of bytes in any chunks; it ends, breaks off, or *)
(* is left by the consumer.  Empty chunks change nothing and are left out.  *)
(* The four bytes of an envelope's length are one byte here, and a payload  *)
(* is as good a message or an end envelope as its bytes make it.            *)
(***************************************************************************)
EXTENDS Naturals, Sequences

CONSTANTS
    MaxByte,      \* bytes are 0..MaxByte
    MaxFrame,     \* _MAX_STREAM_FRAME_BYTES
    MaxChunk,     \* bound: bytes that one chunk has
    MaxBody       \* bound: bytes of the body

ASSUME StreamAssumption ==
    MaxByte \in Nat /\ MaxFrame \in Nat /\ MaxChunk \in Nat /\ MaxBody \in Nat

VARIABLES
    at,           \* where the generator is
    buffer,       \* bytes received and not yet decoded
    ended,        \* the end envelope was decoded
    open,         \* the response is open
    delivered,    \* the messages yielded
    wire,         \* history: the bytes received
    cuts          \* history: where in wire the envelopes began, and the next does

vars == <<at, buffer, ended, open, delivered, wire, cuts>>

Bytes == 0..MaxByte

Header == 2

(* The envelope at the front of bytes b. *)
Flags(b) == b[1]
Length(b) == b[2]
HasHeader(b) == Len(b) >= Header

HasFrame(b) == HasHeader(b) /\ Len(b) >= Header + Length(b)
Payload(b) == SubSeq(b, Header + 1, Header + Length(b))

(* Mutant of Rest: the header stays in the buffer. *)
RestWithHeader(b) == SubSeq(b, Length(b) + 1, Len(b))

Rest(b) == SubSeq(b, Header + Length(b) + 1, Len(b))

(* ParseFromString accepts every payload without the byte 3. *)
IsMessage(payload) == \A i \in 1..Len(payload) : payload[i] # 3

(* An end envelope's JSON: an object without "error", an object whose error *)
(* is an object, or anything else, such as no JSON at all.                  *)
EndKind(payload) ==
    IF payload = << >> THEN "invalid"
    ELSE IF payload[1] = 0 THEN "object"
    ELSE IF payload[1] = 1 THEN "error" ELSE "invalid"

Init ==
    /\ at = "unstarted"
    /\ buffer = << >>
    /\ ended = FALSE
    /\ open = TRUE
    /\ delivered = << >>
    /\ wire = << >>
    /\ cuts = <<0>>

(* The generator ends, in its finally the response is closed. *)
Finish(how) ==
    /\ at' = how
    /\ open' = FALSE

----------------------------------------------------------------------------
(* The generator. *)

(* The consumer's first next(). *)
Start ==
    /\ at = "unstarted"
    /\ at' = "reading"
    /\ UNCHANGED <<buffer, ended, open, delivered, wire, cuts>>

(* Mutant of Receive: bytes after the end envelope are decoded. *)
ReceiveAfterEnd(chunk) ==
    /\ at = "reading"
    /\ wire' = wire \o chunk
    /\ at' = "decoding" /\ buffer' = buffer \o chunk
    /\ UNCHANGED <<open, ended, delivered, cuts>>

(* A chunk; after the end envelope none may come. *)
Receive(chunk) ==
    /\ at = "reading"
    /\ wire' = wire \o chunk
    /\ IF ended
       THEN Finish("protocol") /\ UNCHANGED buffer
       ELSE at' = "decoding" /\ buffer' = buffer \o chunk /\ UNCHANGED open
    /\ UNCHANGED <<ended, delivered, cuts>>

(* Mutant of EndOfBody: no end envelope is needed. *)
EndOfBodyUnchecked ==
    /\ at = "reading"
    /\ Finish(IF buffer # << >> THEN "protocol" ELSE "returned")
    /\ UNCHANGED <<buffer, ended, delivered, wire, cuts>>

(* The end of the body: an envelope was cut off, or no end was seen, or all *)
(* is well.                                                                 *)
EndOfBody ==
    /\ at = "reading"
    /\ Finish(IF buffer # << >> \/ ~ended THEN "protocol" ELSE "returned")
    /\ UNCHANGED <<buffer, ended, delivered, wire, cuts>>

(* The transport raises. *)
Break ==
    /\ at = "reading"
    /\ Finish("transport")
    /\ UNCHANGED <<buffer, ended, delivered, wire, cuts>>

(* No whole envelope is left: the next chunk. *)
NeedMore ==
    /\ at = "decoding"
    /\ HasHeader(buffer) => Length(buffer) <= MaxFrame
    /\ ~HasFrame(buffer)
    /\ at' = "reading"
    /\ UNCHANGED <<buffer, ended, open, delivered, wire, cuts>>

(* A length beyond the limit is refused before the payload is there. *)
Oversize ==
    /\ at = "decoding"
    /\ HasHeader(buffer)
    /\ Length(buffer) > MaxFrame
    /\ Finish("protocol")
    /\ UNCHANGED <<buffer, ended, delivered, wire, cuts>>

Decodable == at = "decoding" /\ HasFrame(buffer) /\ Length(buffer) <= MaxFrame

TakeFrame ==
    /\ buffer' = Rest(buffer)
    /\ cuts' = Append(cuts, cuts[Len(cuts)] + Header + Length(buffer))

(* A message is yielded. *)
Message ==
    /\ Decodable
    /\ Flags(buffer) = 0
    /\ IsMessage(Payload(buffer))
    /\ TakeFrame
    /\ delivered' = Append(delivered, Payload(buffer))
    /\ at' = "yielded"
    /\ UNCHANGED <<ended, open, wire>>

(* The end envelope, with nothing after it in the buffer. *)
End ==
    /\ Decodable
    /\ Flags(buffer) = 2
    /\ EndKind(Payload(buffer)) = "object"
    /\ Rest(buffer) = << >>
    /\ TakeFrame
    /\ ended' = TRUE
    /\ at' = "reading"
    /\ UNCHANGED <<open, delivered, wire>>

(* An end envelope that carries the error of the server. *)
ServerError ==
    /\ Decodable
    /\ Flags(buffer) = 2
    /\ EndKind(Payload(buffer)) = "error"
    /\ TakeFrame
    /\ Finish("server_error")
    /\ UNCHANGED <<ended, delivered, wire>>

(* Any other envelope: other flags, no message, no end, bytes after the end. *)
Refuse ==
    /\ Decodable
    /\ \/ Flags(buffer) \notin {0, 2}
       \/ Flags(buffer) = 0 /\ ~IsMessage(Payload(buffer))
       \/ Flags(buffer) = 2 /\ EndKind(Payload(buffer)) = "invalid"
       \/ Flags(buffer) = 2 /\ EndKind(Payload(buffer)) = "object" /\ Rest(buffer) # << >>
    /\ TakeFrame
    /\ Finish("protocol")
    /\ UNCHANGED <<ended, delivered, wire>>

(* Mutant of Resume: the next chunk, without another look at the buffer. *)
ResumeReading ==
    /\ at = "yielded"
    /\ at' = "reading"
    /\ UNCHANGED <<buffer, ended, open, delivered, wire, cuts>>

(* The consumer's next() after a message. *)
Resume ==
    /\ at = "yielded"
    /\ at' = "decoding"
    /\ UNCHANGED <<buffer, ended, open, delivered, wire, cuts>>

(* The consumer closes the generator.  One that was not started has no      *)
(* finally to run: its response stays open.                                 *)
Close ==
    /\ at \in {"unstarted", "yielded"}
    /\ at' = "closed"
    /\ open' = (at = "unstarted")
    /\ UNCHANGED <<buffer, ended, delivered, wire, cuts>>

Chunks == UNION {[1..n -> Bytes] : n \in 1..MaxChunk}

Next ==
    \/ Start \/ Resume \/ Close
    \/ \E chunk \in Chunks : Len(wire) + Len(chunk) <= MaxBody /\ Receive(chunk)
    \/ EndOfBody \/ Break
    \/ NeedMore \/ Oversize \/ Message \/ End \/ ServerError \/ Refuse

Spec == Init /\ [][Next]_vars

----------------------------------------------------------------------------
(* The reference: what a body that arrived as a whole means. *)

Verdict(messages, how) == [messages |-> messages, how |-> how]

Reading[b \in Seq(Bytes)] ==
    IF HasHeader(b) /\ Length(b) > MaxFrame THEN Verdict(<< >>, "protocol")
    ELSE IF ~HasFrame(b) THEN Verdict(<< >>, "partial")
    ELSE IF Flags(b) = 0 /\ IsMessage(Payload(b))
         THEN Verdict(<<Payload(b)>> \o Reading[Rest(b)].messages, Reading[Rest(b)].how)
    ELSE IF Flags(b) = 2 /\ EndKind(Payload(b)) = "error" THEN Verdict(<< >>, "server_error")
    ELSE IF Flags(b) = 2 /\ EndKind(Payload(b)) = "object" /\ Rest(b) = << >>
         THEN Verdict(<< >>, "returned")
    ELSE Verdict(<< >>, "protocol")

----------------------------------------------------------------------------
(* Properties. *)

Running == {"reading", "decoding", "yielded"}
Finals == {"returned", "protocol", "server_error", "transport", "closed"}

TypeOK ==
    /\ at \in {"unstarted"} \cup Running \cup Finals
    /\ buffer \in Seq(Bytes)
    /\ ended \in BOOLEAN
    /\ open \in BOOLEAN
    /\ delivered \in Seq(Seq(Bytes))
    /\ wire \in Seq(Bytes)
    /\ cuts \in Seq(Nat)

(* What is read from a body does not depend on its chunks: the messages are *)
(* those of the body as a whole, and so is the end, unless the transport    *)
(* failed or the consumer left (client.py:438-498).                         *)
DecodesAsWhole ==
    LET whole == Reading[wire] IN
    /\ Len(delivered) <= Len(whole.messages)
    /\ delivered = SubSeq(whole.messages, 1, Len(delivered))
    /\ at \in {"returned", "server_error", "protocol"} =>
         /\ delivered = whole.messages
         /\ at = IF whole.how = "partial" THEN "protocol" ELSE whole.how

(* The generator waits for bytes only when every message it has received    *)
(* was yielded: none lies in the buffer until the next event of a quiet     *)
(* channel comes (client.py:438).                                           *)
NoMessageWaits == at = "reading" => delivered = Reading[wire].messages

(* What follows position i of bytes b, and of the body. *)
Suffix(b, i) == SubSeq(b, i + 1, Len(b))
Envelope(i) == Suffix(wire, i)

(* The generator returns, and the consumer sees the end of the stream, only *)
(* if the body is whole: after the messages yielded comes an end envelope   *)
(* without an error, and it ends where the body does (client.py:491-498).   *)
EndIsWhole ==
    at = "returned" =>
        LET end == cuts[Len(delivered) + 1]
            envelope == Envelope(end)
        IN  /\ HasFrame(envelope)
            /\ Flags(envelope) = 2
            /\ EndKind(Payload(envelope)) = "object"
            /\ end + Header + Length(envelope) = Len(wire)

(* The envelopes lie end to end from the start of the body; each message    *)
(* yielded is the payload of one of them, in order.                         *)
EnvelopesFit ==
    /\ Len(cuts) >= 1 /\ cuts[1] = 0
    /\ \A i \in 1..(Len(cuts) - 1) :
         /\ HasFrame(Envelope(cuts[i]))
         /\ Length(Envelope(cuts[i])) <= MaxFrame
         /\ cuts[i + 1] = cuts[i] + Header + Length(Envelope(cuts[i]))
    /\ Len(delivered) <= Len(cuts) - 1
    /\ \A i \in 1..Len(delivered) :
         /\ Flags(Envelope(cuts[i])) = 0
         /\ delivered[i] = Payload(Envelope(cuts[i]))
         /\ IsMessage(delivered[i])

(* The buffer is what follows the last of them, and after the end envelope  *)
(* there is nothing.                                                        *)
BufferFits ==
    at \in {"unstarted"} \cup Running =>
        /\ cuts[Len(cuts)] <= Len(wire)
        /\ buffer = Envelope(cuts[Len(cuts)])
        /\ ended => at = "reading" /\ buffer = << >>
        /\ Len(cuts) = Len(delivered) + (IF ended THEN 2 ELSE 1)

EndFits ==
    ended /\ at \in Running =>
        LET envelope == Envelope(cuts[Len(delivered) + 1])
        IN  /\ HasFrame(envelope)
            /\ Flags(envelope) = 2
            /\ EndKind(Payload(envelope)) = "object"

(* The generator waits for bytes only when the buffer has no whole envelope  *)
(* and no length that is refused.                                           *)
NoEnvelopeWaits ==
    at = "reading" /\ ~ended =>
        ~HasFrame(buffer) /\ (HasHeader(buffer) => Length(buffer) <= MaxFrame)

(* The response is open as long as the generator runs, and after a close    *)
(* only if nothing was read from it.                                        *)
OpenFits ==
    /\ at = "unstarted" => wire = << >>
    /\ at = "yielded" => wire # << >>
    /\ open <=> at \in {"unstarted"} \cup Running \/ (at = "closed" /\ wire = << >>)

(* The inductive invariant: the buffer is what follows the envelopes taken, *)
(* an end was seen only after the last of them, and the response is closed  *)
(* when the generator ended after its start (client.py:436-508).            *)
StreamInv ==
    /\ TypeOK
    /\ EnvelopesFit
    /\ BufferFits
    /\ EndFits
    /\ EndIsWhole
    /\ NoEnvelopeWaits
    /\ OpenFits
=============================================================================
