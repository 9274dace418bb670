------------------------------ MODULE Framing ------------------------------
(***************************************************************************)
(* Length-prefixed messages over a byte stream (server/protocol.py).  TCP  *)
(* cuts the stream where it likes: a read finds part of a header, or the   *)
(* end of one frame and the beginning of the next.  A byte is represented  *)
(* by the message it belongs to and its place in the frame, a header by    *)
(* the length of the payload that it announces.                            *)
(***************************************************************************)
EXTENDS Naturals, SequencesExt

CONSTANTS
  Message,
  PayloadSize,  \* bytes of each message's JSON text
  HeaderSize,   \* 4 in the code
  MaxPayload,   \* 10 000 000 in the code
  MaxMessages   \* bound: messages written

ASSUME FramingAssumption ==
  /\ PayloadSize \in [Message -> Nat \ {0}]
  /\ HeaderSize \in Nat \ {0}
  /\ MaxPayload \in Nat /\ MaxMessages \in Nat

VARIABLES
  written,   \* the messages given to write_message
  wire,      \* bytes under way
  buffer,    \* bytes that the StreamReader holds
  length,    \* the length read from a header, 0 when a header is awaited
  received,  \* the messages returned by read_message
  link,      \* "up"; "cut"; "eof" once the reader knows
  ended      \* read_message has raised, and its caller has left

readerVars == <<buffer, length, received, ended>>
vars == <<written, wire, buffer, length, received, link, ended>>

Init ==
  /\ written = <<>> /\ wire = <<>>
  /\ buffer = <<>> /\ length = 0 /\ received = <<>>
  /\ link = "up" /\ ended = FALSE

\* The k-th message of the connection as bytes: header, then payload.
Frame(m, k) == [i \in 1..(HeaderSize + PayloadSize[m]) |-> <<m, k, i>>]

WriteMessage(m) ==
  /\ Len(written) < MaxMessages
  /\ written' = Append(written, m)
  /\ wire' = IF link = "up" THEN wire \o Frame(m, Len(written) + 1) ELSE wire
  /\ UNCHANGED <<readerVars, link>>

\* Some of the bytes under way arrive.
Deliver ==
  \E n \in 1..Len(wire) :
    /\ buffer' = buffer \o SubSeq(wire, 1, n)
    /\ wire' = SubSeq(wire, n + 1, Len(wire))
    /\ UNCHANGED <<written, length, received, link, ended>>

\* The connection breaks, and what is under way may be lost.
Cut ==
  /\ link = "up" /\ link' = "cut"
  /\ \E n \in 0..Len(wire) : wire' = SubSeq(wire, 1, n)
  /\ UNCHANGED <<written, readerVars>>

EndOfStream ==
  /\ link = "cut" /\ wire = <<>>
  /\ link' = "eof"
  /\ UNCHANGED <<written, wire, readerVars>>

-----------------------------------------------------------------------------
\* readexactly(n) returns.
Has(n) == ~ended /\ Len(buffer) >= n

Header == SubSeq(buffer, 1, HeaderSize)

\* What int.from_bytes makes of the bytes where a header should be: 0 stands
\* for every length that is refused.
Announced ==
  LET m == Header[1][1]
      k == Header[1][2]
  IN  IF Header = SubSeq(Frame(m, k), 1, HeaderSize)
           /\ PayloadSize[m] <= MaxPayload
        THEN PayloadSize[m] ELSE 0

\* Mutant: off by one in the size of the header.
ReadHeaderShort ==
  /\ length = 0 /\ Has(HeaderSize)
  /\ length' = Announced
  /\ buffer' = SubSeq(buffer, HeaderSize, Len(buffer))
  /\ ended' = (length' = 0)
  /\ UNCHANGED <<written, wire, received, link>>

ReadHeader ==
  /\ length = 0 /\ Has(HeaderSize)
  /\ length' = Announced
  /\ buffer' = SubSeq(buffer, HeaderSize + 1, Len(buffer))
  /\ ended' = (length' = 0)
  /\ UNCHANGED <<written, wire, received, link>>

\* Mutant: the rest of what arrived goes with the payload.
ReadPayloadAndRest ==
  /\ length # 0 /\ Has(length)
  /\ received' = Append(received, buffer[1][1])
  /\ buffer' = <<>>
  /\ length' = 0
  /\ UNCHANGED <<written, wire, link, ended>>

\* json.loads accepts the payload of one message and nothing else.
ReadPayload ==
  /\ length # 0 /\ Has(length)
  /\ LET m == buffer[1][1]
         whole == SubSeq(buffer, 1, length)
                    = SubSeq(Frame(m, buffer[1][2]), HeaderSize + 1,
                             HeaderSize + PayloadSize[m])
     IN  /\ received' = IF whole THEN Append(received, m) ELSE received
         /\ ended' = ~whole
  /\ buffer' = SubSeq(buffer, length + 1, Len(buffer))
  /\ length' = 0
  /\ UNCHANGED <<written, wire, link>>

\* IncompleteReadError: the stream ended before the bytes were there.
IncompleteRead ==
  /\ link = "eof" /\ ~ended
  /\ ~Has(IF length = 0 THEN HeaderSize ELSE length)
  /\ ended' = TRUE
  /\ UNCHANGED <<written, wire, buffer, length, received, link>>

-----------------------------------------------------------------------------
ReadMessage == ReadHeader \/ ReadPayload \/ IncompleteRead

Next ==
  \/ \E m \in Message : WriteMessage(m)
  \/ Deliver \/ Cut \/ EndOfStream \/ ReadMessage

\* TCP delivers what it can and reports the end; the reader reads.
FramingSpec ==
  /\ Init /\ [][Next]_vars
  /\ WF_vars(Deliver) /\ WF_vars(EndOfStream) /\ WF_vars(ReadMessage)

-----------------------------------------------------------------------------
\* However the stream is cut into pieces, and wherever it breaks, the reader
\* gets whole messages, in order, without gaps.
Stream == INSTANCE Channel
ImplementsChannel == Stream!ChannelSpec

\* The first k messages hold one that the reader refuses (write_message has no
\* limit of its own).
TooLongWithin(k) ==
  \E j \in 1..Min({k, Len(written)}) : PayloadSize[written[j]] > MaxPayload

\* Nothing is waited for in vain: a message that is written is read, unless the
\* connection breaks or a message before it is refused, and then the reader
\* leaves.
MessagesArrive ==
  \A k \in 1..MaxMessages :
    Len(written) >= k ~>
      \/ Len(received) >= k
      \/ ended /\ (link = "eof" \/ TooLongWithin(k))
=============================================================================
