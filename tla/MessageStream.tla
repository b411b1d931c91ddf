--------------------------- MODULE MessageStream ---------------------------
(***************************************************************************)
(* Size-prefixed messages on a libp2p stream.  The sender writes messages  *)
(* one after the other (sendDomainData of example/app, the file that the   *)
(* download handler of example/data_node copies); the reader is the loop   *)
(* of utils.ReceiveDomainData or, if once, of LoadFrameFromStream and      *)
(* LoadJobFromStream, which return after their first message.              *)
(*                                                                         *)
(* Bytes are known by their position in what the sender has to say: the    *)
(* size of message i is at Start[i], its content behind it.  The stream    *)
(* holds Window bytes at most, and hands them over in pieces of any length.*)
(***************************************************************************)
EXTENDS Naturals, Sequences

CONSTANTS
  N,            \* number of messages
  SizeLen,      \* flatbuffers.SizeUOffsetT
  Size,         \* length of the content of each message
  Window,       \* bytes that the stream holds
  Onces         \* may the reader return after its first message, may it loop

ASSUME LengthsArePositive ==
  /\ N \in Nat \ {0} /\ SizeLen \in Nat \ {0} /\ Window \in Nat \ {0}
  /\ Size \in [1..N -> Nat \ {0}]
  /\ Onces \subseteq BOOLEAN

\* Where each message starts, and where the last one ends.
Start[i \in 1..(N + 1)] ==
  IF i = 1 THEN 0 ELSE Start[i - 1] + SizeLen + Size[i - 1]

Total == Start[N + 1]

VARIABLES
  once,         \* which of the two this reader does
  written,      \* bytes the sender has written
  closed,       \* the sender has closed the stream
  broken,       \* the stream was reset
  consumed,     \* bytes the reader has read
  phase,        \* "size", "content", "call" or "end"
  have,         \* bytes of the current size or content that have been read
  need,         \* value of the current size
  base,         \* where the current size started
  handled,      \* messages given to the callback, by where they started
  result,       \* what the reader returned: "none" yet, "nil" or "error"
  disturbed     \* history: cut short, reset or refused by the callback

writer == <<written, closed>>
reader == <<consumed, phase, have, need, base, handled, result>>
vars == <<once, writer, broken, reader, disturbed>>

Init ==
  /\ once \in Onces
  /\ written = 0 /\ closed = FALSE /\ broken = FALSE
  /\ consumed = 0 /\ phase = "size" /\ have = 0 /\ need = 0 /\ base = 0
  /\ handled = <<>> /\ result = "none"
  /\ disturbed = FALSE

-----------------------------------------------------------------------------
\* A call of Write blocks while the stream is full.
Write(k) ==
  /\ ~ closed /\ ~ broken
  /\ written + k <= Total
  /\ written + k <= consumed + Window
  /\ written' = written + k
  /\ UNCHANGED <<once, closed, broken, reader, disturbed>>

Close ==
  /\ ~ closed /\ ~ broken
  /\ written = Total
  /\ closed' = TRUE
  /\ UNCHANGED <<once, written, broken, reader, disturbed>>

\* What the sender copies to the stream is a file that ends early.
CloseEarly ==
  /\ ~ closed /\ ~ broken
  /\ written < Total
  /\ closed' = TRUE
  /\ disturbed' = TRUE
  /\ UNCHANGED <<once, written, broken, reader>>

\* The stream is reset, or its connection lost.
Reset ==
  /\ ~ broken
  /\ broken' = TRUE
  /\ disturbed' = TRUE
  /\ UNCHANGED <<once, writer, reader>>

-----------------------------------------------------------------------------
\* The size that four bytes at this position say; elsewhere than at the start of
\* a message they may say anything.
SizeAt(p) ==
  {n \in 1..Total : \A i \in 1..N : Start[i] = p => n = Size[i]}

\* Mutant: the buffer is taken for full, whatever Read returned.
AvailableUnchecked(k) == ~ broken

Available(k) == ~ broken /\ consumed + k <= written

Take(k) ==
  /\ Available(k)
  /\ consumed' = consumed + k
  /\ UNCHANGED <<once, writer, broken, handled, result, disturbed>>

\* Mutant: a single Read, as in createPortalStreamHandler.
ReadSizeOnce(k) ==
  /\ phase = "size"
  /\ k <= SizeLen
  /\ Take(k)
  /\ phase' = "content" /\ have' = 0
  /\ need' \in IF k = SizeLen THEN SizeAt(base) ELSE 1..Total
  /\ UNCHANGED base

\* io.ReadFull of the size.
ReadSize(k) ==
  /\ phase = "size"
  /\ have + k <= SizeLen
  /\ Take(k)
  /\ \/ /\ have + k < SizeLen
        /\ have' = have + k
        /\ UNCHANGED <<phase, need>>
     \/ /\ have + k = SizeLen
        /\ phase' = "content" /\ have' = 0
        /\ need' \in SizeAt(base)
  /\ UNCHANGED base

\* io.ReadFull of the content.
ReadContent(k) ==
  /\ phase = "content"
  /\ have + k <= need
  /\ Take(k)
  /\ have' = have + k
  /\ phase' = IF have + k = need THEN "call" ELSE "content"
  /\ UNCHANGED <<need, base>>

Return(r) ==
  /\ phase' = "end"
  /\ result' = r
  /\ UNCHANGED <<once, writer, broken, consumed, have, need, base>>

\* Mutant: the loop ends with its first message.
CallOnce ==
  /\ phase = "call"
  /\ handled' = Append(handled, base)
  /\ Return("nil")
  /\ UNCHANGED disturbed

\* Mutant: the loop of such a reader goes on.
CallAgain ==
  /\ phase = "call"
  /\ handled' = Append(handled, base)
  /\ phase' = "size" /\ have' = 0 /\ base' = consumed
  /\ UNCHANGED <<once, writer, broken, consumed, need, result, disturbed>>

\* The callback has dealt with the message.
Call ==
  /\ phase = "call"
  /\ handled' = Append(handled, base)
  /\ \/ once /\ Return("nil")
     \/ /\ ~ once
        /\ phase' = "size" /\ have' = 0 /\ base' = consumed
        /\ UNCHANGED <<once, writer, broken, consumed, need, result>>
  /\ UNCHANGED disturbed

\* The callback returns an error, and so does the reader.
CallFails ==
  /\ phase = "call"
  /\ Return("error")
  /\ disturbed' = TRUE
  /\ UNCHANGED handled

Reading == phase \in {"size", "content"}

AtEnd == closed /\ ~ broken /\ consumed = written

\* Mutant: io.ErrUnexpectedEOF is taken for io.EOF.
EndAnywhere ==
  /\ Reading /\ AtEnd
  /\ Return("nil")
  /\ UNCHANGED <<handled, disturbed>>

\* ReadFull reports io.EOF when it got nothing at all, of a content too.
EndOfStream ==
  /\ Reading /\ AtEnd
  /\ Return(IF have = 0 THEN "nil" ELSE "error")
  /\ UNCHANGED <<handled, disturbed>>

ReadFails ==
  /\ Reading /\ broken
  /\ Return("error")
  /\ UNCHANGED <<handled, disturbed>>

-----------------------------------------------------------------------------
Send == Close \/ \E k \in 1..Total : Write(k)

Receive ==
  \/ \E k \in 1..Total : ReadSize(k) \/ ReadContent(k)
  \/ Call \/ EndOfStream \/ ReadFails

Next == Send \/ CloseEarly \/ Reset \/ Receive \/ CallFails

Spec == Init /\ [][Next]_vars

\* Both goroutines are scheduled.
FairSpec == Spec /\ WF_vars(Send) /\ WF_vars(Receive)

-----------------------------------------------------------------------------
\* Positions stay in what the sender has to say, and in the window.
TypeOK ==
  /\ written \in 0..Total /\ consumed \in 0..written
  /\ written <= consumed + Window
  /\ once \in BOOLEAN /\ closed \in BOOLEAN /\ broken \in BOOLEAN /\ disturbed \in BOOLEAN
  /\ phase \in {"size", "content", "call", "end"}
  /\ have \in Nat /\ need \in Nat /\ base \in Nat
  /\ handled \in Seq(Nat)
  /\ result \in {"none", "nil", "error"}

\* However the bytes are cut into pieces: the callback gets the messages that
\* were sent, each of them once and in their order.
WholeInOrder ==
  Len(handled) <= N /\ \A i \in 1..Len(handled) : handled[i] = Start[i]

\* A looping reader that returns nil has handled every message that was begun,
\* but for one: a message of which the size came and nothing else is dropped
\* in silence.
NilDropsSizeOnly ==
  result = "nil" /\ ~ once =>
    /\ closed /\ consumed = written
    /\ Len(handled) < N + 1
    /\ LET next == Start[Len(handled) + 1] IN written \in {next, next + SizeLen}

\* A reader that returns after its first message leaves the sender stuck: the
\* stream never takes more than its window behind that message.
OnceTakesOne ==
  once => consumed <= Start[2] /\ written <= Start[2] + Window

\* Messages of which every byte was written.
Complete == {i \in 1..N : Start[i + 1] <= written}

Channel == INSTANCE MessageChannel WITH
  Messages <- [i \in 1..N |-> Start[i]],
  sent <- Complete,
  got <- handled,
  returned <- phase = "end"

\* The loops over io.ReadFull make a channel of messages out of the bytes: none is
\* handled before its last byte was written, and none after the reader returned.
ImplementsChannel == Channel!CSpec

Arrived == Len(handled) = N

\* The looping reader handles every message if nothing is cut short, reset or refused.
AllArrive == [](~ disturbed /\ ~ once) => <>Arrived
=============================================================================
