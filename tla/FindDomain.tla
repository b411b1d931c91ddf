----------------------------- MODULE FindDomain -----------------------------
(***************************************************************************)
(* FIND_DOMAIN between the application (findDomainDataNode and main of     *)
(* example/app) and a discovery node (the handler of                       *)
(* example/discovery_node).                                                *)
(*                                                                         *)
(* The application asks for the data nodes of its domain, first those to   *)
(* write to, then those to read from, each time until an answer or as many *)
(* times as it knows discovery nodes, and always the first of them.  A     *)
(* call starts a goroutine that reads the answer and hands it over on an   *)
(* unbuffered channel.  The handler reads the request up to the end of the *)
(* stream, and the application never closes its side.                      *)
(*                                                                         *)
(* Guests are other clients of the handler, which do close their side.     *)
(***************************************************************************)
EXTENDS Naturals

CONSTANTS
  Phases,       \* number of lists the application wants: one by mode, or two
  Tries,        \* number of discovery nodes it knows
  Guests        \* streams of other clients

ASSUME AtLeastOneCall == Phases \in Nat \ {0} /\ Tries \in Nat \ {0}

\* The calls of findDomainDataNode, in the order in which main makes them.
Calls == (1..Phases) \X (1..Tries)
ASSUME GuestsAreNoCalls == Guests \cap Calls = {}

Streams == Calls \cup Guests

VARIABLES
  line,         \* "none", "open" or "broken": the stream
  asked,        \* the request is written
  ended,        \* the client has closed its side
  answered,     \* the handler has written the domain
  left,         \* the handler has closed the stream
  call,         \* "none", "write", "select" or "done": the caller
  reader,       \* "none", "read", "give" or "end": its goroutine
  outcome,      \* what the caller returned: "none" yet, "peers" or "error"
  gives,        \* what the goroutine has for the channel
  handler       \* "none", "read" or "end": the handler of the discovery node

client == <<asked, ended, call, reader, outcome, gives>>
server == <<answered, left, handler>>
vars == <<line, client, server>>

All(v) == [s \in Streams |-> v]

Init ==
  /\ line = All("none") /\ asked = All(FALSE) /\ ended = All(FALSE)
  /\ answered = All(FALSE) /\ left = All(FALSE)
  /\ call = All("none") /\ reader = All("none")
  /\ outcome = All("none") /\ gives = All("none")
  /\ handler = All("none")

-----------------------------------------------------------------------------
Set(f, s, v) == [f EXCEPT ![s] = v]

\* The loops of main: the phases before are over, and so are the tries before,
\* without an answer.
Turn(s) ==
  /\ call[s] = "none"
  /\ s \in Calls =>
       /\ \A k \in 1..(s[2] - 1) :
            call[<<s[1], k>>] = "done" /\ outcome[<<s[1], k>>] = "error"
       /\ \A p \in 1..(s[1] - 1) : \E k \in 1..Tries :
            /\ call[<<p, k>>] = "done"
            /\ outcome[<<p, k>>] = "peers" \/ k = Tries

Finish(s, r) ==
  /\ call' = Set(call, s, "done")
  /\ outcome' = Set(outcome, s, r)

\* NewStream, and the goroutine that reads.
Open(s) ==
  /\ Turn(s)
  /\ line' = Set(line, s, "open")
  /\ call' = Set(call, s, "write")
  /\ reader' = Set(reader, s, "read")
  /\ handler' = Set(handler, s, "read")
  /\ UNCHANGED <<asked, ended, answered, left, outcome, gives>>

\* Mutant: the error of NewStream is not looked at, as in createDomain.
OpenAnyway(s) ==
  /\ Turn(s)
  /\ call' = Set(call, s, "write")
  /\ UNCHANGED <<line, asked, ended, reader, outcome, gives, server>>

OpenFails(s) ==
  /\ Turn(s)
  /\ Finish(s, "error")
  /\ UNCHANGED <<line, asked, ended, reader, gives, server>>

\* Mutant: the application closes its side behind the request.
WriteAndClose(s) ==
  /\ call[s] = "write" /\ line[s] = "open"
  /\ asked' = Set(asked, s, TRUE)
  /\ ended' = Set(ended, s, TRUE)
  /\ call' = Set(call, s, "select")
  /\ UNCHANGED <<line, reader, outcome, gives, server>>

Write(s) ==
  /\ call[s] = "write" /\ line[s] = "open"
  /\ asked' = Set(asked, s, TRUE)
  /\ ended' = Set(ended, s, s \in Guests)
  /\ call' = Set(call, s, "select")
  /\ UNCHANGED <<line, reader, outcome, gives, server>>

\* The caller returns, nobody will listen to its goroutine.
WriteFails(s) ==
  /\ call[s] = "write" /\ line[s] = "broken"
  /\ Finish(s, "error")
  /\ UNCHANGED <<line, asked, ended, reader, gives, server>>

Give(s, v) ==
  /\ reader' = Set(reader, s, "give")
  /\ gives' = Set(gives, s, v)
  /\ UNCHANGED <<line, asked, ended, call, outcome, server>>

\* The answer names data nodes, or none, or the application itself.
ReadAnswer(s) ==
  /\ reader[s] = "read"
  /\ answered[s]
  /\ Give(s, "peers") \/ Give(s, "error")

NoAnswer(s) == line[s] = "broken" \/ (left[s] /\ ~ answered[s])

\* Mutant: the goroutine logs the error of its Read and ends.
ReadQuietly(s) ==
  /\ reader[s] = "read"
  /\ NoAnswer(s)
  /\ reader' = Set(reader, s, "end")
  /\ UNCHANGED <<line, asked, ended, call, outcome, gives, server>>

ReadFails(s) ==
  /\ reader[s] = "read"
  /\ NoAnswer(s)
  /\ Give(s, "error")

\* Mutant: the caller may give up waiting.
SelectOrGiveUp(s) ==
  /\ call[s] = "select"
  /\ \/ reader[s] = "give" /\ reader' = Set(reader, s, "end") /\ Finish(s, gives[s])
     \/ Finish(s, "error") /\ UNCHANGED reader
  /\ UNCHANGED <<line, asked, ended, gives, server>>

\* The channel: both sides are there.
Select(s) ==
  /\ call[s] = "select" /\ reader[s] = "give"
  /\ reader' = Set(reader, s, "end")
  /\ Finish(s, gives[s])
  /\ UNCHANGED <<line, asked, ended, gives, server>>

-----------------------------------------------------------------------------
\* Mutant: no defer s.Close().
HandlerEndsOpen(s) ==
  /\ handler' = Set(handler, s, "end")
  /\ UNCHANGED <<line, left, client>>

HandlerEnds(s) ==
  /\ handler' = Set(handler, s, "end")
  /\ left' = Set(left, s, TRUE)
  /\ UNCHANGED <<line, client>>

\* Mutant: the handler decodes the request, as those of CREATE_DOMAIN do.
HandleAsked(s) ==
  /\ handler[s] = "read" /\ line[s] = "open"
  /\ asked[s]
  /\ \E known \in BOOLEAN : answered' = Set(answered, s, known)
  /\ HandlerEnds(s)

\* io.ReadAll returns at the end of the stream; domainList has the domain or not.
\* What was read is taken for the ID of the domain: the encoded request of the
\* application is the ID of none.
Handle(s) ==
  /\ handler[s] = "read" /\ line[s] = "open"
  /\ asked[s] /\ ended[s]
  /\ \E known \in BOOLEAN :
       /\ known => s \in Guests
       /\ answered' = Set(answered, s, known)
  /\ HandlerEnds(s)

HandleFails(s) ==
  /\ handler[s] = "read" /\ line[s] = "broken"
  /\ UNCHANGED answered
  /\ HandlerEnds(s)

\* The connection is lost, or its other end goes away.
Break(s) ==
  /\ line[s] = "open"
  /\ line' = Set(line, s, "broken")
  /\ UNCHANGED <<client, server>>

-----------------------------------------------------------------------------
Caller(s) == Write(s) \/ WriteFails(s) \/ Select(s)
Reader(s) == ReadAnswer(s) \/ ReadFails(s)
Handler(s) == Handle(s) \/ HandleFails(s)
Work(s) == Caller(s) \/ Reader(s) \/ Handler(s)

Next == \E s \in Streams : Open(s) \/ OpenFails(s) \/ Break(s) \/ Work(s)

Spec == Init /\ [][Next]_vars

\* Goroutines are scheduled (those of one stream take finitely many steps, so that
\* their fairness together is fairness of each), and main goes on with its loop.
\* Nothing obliges a guest to come or a connection to break.
Scheduled(s) == WF_vars(Work(s))
GoesOn(s) == WF_vars(Open(s) \/ OpenFails(s))
FairSpec ==
  Spec /\ (\A s \in Streams : Scheduled(s)) /\ (\A s \in Calls : GoesOn(s))

-----------------------------------------------------------------------------
\* Each variable holds what its declaration promises; a caller has a stream, a
\* goroutine and a handler on its other end, and returns what the goroutine gave.
TypeOK ==
  /\ line \in [Streams -> {"none", "open", "broken"}]
  /\ asked \in [Streams -> BOOLEAN] /\ ended \in [Streams -> BOOLEAN]
  /\ answered \in [Streams -> BOOLEAN] /\ left \in [Streams -> BOOLEAN]
  /\ call \in [Streams -> {"none", "write", "select", "done"}]
  /\ reader \in [Streams -> {"none", "read", "give", "end"}]
  /\ outcome \in [Streams -> {"none", "peers", "error"}]
  /\ gives \in [Streams -> {"none", "peers", "error"}]
  /\ handler \in [Streams -> {"none", "read", "end"}]
  /\ \A s \in Streams :
       /\ call[s] \in {"write", "select"} =>
            line[s] # "none" /\ reader[s] # "none" /\ handler[s] # "none"
       /\ outcome[s] # "none" <=> call[s] = "done"

\* Application and handler wait for each other: no call of findDomainDataNode
\* ever returns data nodes, so that main sends to nobody and downloads from nobody.
Unanswered == \A s \in Calls : outcome[s] # "peers"

\* Once the request of the application is written nothing but the loss of the stream
\* ends the call, not even that the domain is unknown.
OnlyLossEnds ==
  [][\A s \in Calls :
       call[s] = "select" /\ line[s] = "open" => call'[s] = "select"]_vars

\* The goroutine of a call that has returned is left on its channel for ever only
\* where the request could not be written.
LeftBehind ==
  \A s \in Streams : call[s] = "done" /\ reader[s] \in {"read", "give"} => ~ asked[s]

LostEnds(s) == line[s] = "broken" ~> call[s] = "done"

\* A caller whose stream is lost returns.
LostCallsEnd == \A s \in Streams : LostEnds(s)

Served(s) == asked[s] ~> call[s] = "done"

\* A client that closes its side gets its answer, or learns that there is none.
GuestsServed == \A s \in Guests : Served(s)
=============================================================================
