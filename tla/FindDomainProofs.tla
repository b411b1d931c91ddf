-------------------------- MODULE FindDomainProofs --------------------------
(***************************************************************************)
(* For any number of calls and guests: the typing of FindDomain, that the  *)
(* application never gets an answer, and who leaves a goroutine behind.    *)
(* Under the fairness of the goroutines: whose stream is lost, or who      *)
(* closes his side, comes to an end.                                       *)
(***************************************************************************)
EXTENDS FindDomain, TLAPS

\* The side of the application is open for ever, so that its handler can only be
\* ended by the loss of the stream, and so can its goroutine.
OpenEnded ==
  \A s \in Calls :
    /\ ~ ended[s] /\ ~ answered[s]
    /\ left[s] => line[s] = "broken"
    /\ call[s] = "none" => handler[s] = "none" /\ ~ left[s]
    /\ gives[s] # "peers"
    /\ reader[s] = "give" => line[s] = "broken"

\* What is handed over is one of the two results, and only once.
Channel ==
  \A s \in Streams :
    /\ reader[s] = "give" => gives[s] \in {"peers", "error"}
    /\ reader[s] = "end" => call[s] = "done"
    /\ asked[s] => call[s] \in {"select", "done"}
    /\ call[s] \in {"none", "write"} => ~ asked[s]

\* A stream has a caller, a handler that is over has closed it, and a guest closes
\* its side with its request.
Ends ==
  \A s \in Streams :
    /\ line[s] # "none" => call[s] # "none"
    /\ handler[s] = "end" => left[s]
    /\ asked[s] /\ s \in Guests => ended[s]

IInv == TypeOK /\ OpenEnded /\ Channel /\ Ends /\ Unanswered /\ LeftBehind

USE DEF Streams, Set, All, client, server

LEMMA IInvInit == Init => IInv
<1> SUFFICES ASSUME Init PROVE IInv
  OBVIOUS
<1>1. /\ asked \in [Streams -> BOOLEAN] /\ ended \in [Streams -> BOOLEAN]
      /\ answered \in [Streams -> BOOLEAN] /\ left \in [Streams -> BOOLEAN]
  BY DEF Init
<1>2. TypeOK
  BY <1>1 DEF Init, TypeOK
<1>3. OpenEnded /\ Channel /\ Ends /\ Unanswered /\ LeftBehind
  BY GuestsAreNoCalls DEF Init, OpenEnded, Channel, Ends, Unanswered, LeftBehind
<1> QED BY <1>2, <1>3 DEF IInv

LEMMA OpenStep ==
  ASSUME IInv, NEW s \in Streams, Open(s) \/ OpenFails(s) \/ Break(s)
  PROVE  IInv'
<1> USE DEF IInv, Turn, Finish
<1>1. CASE Open(s)
  <2> USE <1>1 DEF Open
  <2>1. TypeOK'
    BY DEF TypeOK
  <2>2. OpenEnded'
    BY DEF TypeOK, OpenEnded
  <2>3. Channel' /\ Ends' /\ Unanswered' /\ LeftBehind'
    BY DEF TypeOK, Channel, Ends, Unanswered, LeftBehind
  <2> QED BY <2>1, <2>2, <2>3
<1>2. CASE OpenFails(s)
  <2> USE <1>2 DEF OpenFails
  <2>1. TypeOK'
    BY DEF TypeOK
  <2>2. OpenEnded'
    BY DEF OpenEnded
  <2>3. Channel' /\ Ends' /\ Unanswered' /\ LeftBehind'
    BY DEF TypeOK, Channel, Ends, Unanswered, LeftBehind
  <2> QED BY <2>1, <2>2, <2>3
<1>3. CASE Break(s)
  <2> USE <1>3 DEF Break
  <2>1. TypeOK'
    BY DEF TypeOK
  <2>2. OpenEnded'
    BY DEF TypeOK, OpenEnded
  <2>3. Channel' /\ Ends' /\ Unanswered' /\ LeftBehind'
    BY DEF Channel, Ends, Unanswered, LeftBehind
  <2> QED BY <2>1, <2>2, <2>3
<1> QED BY <1>1, <1>2, <1>3

LEMMA CallerStep == ASSUME IInv, NEW s \in Streams, Caller(s) PROVE IInv'
<1> USE DEF IInv, Finish
<1>1. CASE Write(s)
  <2> USE <1>1, GuestsAreNoCalls DEF Write
  <2>1. (s \in Guests) \in BOOLEAN
    OBVIOUS
  <2>2. TypeOK'
    BY <2>1 DEF TypeOK
  <2>3. OpenEnded' /\ Channel' /\ Ends' /\ Unanswered' /\ LeftBehind'
    BY DEF TypeOK, OpenEnded, Channel, Ends, Unanswered, LeftBehind
  <2> QED BY <2>2, <2>3
<1>2. CASE WriteFails(s)
  <2> USE <1>2 DEF WriteFails
  <2>1. TypeOK'
    BY DEF TypeOK
  <2>2. OpenEnded' /\ Channel' /\ Ends' /\ Unanswered' /\ LeftBehind'
    BY DEF TypeOK, OpenEnded, Channel, Ends, Unanswered, LeftBehind
  <2> QED BY <2>1, <2>2
<1>3. CASE Select(s)
  <2> USE <1>3 DEF Select
  <2>1. gives[s] \in {"peers", "error"} /\ (s \in Calls => gives[s] = "error")
    BY DEF Channel, OpenEnded
  <2>2. TypeOK'
    BY <2>1 DEF TypeOK
  <2>3. OpenEnded' /\ Channel' /\ Ends' /\ Unanswered' /\ LeftBehind'
    BY <2>1 DEF TypeOK, OpenEnded, Channel, Ends, Unanswered, LeftBehind
  <2> QED BY <2>2, <2>3
<1> QED BY <1>1, <1>2, <1>3 DEF Caller

LEMMA ReaderStep == ASSUME IInv, NEW s \in Streams, Reader(s) PROVE IInv'
<1> USE DEF IInv
<1>1. PICK v \in {"peers", "error"} :
        /\ reader[s] = "read" /\ Give(s, v)
        /\ s \in Calls => v = "error" /\ line[s] = "broken"
  <2>1. CASE ReadAnswer(s)
    BY <2>1 DEF ReadAnswer, OpenEnded
  <2>2. CASE ReadFails(s)
    BY <2>2 DEF ReadFails, NoAnswer, OpenEnded
  <2> QED BY <2>1, <2>2 DEF Reader
<1> USE <1>1 DEF Give
<1>2. TypeOK'
  BY DEF TypeOK
<1>3. OpenEnded' /\ Channel' /\ Ends' /\ Unanswered' /\ LeftBehind'
  BY DEF TypeOK, OpenEnded, Channel, Ends, Unanswered, LeftBehind
<1> QED BY <1>2, <1>3

LEMMA HandlerStep == ASSUME IInv, NEW s \in Streams, Handler(s) PROVE IInv'
<1> USE DEF IInv, HandlerEnds
<1>1. CASE Handle(s)
  <2> USE <1>1 DEF Handle
  <2>1. s \notin Calls
    BY DEF OpenEnded
  <2>2. TypeOK'
    BY DEF TypeOK
  <2>3. OpenEnded'
    BY <2>1 DEF TypeOK, OpenEnded
  <2>4. Channel' /\ Ends' /\ Unanswered' /\ LeftBehind'
    BY DEF TypeOK, Channel, Ends, Unanswered, LeftBehind
  <2> QED BY <2>2, <2>3, <2>4
<1>2. CASE HandleFails(s)
  <2> USE <1>2 DEF HandleFails
  <2>1. TypeOK'
    BY DEF TypeOK
  <2>2. OpenEnded'
    BY DEF TypeOK, OpenEnded
  <2>3. Channel' /\ Ends' /\ Unanswered' /\ LeftBehind'
    BY DEF TypeOK, Channel, Ends, Unanswered, LeftBehind
  <2> QED BY <2>1, <2>2, <2>3
<1> QED BY <1>1, <1>2 DEF Handler

LEMMA IInvNext == IInv /\ [Next]_vars => IInv'
<1> SUFFICES ASSUME IInv, [Next]_vars PROVE IInv'
  OBVIOUS
<1>1. CASE UNCHANGED vars
  BY <1>1 DEF vars, IInv, TypeOK, OpenEnded, Channel, Ends, Unanswered, LeftBehind
<1> QED BY <1>1, OpenStep, CallerStep, ReaderStep, HandlerStep DEF Next, Work

LEMMA IInvAlways == Spec => []IInv
  BY IInvInit, IInvNext, PTL DEF Spec

-----------------------------------------------------------------------------
\* Callers, goroutines and handlers are where the code can have them.
THEOREM TypeCorrect == Spec => []TypeOK
<1>1. IInv => TypeOK
  BY DEF IInv
<1> QED BY <1>1, IInvAlways, PTL

\* findDomainDataNode and the FIND_DOMAIN handler wait for each other: whatever the
\* number of lists, discovery nodes and other clients, the application gets no answer.
THEOREM ApplicationUnanswered == Spec => []Unanswered
<1>1. IInv => Unanswered
  BY DEF IInv
<1> QED BY <1>1, IInvAlways, PTL

\* The select of findDomainDataNode never ends on a stream that holds.
THEOREM LossAloneEnds == Spec => OnlyLossEnds
<1>1. IInv /\ [Next]_vars =>
        [\A s \in Calls : call[s] = "select" /\ line[s] = "open" => call'[s] = "select"]_vars
  <2> SUFFICES ASSUME IInv, Next, NEW s \in Calls, call[s] = "select", line[s] = "open"
               PROVE  call'[s] = "select"
    OBVIOUS
  <2>1. reader[s] # "give" /\ call \in [Streams -> {"none", "write", "select", "done"}]
    BY DEF IInv, OpenEnded, TypeOK
  <2>2. PICK t \in Streams :
          Open(t) \/ OpenFails(t) \/ Break(t) \/ Caller(t) \/ Reader(t) \/ Handler(t)
    BY DEF Next, Work
  <2>3. CASE Open(t) \/ OpenFails(t)
    BY <2>1, <2>3 DEF Open, OpenFails, Turn, Finish
  <2>4. CASE Break(t) \/ Reader(t) \/ Handler(t)
    BY <2>4 DEF Break, Reader, ReadAnswer, ReadFails, Give, Handler, Handle, HandleFails,
                HandlerEnds
  <2>5. CASE Caller(t)
    BY <2>1, <2>5 DEF Caller, Write, WriteFails, Select, Finish
  <2> QED BY <2>2, <2>3, <2>4, <2>5
<1> QED BY <1>1, IInvAlways, PTL DEF Spec, OnlyLossEnds

\* A goroutine of findDomainDataNode outlives its call only where the request
\* could not be written.
THEOREM LeftBehindByWriteOnly == Spec => []LeftBehind
<1>1. IInv => LeftBehind
  BY DEF IInv
<1> QED BY <1>1, IInvAlways, PTL

-----------------------------------------------------------------------------
\* Steps that caller, goroutine and handler of a stream have still to take.
Budget(s) ==
  (IF call[s] = "write" THEN 1 ELSE 0)
    + (IF reader[s] = "read" THEN 1 ELSE 0)
    + (IF handler[s] = "read" THEN 1 ELSE 0)

\* A call that can end: its stream is lost, or its client has closed its side.
Ending(s) ==
  call[s] \in {"write", "select"} /\ (line[s] = "broken" \/ (s \in Guests /\ asked[s]))

Owes(s, k) == Ending(s) /\ Budget(s) = k
Returned(s) == call[s] = "done"

\* Fairness speaks of ENABLED, for which the provers have no rule.  This is the fact
\* about it that the proofs need: who can write, read, hand over or answer does so.
CanCall(s) ==
  \/ call[s] = "write" /\ line[s] \in {"open", "broken"}
  \/ call[s] = "select" /\ reader[s] = "give"
CanRead(s) == reader[s] = "read" /\ (answered[s] \/ NoAnswer(s))
CanHandle(s) ==
  handler[s] = "read" /\ (line[s] = "broken" \/ (line[s] = "open" /\ asked[s] /\ ended[s]))
GuardsEnable ==
  \A s \in Streams :
    CanCall(s) \/ CanRead(s) \/ CanHandle(s) => ENABLED <<Work(s)>>_vars

LEMMA BudgetRange ==
  ASSUME NEW s \in Streams
  PROVE  Ending(s) => \/ Owes(s, 0) \/ Owes(s, 1) \/ Owes(s, 2) \/ Owes(s, 3)
BY DEF Owes, Budget

\* Nothing is in the way of such a call.
LEMMA EndingCanWork ==
  ASSUME IInv, NEW s \in Streams, Ending(s)
  PROVE  CanCall(s) \/ CanRead(s) \/ CanHandle(s)
BY DEF IInv, TypeOK, Channel, Ends, Ending, CanCall, CanRead, CanHandle, NoAnswer

\* Its own steps bring it nearer to its end.
LEMMA WorkPays ==
  ASSUME IInv, NEW s \in Streams, Work(s), Ending(s)
  PROVE  Returned(s)' \/ (Ending(s)' /\ Budget(s)' = Budget(s) - 1)
<1> USE DEF Ending, Returned, Budget, IInv, TypeOK
<1>1. CASE Write(s)
  BY <1>1 DEF Write
<1>2. CASE WriteFails(s) \/ Select(s)
  BY <1>2 DEF WriteFails, Select, Finish
<1>3. CASE Reader(s)
  BY <1>3 DEF Reader, ReadAnswer, ReadFails, Give
<1>4. CASE Handler(s)
  BY <1>4 DEF Handler, Handle, HandleFails, HandlerEnds
<1> QED BY <1>1, <1>2, <1>3, <1>4 DEF Work, Caller

\* Other streams, and the loss of this one, do not set it back.
LEMMA OthersKeep ==
  ASSUME IInv, NEW s \in Streams, Ending(s), [Next]_vars
  PROVE  Work(s) \/ (Ending(s)' /\ Budget(s)' = Budget(s))
<1> USE DEF Ending, Budget, IInv, TypeOK
<1>1. CASE UNCHANGED vars
  BY <1>1 DEF vars
<1>2. ASSUME NEW t \in Streams, Open(t) \/ OpenFails(t)
      PROVE  Ending(s)' /\ Budget(s)' = Budget(s)
  BY <1>2 DEF Open, OpenFails, Turn, Finish
<1>3. ASSUME NEW t \in Streams, Break(t) PROVE Ending(s)' /\ Budget(s)' = Budget(s)
  BY <1>3 DEF Break
<1>4. ASSUME NEW t \in Streams, t # s, Work(t) PROVE Ending(s)' /\ Budget(s)' = Budget(s)
  <2>1. CASE Caller(t)
    BY <1>4, <2>1 DEF Caller, Write, WriteFails, Select, Finish
  <2>2. CASE Reader(t)
    BY <1>4, <2>2 DEF Reader, ReadAnswer, ReadFails, Give
  <2>3. CASE Handler(t)
    BY <1>4, <2>3 DEF Handler, Handle, HandleFails, HandlerEnds
  <2> QED BY <1>4, <2>1, <2>2, <2>3 DEF Work
<1> QED BY <1>1, <1>2, <1>3, <1>4 DEF Next

LEMMA EndingEnds ==
  ASSUME NEW s \in Streams
  PROVE  FairSpec /\ []GuardsEnable => [](Ending(s) => <>Returned(s))
<1>1. Ending(s) => Owes(s, 0) \/ Owes(s, 1) \/ Owes(s, 2) \/ Owes(s, 3)
  BY BudgetRange
<1>2. IInv /\ [Next]_vars =>
        /\ Owes(s, 3) => (Owes(s, 3) \/ Owes(s, 2) \/ Returned(s))'
        /\ Owes(s, 2) => (Owes(s, 2) \/ Owes(s, 1) \/ Returned(s))'
        /\ Owes(s, 1) => (Owes(s, 1) \/ Owes(s, 0) \/ Returned(s))'
        /\ Owes(s, 0) => (Owes(s, 0) \/ Returned(s))'
  <2> SUFFICES ASSUME IInv, [Next]_vars, Ending(s)
               PROVE  \/ Returned(s)' \/ (Ending(s)' /\ Budget(s)' = Budget(s))
                      \/ (Ending(s)' /\ Budget(s)' = Budget(s) - 1 /\ Budget(s)' >= 0)
    BY DEF Owes
  <2> QED BY WorkPays, OthersKeep DEF Budget
<1>3. IInv /\ <<Work(s)>>_vars =>
        /\ Owes(s, 3) => ~ Owes(s, 3)'
        /\ Owes(s, 2) => ~ Owes(s, 2)'
        /\ Owes(s, 1) => ~ Owes(s, 1)'
        /\ Owes(s, 0) => ~ Owes(s, 0)'
  <2> SUFFICES ASSUME IInv, Work(s), Ending(s)
               PROVE  ~ (Ending(s)' /\ Budget(s)' = Budget(s))
    BY DEF Owes
  <2>1. Budget(s) \in Nat
    BY DEF Budget
  <2> QED BY <2>1, WorkPays DEF Returned, Ending
<1>4. IInv /\ GuardsEnable /\ (Owes(s, 0) \/ Owes(s, 1) \/ Owes(s, 2) \/ Owes(s, 3))
        => ENABLED <<Work(s)>>_vars
  BY EndingCanWork DEF GuardsEnable, Owes
<1>5. FairSpec => Spec /\ Scheduled(s)
  BY DEF FairSpec
<1>6. FairSpec => WF_vars(Work(s)) /\ []IInv /\ [][Next]_vars
  BY <1>5, IInvAlways, PTL DEF Scheduled, Spec
<1> QED BY <1>1, <1>2, <1>3, <1>4, <1>6, PTL

\* Whatever the number of calls and guests and however they interleave: a caller whose
\* stream is lost returns, in findDomainDataNode and in any other client.
THEOREM LostCallsDoEnd == FairSpec /\ []GuardsEnable => LostCallsEnd
<1>1. ASSUME NEW s \in Streams PROVE FairSpec /\ []GuardsEnable => LostEnds(s)
  <2>1. FairSpec => []IInv
    BY IInvAlways, PTL DEF FairSpec
  <2>2. IInv /\ line[s] = "broken" => Ending(s) \/ Returned(s)
    BY DEF IInv, TypeOK, Ends, Ending, Returned
  <2> QED BY <2>1, <2>2, EndingEnds, PTL DEF LostEnds, Returned
<1> QED BY <1>1 DEF LostCallsEnd

\* A client of the FIND_DOMAIN handler that closes its side is answered, or learns
\* that it will not be.
THEOREM GuestsAreServed == FairSpec /\ []GuardsEnable => GuestsServed
<1>1. ASSUME NEW s \in Guests PROVE FairSpec /\ []GuardsEnable => Served(s)
  <2>1. FairSpec => []IInv
    BY IInvAlways, PTL DEF FairSpec
  <2>2. IInv /\ asked[s] => Ending(s) \/ Returned(s)
    BY DEF IInv, TypeOK, Channel, Ending, Returned
  <2>3. FairSpec /\ []GuardsEnable => [](Ending(s) => <>Returned(s))
    BY EndingEnds
  <2> QED BY <2>1, <2>2, <2>3, PTL DEF Served, Returned
<1> QED BY <1>1 DEF GuestsServed
=============================================================================
