-------------------------- MODULE NeighboursProofs --------------------------
(***************************************************************************)
(* For any set of peers and clients and any capacity of the channel: the   *)
(* typing of Neighbours, the link between the entries and the event log    *)
(* (TrackedLeaves), and the implementation of Membership.                  *)
(*                                                                         *)
(* The induction needs to know what an event in the log, and one in the    *)
(* watcher's hand, say of the topic: EventLog.                             *)
(*                                                                         *)
(* Under the fairness of node and topic: who stays is in the table from    *)
(* some time on, and found.                                                *)
(*                                                                         *)
(* At the end the programs of Seekers: what they do is a behaviour of      *)
(* Neighbours, so that all this holds of them, what they die of, and that  *)
(* their searches end.                                                     *)
(***************************************************************************)
EXTENDS Seekers, TLAPS, SequenceTheorems, FiniteSetTheorems,
        WellFoundedInduction

\* An event in the log is the last change of the peer's membership that the
\* watcher has not seen; the watcher holds a leave whose peer is still away or
\* has a join waiting.
EventLog ==
  \A p \in Peers :
    /\ p \in joined => evtLog[p] # "leave"
    /\ p \notin joined => evtLog[p] # "join"
    /\ evtLog[p] = "leave" => p \in departed
    /\ leaving = p => /\ p \in departed
                      /\ evtLog[p] # "leave"
                      /\ p \in joined => evtLog[p] = "join"

\* What is under way was announced.
Sent == \A p \in Peers : inFlight[p] > 0 => p \in announced

IInv == TypeOK /\ Sent /\ EventLog /\ TrackedLeaves

-----------------------------------------------------------------------------
LEMMA IInvInit == Init => IInv
<1> SUFFICES ASSUME Init PROVE IInv
  OBVIOUS
<1> USE SelfIsAPeer, NobodyIsNoPeer, BoundsArePositive DEF Init
<1>1. sub \in Seq(announced) /\ Len(sub) <= SubCap
  BY EmptySeq
<1>2. inFlight \in [Peers -> 0..MaxInFlight]
  OBVIOUS
<1>3. find = "done" <=> found # {}
  OBVIOUS
<1>4. TypeOK
  BY <1>1, <1>2, <1>3 DEF TypeOK, Others
<1>5. Sent /\ EventLog /\ TrackedLeaves
  BY DEF Sent, EventLog, TrackedLeaves
<1> QED BY <1>4, <1>5 DEF IInv

-----------------------------------------------------------------------------
LEMMA EnvironmentStep ==
  ASSUME IInv, NEW p \in Peers, Environment(p)
  PROVE  IInv'
<1> USE SelfIsAPeer, NobodyIsNoPeer, BoundsArePositive
    DEF IInv, TypeOK, Sent, EventLog, TrackedLeaves, Watched, Others,
        nodevars, histvars
<1>1. CASE PeerStart(p)
  BY <1>1 DEF PeerStart
<1>2. CASE PeerStop(p)
  BY <1>2 DEF PeerStop
<1>3. CASE Announce(p)
  <2>1. sub' \in Seq(announced')
    BY <1>3, SeqMonotonic DEF Announce
  <2> QED BY <1>3, <2>1 DEF Announce
<1>4. CASE PeerJoin(p)
  BY <1>4 DEF PeerJoin, LogEvent
<1>5. CASE PeerLeft(p)
  BY <1>5 DEF PeerLeft, LogEvent
<1>6. CASE Arrive(p)
  <2>1. sub' \in Seq(announced) /\ Len(sub') <= SubCap
    BY <1>6 DEF Arrive
  <2> QED BY <1>6, <2>1 DEF Arrive
<1>7. CASE Lose(p)
  BY <1>7 DEF Lose
<1> QED BY <1>1, <1>2, <1>3, <1>4, <1>5, <1>6, <1>7 DEF Environment

LEMMA WatcherStep ==
  ASSUME IInv, Watcher
  PROVE  IInv'
<1> USE NobodyIsNoPeer
    DEF IInv, TypeOK, Sent, EventLog, TrackedLeaves, Watched, Others,
        netvars, histvars
<1>1. CASE MapFault
  BY <1>1 DEF MapFault
<1>2. CASE Delete
  BY <1>2 DEF Delete
<1>3. ASSUME NEW p \in Peers, TakeJoin(p) PROVE IInv'
  BY <1>3 DEF TakeJoin, nodevars
<1>4. ASSUME NEW p \in Peers, TakeLeave(p) PROVE IInv'
  BY <1>4 DEF TakeLeave
<1> QED BY <1>1, <1>2, <1>3, <1>4 DEF Watcher

LEMMA ReaderStep ==
  ASSUME IInv, Reader
  PROVE  IInv'
<1> USE NobodyIsNoPeer
    DEF IInv, TypeOK, Sent, EventLog, TrackedLeaves, Watched, Others,
        netvars, histvars
<1>1. CASE TakeMessage
  <2>1. Head(sub) \in announced /\ Tail(sub) \in Seq(announced)
                               /\ Len(Tail(sub)) <= SubCap
    BY <1>1, BoundsArePositive, HeadTailProperties DEF TakeMessage
  <2> QED BY <1>1, <2>1 DEF TakeMessage
<1>2. CASE AddLock
  BY <1>2 DEF AddLock
<1>3. CASE AddNode
  BY <1>3 DEF AddNode
<1> QED BY <1>1, <1>2, <1>3 DEF Reader

LEMMA FinderStep ==
  ASSUME IInv, Finder
  PROVE  IInv'
BY DEF IInv, TypeOK, Sent, EventLog, TrackedLeaves, Watched, netvars, histvars,
       Finder, FindLock, FindUnlock

LEMMA ApplicationStep ==
  ASSUME IInv, Application
  PROVE  IInv'
<1> USE DEF IInv, TypeOK, Sent, EventLog, TrackedLeaves, Watched, netvars, histvars
<1>1. CASE FindAgain
  BY <1>1 DEF FindAgain
<1>2. CASE Exit
  BY <1>2 DEF Exit
<1> QED BY <1>1, <1>2 DEF Application

LEMMA IInvNext == IInv /\ [Next]_vars => IInv'
<1>1. ASSUME IInv, UNCHANGED vars PROVE IInv'
  BY <1>1 DEF IInv, TypeOK, Sent, EventLog, TrackedLeaves, Watched,
              vars, netvars, nodevars, histvars
<1> QED BY <1>1, EnvironmentStep, WatcherStep, ReaderStep, FinderStep, ApplicationStep DEF Next

LEMMA IInvAlways == Spec => []IInv
  BY IInvInit, IInvNext, PTL DEF Spec

-----------------------------------------------------------------------------
\* Start, AddNode and FindNodes keep their types: only nodes that announced
\* themselves are in the table or in an answer, never the node itself or a client.
THEOREM TypeCorrect == Spec => []TypeOK
<1>1. IInv => TypeOK
  BY DEF IInv
<1> QED BY <1>1, IInvAlways, PTL

\* The watcher goroutine misses no departure of a peer whose entry was made
\* after its join was seen, however events cancel out and goroutines interleave.
THEOREM TrackedEntriesLeave == Spec => []TrackedLeaves
<1>1. IInv => TrackedLeaves
  BY DEF IInv
<1> QED BY <1>1, IInvAlways, PTL

\* The table, seen without the library and the goroutines, is a Membership: every
\* step of the node or of its environment is a step of it or changes nothing.
THEOREM ImplementsMembership == Spec => TableIsMembership
<1>1. Init => Table!MInit
  BY DEF Init, Table!MInit
<1>2. IInv /\ [Next]_vars => [Table!MNext]_(Table!mvars)
  <2> SUFFICES ASSUME IInv, [Next]_vars
               PROVE  Table!MNext \/ UNCHANGED Table!mvars
    OBVIOUS
  <2> USE DEF Table!mvars, netvars, nodevars, histvars
  <2>1. ASSUME NEW p \in Peers, Environment(p)
        PROVE  Table!MNext \/ UNCHANGED Table!mvars
    <3>1. CASE Announce(p)
      BY <3>1 DEF Announce, Table!MNext, Table!MAnnounce
    <3>2. CASE PeerLeft(p)
      BY <3>2 DEF PeerLeft, Table!MNext, Table!MDepart
    <3>3. CASE PeerJoin(p)
      BY <3>3 DEF PeerJoin, Table!MNext, Table!MDismiss
    <3> QED BY <2>1, <3>1, <3>2, <3>3
            DEF Environment, PeerStart, PeerStop, Arrive, Lose
  <2>2. CASE Watcher
    <3>1. CASE Delete
      <4>1. leaving \in Peers /\ leaving \in departed
        BY <3>1 DEF Delete, IInv, TypeOK, EventLog, Others
      <4> QED BY <3>1, <4>1 DEF Delete, Table!MNext, Table!MForget
    <3> QED BY <2>2, <3>1 DEF Watcher, MapFault, TakeJoin, TakeLeave
  <2>3. CASE Reader
    <3>1. CASE AddNode
      <4>1. adding \in Peers /\ adding \in announced \ {Self}
        BY <3>1, NobodyIsNoPeer DEF AddNode, IInv, TypeOK
      <4> QED BY <3>1, <4>1 DEF AddNode, Table!MNext, Table!MLearn
    <3> QED BY <2>3, <3>1 DEF Reader, TakeMessage, AddLock
  <2>4. CASE Finder
    BY <2>4 DEF Finder, FindLock, FindUnlock
  <2>5. CASE Application
    BY <2>5 DEF Application, FindAgain, Exit
  <2>6. CASE UNCHANGED vars
    BY <2>6 DEF vars
  <2> QED BY <2>1, <2>2, <2>3, <2>4, <2>5, <2>6 DEF Next
<1> QED BY <1>1, <1>2, IInvAlways, PTL DEF Spec, TableIsMembership, Table!MSpec

-----------------------------------------------------------------------------
\* Fairness speaks of ENABLED, for which the provers have no rule.  These are the
\* facts about it that the proofs need: a goroutine, the ticker and the topic can do
\* what nothing keeps them from doing.
GuardsEnable ==
  /\ alive /\ leaving # NoPeer => ENABLED <<Delete>>_vars
  /\ alive /\ adding = NoPeer /\ sub # <<>> => ENABLED <<TakeMessage>>_vars
  /\ alive /\ adding # NoPeer /\ ~ locked /\ find # "reading" => ENABLED <<AddLock>>_vars
  /\ alive /\ locked => ENABLED <<AddNode>>_vars
  /\ alive /\ find = "poll" /\ ~ locked => ENABLED <<FindLock>>_vars
  /\ alive /\ find = "reading" => ENABLED <<FindUnlock>>_vars
  /\ \A p \in Others \ Clients :
       /\ alive /\ leaving = NoPeer /\ evtLog[p] = "join" => ENABLED <<TakeJoin(p)>>_vars
       /\ p \in running /\ inFlight[p] < MaxInFlight => ENABLED <<Announce(p)>>_vars
       /\ alive /\ inFlight[p] > 0 => ENABLED <<Arrive(p) \/ Lose(p)>>_vars

\* The peer is in the topic, and the watcher has seen it come.
Settled(p) == Here(p) /\ evtLog[p] = "none"

\* One of the first k messages of the subscription is from p.
Near(p, k) == \E i \in 1..Len(sub) : i <= k /\ sub[i] = p

\* There is room on the way to Self for an announcement of p.
Room(p) == inFlight[p] < MaxInFlight

Adding(p) == adding = p
Known(p) == p \in neighbors

FairFor(p) ==
  /\ WF_vars(Announce(p)) /\ WF_vars(Arrive(p) \/ Lose(p)) /\ FairLossy(p)
  /\ SF_vars(TakeJoin(p)) /\ WF_vars(Delete)
  /\ WF_vars(TakeMessage) /\ SF_vars(AddLock) /\ WF_vars(AddNode)
  /\ SF_vars(FindLock) /\ WF_vars(FindUnlock)

LEMMA FairnessOfOne ==
  ASSUME NEW p \in Others
  PROVE  FairSpec => []IInv /\ [][Next]_vars /\ FairFor(p)
<1>1. FairSpec => Spec /\ FairNode /\ FairPeer(p) /\ FairTopic(p)
  BY DEF FairSpec, Fairness, Others
<1> QED BY <1>1, IInvAlways, PTL DEF Spec, FairNode, FairPeer, FairTopic, FairFor

-----------------------------------------------------------------------------
\* The watcher's hands come free, and it sees the join.
LEMMA JoinIsSeen ==
  ASSUME NEW p \in Others \ Clients
  PROVE  FairSpec /\ []GuardsEnable => (<>[]Here(p) => <>[]Settled(p))
<1> DEFINE Seen == evtLog[p] = "none"
           Free == leaving = NoPeer
<1>1. IInv /\ Here(p) /\ ~ Seen => evtLog[p] = "join"
  BY DEF IInv, TypeOK, EventLog, Here, Others
<1>2. IInv /\ [Next]_vars /\ Here(p) /\ Here(p)' /\ Seen => Seen'
  <2> SUFFICES ASSUME IInv, [Next]_vars, Here(p), Here(p)', Seen PROVE Seen'
    OBVIOUS
  <2> USE DEF IInv, TypeOK, Here
  <2>1. ASSUME NEW q \in Peers, Environment(q) PROVE Seen'
    BY <2>1 DEF Environment, PeerStart, PeerStop, Announce, PeerJoin, PeerLeft, LogEvent, Arrive, Lose
  <2>2. CASE Watcher
    BY <2>2 DEF Watcher, MapFault, Delete, TakeJoin, TakeLeave, netvars
  <2>3. CASE Reader \/ Finder \/ Application
    BY <2>3 DEF Reader, TakeMessage, AddLock, AddNode, Finder, FindLock, FindUnlock,
                Application, FindAgain, Exit, netvars
  <2>4. CASE UNCHANGED vars
    BY <2>4 DEF vars, netvars
  <2> QED BY <2>1, <2>2, <2>3, <2>4 DEF Next
<1>3. IInv /\ <<TakeJoin(p)>>_vars => Seen'
  BY DEF IInv, TypeOK, TakeJoin, Others
<1>4. <<Delete>>_vars => Free'
  BY DEF Delete
<1>5. GuardsEnable =>
        /\ Here(p) /\ ~ Free => ENABLED <<Delete>>_vars
        /\ Here(p) /\ Free /\ evtLog[p] = "join" => ENABLED <<TakeJoin(p)>>_vars
  BY DEF GuardsEnable, Here
<1>6. Settled(p) <=> Here(p) /\ Seen
  BY DEF Settled
<1>7. FairSpec => []IInv /\ [][Next]_vars /\ FairFor(p)
  BY FairnessOfOne
<1>8. FairSpec => []IInv /\ [][Next]_vars /\ SF_vars(TakeJoin(p)) /\ WF_vars(Delete)
  BY <1>7, PTL DEF FairFor
<1> HIDE DEF Seen, Free
<1> QED BY <1>1, <1>2, <1>3, <1>4, <1>5, <1>6, <1>8, PTL

-----------------------------------------------------------------------------
\* Whatever the finder does, the reader gets the lock: it adds whom it holds, and is
\* free for the next message.
LEMMA ReaderAdds ==
  ASSUME NEW p \in Others
  PROVE  FairSpec /\ []GuardsEnable =>
           []([]alive => (Adding(p) => <>Known(p)) /\ <>(adding = NoPeer))
<1> DEFINE Hand == adding # NoPeer
           Reading == find = "reading"
<1>1. IInv /\ [Next]_vars =>
        /\ locked => Hand
        /\ locked => locked' \/ ~ Hand'
        /\ Adding(p) => Hand
        /\ Adding(p) => Adding(p)' \/ Known(p)'
  <2> SUFFICES ASSUME IInv, [Next]_vars
               PROVE  /\ locked => Hand
                      /\ locked => locked' \/ ~ Hand'
                      /\ Adding(p) => Hand
                      /\ Adding(p) => Adding(p)' \/ Known(p)'
    OBVIOUS
  <2> USE NobodyIsNoPeer DEF IInv, TypeOK, Adding, Known, Others
  <2>1. locked => Hand
    BY SelfIsAPeer
  <2>2. Adding(p) => Hand
    OBVIOUS
  <2>3. (locked => locked' \/ ~ Hand') /\ (Adding(p) => Adding(p)' \/ Known(p)')
    <3>1. CASE Reader
      BY <3>1 DEF Reader, TakeMessage, AddLock, AddNode
    <3>2. CASE ~ Reader
      <4>1. UNCHANGED <<adding, locked>>
        BY <3>2 DEF Next, Environment, PeerStart, PeerStop, Announce, PeerJoin, PeerLeft,
                    Arrive, Lose, Watcher, MapFault, Delete, TakeJoin, TakeLeave, Finder,
                    FindLock, FindUnlock, Application, FindAgain, Exit, vars, netvars, nodevars
      <4> QED BY <4>1
    <3> QED BY <3>1, <3>2
  <2> QED BY <2>1, <2>2, <2>3
<1>2. <<AddLock>>_vars => locked'
  BY DEF AddLock
<1>3. <<AddNode>>_vars => ~ Hand' /\ (Adding(p) => Known(p)')
  BY DEF AddNode, Adding, Known
<1>4. <<FindUnlock>>_vars => ~ Reading'
  BY DEF FindUnlock
<1>5. GuardsEnable /\ alive =>
        /\ Reading => ENABLED <<FindUnlock>>_vars
        /\ Hand /\ ~ locked /\ ~ Reading => ENABLED <<AddLock>>_vars
        /\ locked => ENABLED <<AddNode>>_vars
  BY DEF GuardsEnable
<1>6. FairSpec => []IInv /\ [][Next]_vars /\ FairFor(p)
  BY FairnessOfOne
<1>7. FairSpec => []IInv /\ [][Next]_vars /\ SF_vars(AddLock) /\ WF_vars(AddNode)
                  /\ WF_vars(FindUnlock)
  BY <1>6, PTL DEF FairFor
<1>8. adding = NoPeer <=> ~ Hand
  OBVIOUS
<1> HIDE DEF Hand, Reading
<1> QED BY <1>1, <1>2, <1>3, <1>4, <1>5, <1>7, <1>8, PTL

-----------------------------------------------------------------------------
\* A node that runs goes on announcing itself, and some announcement finds room in
\* the channel of the subscription.
LEMMA SomeArrive ==
  ASSUME NEW p \in Others \ Clients
  PROVE  FairSpec /\ []GuardsEnable => []([]Here(p) => <>Near(p, SubCap))
<1>1. IInv /\ [Next]_vars /\ Room(p) => Room(p)' \/ <<Announce(p)>>_vars
  <2> SUFFICES ASSUME IInv, [Next]_vars, Room(p), ~ Room(p)' PROVE <<Announce(p)>>_vars
    OBVIOUS
  <2> USE BoundsArePositive DEF IInv, TypeOK, Room, Others
  <2>1. inFlight'[p] # inFlight[p]
    OBVIOUS
  <2>2. ASSUME NEW q \in Peers, Environment(q) PROVE Announce(p)
    <3>1. CASE Announce(q)
      BY <2>1, <3>1 DEF Announce
    <3>2. CASE Arrive(q) \/ Lose(q)
      BY <2>1, <3>2 DEF Arrive, Lose
    <3> QED BY <2>1, <2>2, <3>1, <3>2 DEF Environment, PeerStart, PeerStop, PeerJoin, PeerLeft
  <2>3. CASE Watcher \/ Reader \/ Finder \/ Application \/ UNCHANGED vars
    BY <2>1, <2>3 DEF Watcher, MapFault, Delete, TakeJoin, TakeLeave, Reader, TakeMessage,
                AddLock, AddNode, Finder, FindLock, FindUnlock, Application, FindAgain, Exit,
                vars, netvars
  <2>4. vars' # vars
    BY <2>1 DEF vars, netvars
  <2> QED BY <2>2, <2>3, <2>4 DEF Next
<1>2. IInv /\ <<Arrive(p) \/ Lose(p)>>_vars => Room(p)'
  BY BoundsArePositive DEF IInv, TypeOK, Arrive, Lose, Room, Others
<1>3. IInv /\ <<Arrive(p) /\ Len(sub) < SubCap>>_vars => Near(p, SubCap)'
  <2> SUFFICES ASSUME IInv, Arrive(p), Len(sub) < SubCap PROVE Near(p, SubCap)'
    OBVIOUS
  <2>1. sub' = Append(sub, p) /\ sub \in Seq(announced)
    BY DEF Arrive, IInv, TypeOK
  <2>2. Len(sub') = Len(sub) + 1 /\ sub'[Len(sub) + 1] = p /\ Len(sub) \in Nat
    BY <2>1
  <2> QED BY <2>2, BoundsArePositive DEF Near
<1>4. IInv /\ GuardsEnable =>
        /\ Here(p) /\ Room(p) => ENABLED <<Announce(p)>>_vars
        /\ Here(p) /\ ~ Room(p) => ENABLED <<Arrive(p) \/ Lose(p)>>_vars
  BY BoundsArePositive DEF GuardsEnable, Here, Room, IInv, TypeOK, Others
<1>5. FairSpec => []IInv /\ [][Next]_vars /\ FairFor(p)
  BY FairnessOfOne
<1>6. FairSpec => []IInv /\ [][Next]_vars /\ WF_vars(Announce(p)) /\ WF_vars(Arrive(p) \/ Lose(p))
                  /\ FairLossy(p)
  BY <1>5, PTL DEF FairFor
<1>7. FairSpec /\ []GuardsEnable => []([]Here(p) => []<><<Announce(p)>>_vars)
  BY <1>1, <1>2, <1>4, <1>6, PTL
<1> QED BY <1>3, <1>6, <1>7, PTL DEF FairLossy

\* Its turn comes nearer with every message that the reader takes.
LEMMA TakenInTurn ==
  ASSUME NEW p \in Others, NEW k \in Nat, IInv, [Next]_vars, Near(p, k)
  PROVE  /\ Near(p, k)' \/ Adding(p)'
         /\ TakeMessage => Near(p, k - 1)' \/ Adding(p)'
<1>1. PICK i \in 1..Len(sub) : i <= k /\ sub[i] = p
  BY DEF Near
<1>2. sub \in Seq(announced) /\ Len(sub) \in Nat
  BY DEF IInv, TypeOK
<1>3. ASSUME TakeMessage PROVE (Near(p, k)' /\ Near(p, k - 1)') \/ Adding(p)'
  <2>1. CASE i = 1
    BY <1>1, <1>3, <2>1 DEF TakeMessage, Adding, Others
  <2>2. CASE i # 1
    <3>1. sub' = Tail(sub) /\ sub # <<>>
      BY <1>3 DEF TakeMessage
    <3>2. Len(sub') = Len(sub) - 1 /\ i - 1 \in 1..Len(sub') /\ sub'[i - 1] = p
      BY <1>1, <1>2, <2>2, <3>1
    <3> QED BY <1>1, <3>2 DEF Near
  <2> QED BY <2>1, <2>2
<1>4. ASSUME NEW q \in Peers, Arrive(q) PROVE Near(p, k)'
  <2>1. CASE sub' = Append(sub, q)
    <3>1. Len(sub') = Len(sub) + 1 /\ sub'[i] = sub[i] /\ i \in 1..Len(sub')
      BY <1>1, <1>2, <2>1
    <3> QED BY <1>1, <3>1 DEF Near
  <2>2. CASE sub' = sub
    BY <1>1, <2>2 DEF Near
  <2> QED BY <1>4, <2>1, <2>2 DEF Arrive
<1>5. CASE sub' = sub
  <2>1. Near(p, k)'
    BY <1>1, <1>5 DEF Near
  <2> QED BY <1>3, <2>1
<1>6. CASE sub' # sub
  <2>1. TakeMessage \/ \E q \in Peers : Arrive(q)
    BY <1>6 DEF Next, Environment, PeerStart, PeerStop, PeerJoin, PeerLeft, Announce, Lose,
                Watcher, MapFault, Delete, TakeJoin, TakeLeave, Reader, AddLock, AddNode,
                Finder, FindLock, FindUnlock, Application, FindAgain, Exit, vars, netvars
  <2> QED BY <1>3, <1>4, <2>1
<1> QED BY <1>5, <1>6

-----------------------------------------------------------------------------
\* From some time on p stays, and one of the next k messages is its own.
Comes(p, k) == <>([]Settled(p) /\ Near(p, k))
Enters(p) == <>([]Settled(p) /\ Adding(p))

LEMMA NearAndNearer ==
  ASSUME NEW p \in Others \ Clients, NEW k \in Nat
  PROVE  FairSpec /\ []GuardsEnable => (Comes(p, k) => Comes(p, k - 1) \/ Enters(p))
<1> DEFINE Free == adding = NoPeer
           Waits == Near(p, k)
           Next1 == Near(p, k - 1)
<1>1. IInv /\ [Next]_vars /\ Waits => Waits' \/ Adding(p)'
  BY TakenInTurn
<1>2. IInv /\ [Next]_vars /\ Waits /\ <<TakeMessage>>_vars => Next1' \/ Adding(p)'
  BY TakenInTurn
<1>3. IInv /\ [Next]_vars /\ Free /\ Settled(p)' => Free' \/ <<TakeMessage>>_vars
  <2> SUFFICES ASSUME IInv, [Next]_vars, Free, ~ Free' PROVE <<TakeMessage>>_vars
    OBVIOUS
  <2> USE DEF IInv, TypeOK
  <2>1. TakeMessage
    BY DEF Next, Environment, PeerStart, PeerStop, PeerJoin, PeerLeft, Announce, Arrive, Lose,
           Watcher, MapFault, Delete, TakeJoin, TakeLeave, Reader, AddLock, AddNode,
           Finder, FindLock, FindUnlock, Application, FindAgain, Exit, vars, netvars, nodevars
  <2> QED BY <2>1 DEF vars, nodevars
<1>4. Settled(p) => alive
  BY DEF Settled, Here
<1>5. GuardsEnable /\ Settled(p) /\ Free /\ Waits => ENABLED <<TakeMessage>>_vars
  BY DEF GuardsEnable, Settled, Here, Near
<1>6. FairSpec => []IInv /\ [][Next]_vars /\ FairFor(p)
  BY FairnessOfOne
<1>7. FairSpec => []IInv /\ [][Next]_vars /\ WF_vars(TakeMessage)
  BY <1>6, PTL DEF FairFor
<1>8. FairSpec /\ []GuardsEnable =>
        []([]alive => (Adding(p) => <>Known(p)) /\ <>Free)
  BY ReaderAdds
<1> HIDE DEF Free, Waits, Next1
<1>9. FairSpec /\ []GuardsEnable =>
        [] ([]Settled(p) /\ Waits => <>([]Settled(p) /\ Next1) \/ <>([]Settled(p) /\ Adding(p)))
  BY <1>1, <1>2, <1>3, <1>4, <1>5, <1>7, <1>8, PTL
<1>10. FairSpec /\ []GuardsEnable =>
         (<>([]Settled(p) /\ Waits) => <>([]Settled(p) /\ Next1) \/ <>([]Settled(p) /\ Adding(p)))
  BY <1>9, PTL
<1> QED BY <1>10 DEF Comes, Enters, Waits, Next1

\* A peer that the watcher has seen come, and that stays, is not deleted.
LEMMA EnteredStays ==
  ASSUME NEW p \in Others \ Clients
  PROVE  FairSpec /\ []GuardsEnable => (Enters(p) => <>[]Known(p))
<1>1. IInv /\ [Next]_vars /\ Settled(p) /\ Known(p) => Known(p)'
  <2> SUFFICES ASSUME IInv, [Next]_vars, Settled(p), Known(p) PROVE Known(p)'
    OBVIOUS
  <2>1. leaving # p
    BY DEF IInv, EventLog, Settled, Here, Others
  <2> QED BY <2>1 DEF Known, Next, Environment, PeerStart, PeerStop, PeerJoin, PeerLeft,
              Announce, Arrive, Lose, Watcher, MapFault, Delete, TakeJoin, TakeLeave, Reader,
              TakeMessage, AddLock, AddNode, Finder, FindLock, FindUnlock, Application,
              FindAgain, Exit, vars, netvars, nodevars
<1>2. Settled(p) => alive
  BY DEF Settled, Here
<1>3. FairSpec => []IInv /\ [][Next]_vars
  BY FairnessOfOne
<1>4. FairSpec /\ []GuardsEnable => []([]alive => (Adding(p) => <>Known(p)))
  <2>1. FairSpec /\ []GuardsEnable =>
          []([]alive => (Adding(p) => <>Known(p)) /\ <>(adding = NoPeer))
    BY ReaderAdds
  <2> QED BY <2>1, PTL
<1> QED BY <1>1, <1>2, <1>3, <1>4, PTL DEF Enters

\* Induction: a set of numbers that has an element has a least one.
LEMMA LeastElement ==
  ASSUME NEW T, T \subseteq Nat, T # {}
  PROVE  \E n \in T : \A m \in T : n <= m
<1> DEFINE R == OpToRel(<, Nat)
<1>1. IsWellFoundedOn(R, Nat)
  BY NatLessThanWellFounded
<1> HIDE DEF R
<1>2. PICK n \in T : \A m \in T : <<m, n>> \notin R
  BY <1>1, WFMin
<1>3. ASSUME NEW m \in T, m < n PROVE FALSE
  <2>1. <<m, n>> \in Nat \X Nat
    OBVIOUS
  <2>2. <<m, n>> \in R
    BY <1>3, <2>1 DEF R, OpToRel
  <2> QED BY <1>2, <2>2
<1> QED BY <1>2, <1>3

\* T has, for each peer, the k with which it Comes.  There is one such T for each
\* behaviour, although none can be written with a temporal formula inside of it.
Marks(T) == \A p \in Others, k \in Nat : k \in T[p] <=> Comes(p, k)

LEMMA StayersEnter ==
  ASSUME NEW T \in [Others -> SUBSET Nat], NEW p \in Others \ Clients
  PROVE  FairSpec /\ []GuardsEnable /\ Marks(T) => (<>[]Settled(p) => Enters(p))
<1>1. FairSpec /\ []GuardsEnable => (<>[]Settled(p) => Comes(p, SubCap))
  <2>1. FairSpec /\ []GuardsEnable => []([]Here(p) => <>Near(p, SubCap))
    BY SomeArrive
  <2>2. Settled(p) => Here(p)
    BY DEF Settled
  <2> QED BY <2>1, <2>2, PTL DEF Comes
<1>2. ~ Comes(p, 0)
  <2>1. ~ Near(p, 0)
    BY DEF Near
  <2> QED BY <2>1, PTL DEF Comes
<1> SUFFICES ASSUME FairSpec, []GuardsEnable, Marks(T), <>[]Settled(p) PROVE Enters(p)
  OBVIOUS
<1>3. SubCap \in T[p] /\ T[p] \subseteq Nat
  BY <1>1, BoundsArePositive DEF Marks
<1>4. PICK k \in T[p] : \A j \in T[p] : k <= j
  BY <1>3, LeastElement
<1>5. k \in Nat /\ Comes(p, k)
  BY <1>3 DEF Marks
<1>6. k # 0 /\ k - 1 \in Nat /\ ~ (k <= k - 1)
  BY <1>2, <1>5
<1>7. ~ Comes(p, k - 1)
  BY <1>4, <1>6 DEF Marks
<1> QED BY <1>5, <1>7, NearAndNearer

\* For any peers and any capacity of the channel, however announcements are lost and
\* events cancel out: who stays gets into the table.
THEOREM StayersAreDiscovered ==
  ASSUME NEW T \in [Others -> SUBSET Nat]
  PROVE  FairSpec /\ []GuardsEnable /\ Marks(T) => Discovered
<1>1. ASSUME NEW p \in Others \ Clients
      PROVE  FairSpec /\ []GuardsEnable /\ Marks(T) => IsDiscovered(p)
  <2>1. FairSpec /\ []GuardsEnable => (<>[]Here(p) => <>[]Settled(p))
    BY JoinIsSeen
  <2>2. FairSpec /\ []GuardsEnable /\ Marks(T) => (<>[]Settled(p) => Enters(p))
    BY StayersEnter
  <2>3. FairSpec /\ []GuardsEnable => (Enters(p) => <>[]Known(p))
    BY EnteredStays
  <2>4. FairSpec /\ []GuardsEnable /\ Marks(T) => (<>[]Here(p) => <>[]Known(p))
    BY <2>1, <2>2, <2>3
  <2> QED BY <2>4 DEF IsDiscovered, Known
<1> QED BY <1>1 DEF Discovered

-----------------------------------------------------------------------------
\* The finder gets its lock between two turns of the reader, and sees who is there.
LEMMA KnownAreFound ==
  ASSUME NEW p \in (Others \ Clients) \cap Wanted
  PROVE  FairSpec /\ []GuardsEnable => (<>[]alive /\ <>[]Known(p) => []<>(found # {}))
<1> DEFINE Polls == find = "poll"
           Reads == find = "reading"
           Done == found # {}
<1>1. IInv => Polls \/ Reads \/ Done
  BY DEF IInv, TypeOK
<1>2. IInv /\ [Next]_vars =>
        /\ Polls => Polls' \/ Reads'
        /\ Reads => Reads' \/ <<FindUnlock>>_vars
        /\ locked => locked' \/ <<AddNode>>_vars
  <2> SUFFICES ASSUME IInv, [Next]_vars
               PROVE  /\ Polls => Polls' \/ Reads'
                      /\ Reads => Reads' \/ FindUnlock
                      /\ locked => locked' \/ AddNode
    BY DEF vars, nodevars
  <2> USE DEF IInv, TypeOK
  <2>1. CASE Finder
    BY <2>1 DEF Finder, FindLock, FindUnlock
  <2>2. CASE ~ Finder
    BY <2>2 DEF Next, Environment, PeerStart, PeerStop, PeerJoin, PeerLeft, Announce, Arrive,
                Lose, Watcher, MapFault, Delete, TakeJoin, TakeLeave, Reader, TakeMessage,
                AddLock, AddNode, Application, FindAgain, Exit, vars, netvars, nodevars
  <2> QED BY <2>1, <2>2
<1>3. <<FindLock>>_vars => Reads'
  BY DEF FindLock
<1>4. IInv /\ <<FindUnlock>>_vars /\ Known(p) => Done'
  BY DEF FindUnlock, Known
<1>5. <<AddNode>>_vars => ~ locked'
  BY DEF AddNode
<1>6. GuardsEnable /\ alive =>
        /\ locked => ENABLED <<AddNode>>_vars
        /\ Polls /\ ~ locked => ENABLED <<FindLock>>_vars
        /\ Reads => ENABLED <<FindUnlock>>_vars
  BY DEF GuardsEnable
<1>7. FairSpec => []IInv /\ [][Next]_vars /\ FairFor(p)
  BY FairnessOfOne
<1>8. FairSpec => []IInv /\ [][Next]_vars /\ SF_vars(FindLock) /\ WF_vars(FindUnlock)
                  /\ WF_vars(AddNode)
  BY <1>7, PTL DEF FairFor
<1> HIDE DEF Polls, Reads, Done
<1>9. FairSpec /\ []GuardsEnable => (<>[]alive /\ <>[]Known(p) => []<>Done)
  BY <1>1, <1>2, <1>3, <1>4, <1>5, <1>6, <1>8, PTL
<1> QED BY <1>9 DEF Done

\* The poll loops around FindNodes end wherever a node of their type stays.
THEOREM PollsAreAnswered ==
  ASSUME NEW T \in [Others -> SUBSET Nat]
  PROVE  FairSpec /\ []GuardsEnable /\ Marks(T) => PollEnds
<1>1. ASSUME NEW p \in (Others \ Clients) \cap Wanted
      PROVE  FairSpec /\ []GuardsEnable /\ Marks(T) => IsAnswered(p)
  <2>1. FairSpec /\ []GuardsEnable /\ Marks(T) => (<>[]Here(p) => <>[]Known(p))
    <3>1. FairSpec /\ []GuardsEnable /\ Marks(T) => IsDiscovered(p)
      BY StayersAreDiscovered DEF Discovered
    <3> QED BY <3>1 DEF IsDiscovered, Known
  <2>2. FairSpec /\ []GuardsEnable => (<>[]alive /\ <>[]Known(p) => []<>(found # {}))
    BY KnownAreFound
  <2>3. <>[]Here(p) => <>[]alive
    <3>1. Here(p) => alive
      BY DEF Here
    <3> QED BY <3>1, PTL
  <2> QED BY <2>1, <2>2, <2>3 DEF IsAnswered
<1> QED BY <1>1 DEF PollEnds

-----------------------------------------------------------------------------
LEMMA SeekStepIsNext == [SeekNext]_svars => [Next]_vars
BY DEF SeekNext, Seek, Leave, Background, FirstAnswer, OpenFeed, Request, Pick, Reach,
       Fatal, PollNext, Keep, Cut, Mend, Next, Application, Environment, svars

\* The programs behind the poll loops are applications of the node of Neighbours.
THEOREM SeekersAreApplications == SeekSpec => Spec
<1>1. SeekInit => Init
  BY DEF SeekInit
<1> QED BY <1>1, SeekStepIsNext, PTL DEF SeekSpec, Spec

LEMMA SeekersInit == SeekInit => SeekersOK
BY DEF SeekInit, Init, SeekersOK

\* Who has announced itself stays so.
LEMMA AnnouncedStay ==
  ASSUME IInv, [Next]_vars
  PROVE  announced \subseteq announced'
<1> USE DEF netvars, nodevars, histvars
<1>1. ASSUME NEW p \in Peers, Environment(p) PROVE announced \subseteq announced'
  BY <1>1 DEF Environment, PeerStart, PeerStop, Announce, PeerJoin, PeerLeft, Arrive, Lose
<1>2. CASE Watcher
  BY <1>2 DEF Watcher, MapFault, Delete, TakeJoin, TakeLeave
<1>3. CASE Reader
  BY <1>3 DEF Reader, TakeMessage, AddLock, AddNode
<1>4. CASE Finder \/ Application
  BY <1>4 DEF Finder, FindLock, FindUnlock, Application, FindAgain, Exit
<1>5. CASE UNCHANGED vars
  BY <1>5 DEF vars
<1> QED BY <1>1, <1>2, <1>3, <1>4, <1>5 DEF Next

LEMMA SeekersNext == IInv /\ SeekersOK /\ [SeekNext]_svars => SeekersOK'
<1> SUFFICES ASSUME IInv, SeekersOK, [SeekNext]_svars PROVE SeekersOK'
  OBVIOUS
<1>1. announced \subseteq announced'
  BY SeekStepIsNext, AnnouncedStay
<1>2. found \subseteq announced \ {Self}
  BY DEF IInv, TypeOK
<1>3. cut' \subseteq Others
  BY DEF SeekersOK, SeekNext, Cut, Mend, svars
<1>4. ASSUME UNCHANGED seekvars PROVE SeekersOK'
  BY <1>1, <1>3, <1>4 DEF seekvars, SeekersOK
<1> USE <1>1, <1>2, <1>3 DEF SeekersOK, Programs, Told, Keep, PollNext
<1>5. CASE FirstAnswer
  BY <1>5 DEF FirstAnswer
<1>6. CASE OpenFeed
  BY <1>6 DEF OpenFeed
<1>7. CASE Reach
  BY <1>7 DEF Reach, After
<1>8. CASE Fatal
  BY <1>8 DEF Fatal
<1>9. ASSUME NEW t \in Peers, Request(t) PROVE SeekersOK'
  BY <1>9 DEF Request
<1>10. ASSUME NEW t \in Peers, Pick(t) PROVE SeekersOK'
  BY <1>10 DEF Pick
<1>11. CASE Leave
  BY <1>11 DEF Leave
<1>12. CASE Background \/ (\E p \in Others : Cut(p) \/ Mend(p)) \/ UNCHANGED svars
  BY <1>4, <1>12 DEF Background, Cut, Mend, svars
<1> QED BY <1>5, <1>6, <1>7, <1>8, <1>9, <1>10, <1>11, <1>12 DEF SeekNext, Seek

\* The poll loops of thc, app, dialer and mdns and what is behind them keep their
\* types, for any number of nodes.
THEOREM SeekersCorrect == SeekSpec => []SeekersOK
BY SeekersAreApplications, IInvAlways, SeekersInit, SeekersNext, PTL DEF SeekSpec

LEMMA SeekInvAlways == SeekSpec => [](IInv /\ SeekersOK)
BY SeekersAreApplications, IInvAlways, SeekersCorrect, PTL

-----------------------------------------------------------------------------
\* A program that is over has ended its process, and app has nodes left to ask.
EndsOnce ==
  /\ seek \in {"fatal", "left"} => ~ alive
  /\ prog = "app" /\ seek = "second" => targets # {}

LEMMA EndsOnceAlways == SeekSpec => []EndsOnce
<1>1. SeekInit => EndsOnce
  BY DEF SeekInit, EndsOnce
<1>2. IInv /\ EndsOnce /\ [SeekNext]_svars => EndsOnce'
  <2> SUFFICES ASSUME IInv, EndsOnce, [SeekNext]_svars PROVE EndsOnce'
    OBVIOUS
  <2> USE DEF EndsOnce
  <2>1. ~ alive => ~ alive'
    BY SeekStepIsNext
       DEF Next, Environment, PeerStart, PeerStop, PeerJoin, PeerLeft, Announce, Arrive,
           Lose, Watcher, MapFault, Delete, TakeJoin, TakeLeave, Reader, TakeMessage, AddLock,
           AddNode, Finder, FindLock, FindUnlock, Application, FindAgain, Exit, vars, nodevars
  <2>2. ASSUME UNCHANGED seekvars PROVE EndsOnce'
    BY <2>1, <2>2 DEF seekvars
  <2>3. CASE FirstAnswer
    <3>1. found # {}
      BY <2>3 DEF FirstAnswer, Told, IInv, TypeOK
    <3> QED BY <2>3, <3>1 DEF FirstAnswer, PollNext, Told
  <2>4. CASE OpenFeed
    BY <2>4 DEF OpenFeed
  <2>5. CASE Reach
    BY <2>5 DEF Reach, After
  <2>6. CASE Fatal \/ Leave
    BY <2>6 DEF Fatal, Leave, Exit
  <2>7. ASSUME NEW t \in Peers, Request(t) PROVE EndsOnce'
    BY <2>7 DEF Request, PollNext
  <2>8. ASSUME NEW t \in Peers, Pick(t) PROVE EndsOnce'
    BY <2>8 DEF Pick
  <2> QED BY <2>2, <2>3, <2>4, <2>5, <2>6, <2>7, <2>8
          DEF SeekNext, Seek, Background, Cut, Mend, svars
<1> QED BY <1>1, <1>2, SeekInvAlways, PTL DEF SeekSpec

-----------------------------------------------------------------------------
Done == find = "done"

\* What the programs wait for behind their polls.
CanSeek ==
  /\ alive /\ Done
  /\ \/ seek = "first" /\ (prog \in {"thc", "app"} \/ found # {})
     \/ seek = "second" /\ (prog = "thc" \/ (prog = "app" /\ targets # {}))
     \/ seek \in {"connect", "reconnect", "ping"}
     \/ seek = "look" /\ targets \subseteq Reachable

SeekEnables == CanSeek => ENABLED <<Seek>>_<<vars, seekvars>>

At(label) == seek = label
Feeds == prog = "thc" /\ seek = "second"
Asks(k) == prog = "app" /\ seek = "second" /\ Cardinality(targets) <= k

\* A program that was told of some node can go on, to its end or to its death,
\* unless it looks for an address.
LEMMA ToldCanSeek ==
  ASSUME IInv, SeekersOK, EndsOnce, alive, Done, seek \notin {"ended", "look"}
  PROVE  CanSeek
BY DEF IInv, TypeOK, Done, SeekersOK, EndsOnce, CanSeek, Programs

\* It has the address where every node stays and can be reached.
LEMMA LookCanSeek ==
  ASSUME IInv, SeekersOK, AllAround, Done, At("look")
  PROVE  CanSeek
<1>1. targets \subseteq announced \ {Self} /\ announced \subseteq Peers
  BY DEF SeekersOK, IInv, TypeOK
<1>2. targets \subseteq Reachable
  BY <1>1 DEF AllAround, Here, Reachable, Others
<1> QED BY <1>2 DEF AllAround, CanSeek, At

\* What a step of a program that lives, or of the rest of its node, does.
LEMMA SeekMoves ==
  ASSUME IInv, SeekersOK, EndsOnce, [SeekNext]_svars, alive, alive'
  PROVE  \/ UNCHANGED seekvars /\ (Done => Done')
         \/ /\ Seek /\ prog' = prog
            /\ seek = "first" => \/ seek' = "second" /\ prog \in {"thc", "app"}
                                 \/ seek' \in {"look", "ping"}
            /\ seek = "second" =>
                 \/ seek' = "ended"
                 \/ /\ prog = "app" /\ seek' = "second"
                    /\ \E t \in targets : targets' = targets \ {t}
            /\ seek = "look" => seek' = "connect"
            /\ seek = "connect" => seek' = "reconnect"
            /\ seek \in {"reconnect", "ping"} => seek' = "ended"
            /\ seek # "ended"
<1> DEFINE Goal == /\ Seek /\ prog' = prog
                   /\ seek = "first" => \/ seek' = "second" /\ prog \in {"thc", "app"}
                                        \/ seek' \in {"look", "ping"}
                   /\ seek = "second" =>
                        \/ seek' = "ended"
                        \/ /\ prog = "app" /\ seek' = "second"
                           /\ \E t \in targets : targets' = targets \ {t}
                   /\ seek = "look" => seek' = "connect"
                   /\ seek = "connect" => seek' = "reconnect"
                   /\ seek \in {"reconnect", "ping"} => seek' = "ended"
                   /\ seek # "ended"
<1>1. ~ (Fatal \/ Leave)
  BY DEF Fatal, Leave, Exit
<1>2. ASSUME Background \/ (\E p \in Others : Cut(p) \/ Mend(p)) \/ UNCHANGED svars
      PROVE  UNCHANGED seekvars /\ (Done => Done')
  BY <1>2 DEF Background, Cut, Mend, Done, Watcher, MapFault, Delete, TakeJoin, TakeLeave,
              Reader, TakeMessage, AddLock, AddNode, Finder, FindLock, FindUnlock, Environment,
              PeerStart, PeerStop, PeerJoin, PeerLeft, Announce, Arrive, Lose,
              svars, vars, nodevars
<1>3. ASSUME FirstAnswer PROVE Goal
  BY <1>3 DEF FirstAnswer, Told, PollNext, Seek
<1>4. ASSUME OpenFeed PROVE Goal
  BY <1>4 DEF OpenFeed, Told, Keep, Seek
<1>5. ASSUME Reach PROVE Goal
  BY <1>5 DEF Reach, Told, Keep, Seek, After
<1>6. ASSUME NEW t \in Peers, Request(t) PROVE Goal
  BY <1>6 DEF Request, Told, Keep, Seek, PollNext
<1>7. ASSUME NEW t \in Peers, Pick(t) PROVE Goal
  BY <1>7 DEF Pick, Told, Keep, Seek
<1> HIDE DEF Goal
<1>8. (UNCHANGED seekvars /\ (Done => Done')) \/ Goal
  BY <1>1, <1>2, <1>3, <1>4, <1>5, <1>6, <1>7 DEF SeekNext, Seek
<1> QED BY <1>8 DEF Goal

LEMMA SeekSteps == SeekersOK /\ <<Seek>>_<<vars, seekvars>> => ~ UNCHANGED seekvars
<1> SUFFICES ASSUME SeekersOK, Seek, UNCHANGED seekvars PROVE FALSE
  OBVIOUS
<1> USE DEF seekvars, SeekersOK
<1>1. ~ (FirstAnswer \/ OpenFeed)
  BY DEF FirstAnswer, OpenFeed, Told, PollNext
<1>2. ~ (Reach \/ Fatal)
  BY DEF Reach, Fatal, Told, After
<1>3. ASSUME NEW t \in Peers, Request(t) PROVE FALSE
  BY <1>3 DEF Request, Told, PollNext
<1>4. ASSUME NEW t \in Peers, Pick(t) PROVE FALSE
  BY <1>4 DEF Pick, Told
<1> QED BY <1>1, <1>2, <1>3, <1>4 DEF Seek

AsksSome == prog = "app" /\ seek = "second"

\* What is assumed of a run of a program: somebody is there to be found.
Somebody == (Others \ Clients) \cap Wanted # {}

SeekContext ==
  /\ []IInv /\ []SeekersOK /\ []EndsOnce /\ [][SeekNext]_svars
  /\ WF_<<vars, seekvars>>(Seek)

LEMMA SeekFairness == SeekFairSpec => FairSpec /\ SeekContext
<1>1. SeekFairSpec => SeekSpec /\ Fairness /\ WF_<<vars, seekvars>>(Seek)
  BY PTL DEF SeekFairSpec
<1>2. SeekFairSpec => FairSpec
  BY <1>1, SeekersAreApplications, PTL DEF FairSpec
<1> QED BY <1>1, <1>2, SeekInvAlways, EndsOnceAlways, PTL DEF SeekContext, SeekSpec

\* The poll loop of the program is answered, again and again.
LEMMA PollsComeDone ==
  ASSUME NEW T \in [Others -> SUBSET Nat], NEW p \in (Others \ Clients) \cap Wanted
  PROVE  SeekFairSpec /\ []GuardsEnable /\ Marks(T) => (<>[]Here(p) => []<>Done)
<1>1. FairSpec /\ []GuardsEnable /\ Marks(T) => IsAnswered(p)
  BY PollsAreAnswered DEF PollEnds
<1>2. IInv => (found # {} => Done)
  BY DEF IInv, TypeOK, Done
<1>3. SeekFairSpec => FairSpec /\ []IInv
  BY SeekFairness, PTL DEF SeekContext
<1> QED BY <1>1, <1>2, <1>3, PTL DEF IsAnswered

\* From poll to poll, and from step to step behind it, a program that lives gets to
\* its end, to the loop of app, or to the search for an address and stays there.
LEMMA ProgramsGoOn ==
  SeekContext /\ []SeekEnables /\ []<>Done /\ <>[]alive =>
    <>(At("ended") \/ ([]alive /\ AsksSome)) \/ <>[]At("look")
<1> DEFINE Inv == IInv /\ SeekersOK /\ EndsOnce
           First == At("first")
           Look == At("look")
           Connect == At("connect")
           Reconnect == At("reconnect")
           Ping == At("ping")
           Ended == At("ended")
<1>1. Inv /\ alive =>
        /\ First \/ Look \/ Connect \/ Reconnect \/ Ping \/ Ended \/ Feeds \/ AsksSome
        /\ Look => ~ (First \/ Connect \/ Reconnect \/ Ping \/ Feeds)
  BY DEF At, Feeds, AsksSome, SeekersOK, Programs, EndsOnce
<1>2. Inv /\ [SeekNext]_svars /\ alive /\ alive' =>
        /\ First => (First' /\ (Done => Done')) \/ Feeds' \/ AsksSome' \/ Look' \/ Ping'
        /\ Feeds => (Feeds' /\ (Done => Done')) \/ Ended'
        /\ Look => Look' \/ Connect'
        /\ Connect => (Connect' /\ (Done => Done')) \/ Reconnect'
        /\ Reconnect => (Reconnect' /\ (Done => Done')) \/ Ended'
        /\ Ping => (Ping' /\ (Done => Done')) \/ Ended'
  BY SeekMoves DEF At, Feeds, AsksSome, seekvars
<1>3. Inv /\ [SeekNext]_svars /\ alive /\ alive' /\ <<Seek>>_<<vars, seekvars>> =>
        /\ First => ~ First'
        /\ Feeds => Ended'
        /\ Connect => ~ Connect'
        /\ Reconnect => ~ Reconnect'
        /\ Ping => ~ Ping'
  BY SeekMoves, SeekSteps DEF At, Feeds, seekvars
<1>4. Inv /\ SeekEnables /\ alive /\ Done =>
        Ended \/ Look \/ ENABLED <<Seek>>_<<vars, seekvars>>
  BY ToldCanSeek DEF SeekEnables, At
<1>5. []IInv /\ []SeekersOK /\ []EndsOnce => []Inv
  BY PTL
<1> HIDE DEF Inv, First, Look, Connect, Reconnect, Ping, Ended
<1>6. SeekContext => []Inv /\ [][SeekNext]_svars /\ WF_<<vars, seekvars>>(Seek)
  BY <1>5, PTL DEF SeekContext
<1>7. SeekContext /\ []SeekEnables /\ []<>Done /\ <>[]alive =>
        <>(Ended \/ ([]alive /\ AsksSome)) \/ <>[]Look
  BY <1>1, <1>2, <1>3, <1>4, <1>6, PTL
<1> QED BY <1>7 DEF Ended, Look

\* Where every node can be reached, the search for an address ends.
LEMMA LooksEnd ==
  SeekContext /\ []SeekEnables /\ []<>Done /\ <>[]AllAround => ~ <>[]At("look")
<1> DEFINE Inv == IInv /\ SeekersOK /\ EndsOnce
           Look == At("look")
<1>1. Inv /\ [SeekNext]_svars /\ AllAround /\ AllAround' /\ Look =>
        (UNCHANGED seekvars /\ (Done => Done')) \/ ~ Look'
  BY SeekMoves DEF At, AllAround
<1>2. Inv /\ <<Seek>>_<<vars, seekvars>> => ~ UNCHANGED seekvars
  BY SeekSteps
<1>3. Inv /\ SeekEnables /\ AllAround /\ Done /\ Look => ENABLED <<Seek>>_<<vars, seekvars>>
  BY LookCanSeek DEF SeekEnables
<1>4. []IInv /\ []SeekersOK /\ []EndsOnce => []Inv
  BY PTL
<1> HIDE DEF Inv, Look
<1>5. SeekContext => []Inv /\ [][SeekNext]_svars /\ WF_<<vars, seekvars>>(Seek)
  BY <1>4, PTL DEF SeekContext
<1>6. SeekContext /\ []SeekEnables /\ []<>Done /\ <>[]AllAround => ~ <>[]Look
  BY <1>1, <1>2, <1>3, <1>5, PTL
<1> QED BY <1>6 DEF Look
-----------------------------------------------------------------------------
\* The loop of app over the discovery nodes.
LEMMA TargetsAreFinite ==
  ASSUME IInv, SeekersOK, IsFiniteSet(Peers)
  PROVE  /\ IsFiniteSet(targets)
         /\ Cardinality(targets) \in Nat /\ Cardinality(targets) <= Cardinality(Peers)
<1>1. targets \subseteq Peers
  BY DEF SeekersOK, IInv, TypeOK
<1> QED BY <1>1, FS_Subset, FS_CardinalityType

AsksComes(k) == <>([]alive /\ Asks(k))

LEMMA AskedAndAsked ==
  ASSUME NEW k \in Nat, IsFiniteSet(Peers)
  PROVE  SeekContext /\ []SeekEnables /\ []<>Done =>
           (AsksComes(k) => AsksComes(k - 1) \/ <>At("ended"))
<1> DEFINE Inv == IInv /\ SeekersOK /\ EndsOnce
           Here0 == Asks(k)
           Less == Asks(k - 1)
           Ended == At("ended")
<1>1. ASSUME Inv, [SeekNext]_svars, alive, alive', Here0
      PROVE  \/ Here0' /\ (Done => Done') /\ UNCHANGED seekvars
             \/ Less' \/ Ended'
  <2>1. CASE UNCHANGED seekvars /\ (Done => Done')
    BY <1>1, <2>1 DEF Asks, seekvars
  <2>2. ASSUME NEW t \in targets, targets' = targets \ {t}, prog' = prog, seek' = "second"
        PROVE  Less'
    <3>1. IsFiniteSet(targets) /\ Cardinality(targets) \in Nat
      BY <1>1, TargetsAreFinite
    <3>2. Cardinality(targets') = Cardinality(targets) - 1
      BY <2>2, <3>1, FS_RemoveElement
    <3> QED BY <1>1, <2>2, <3>1, <3>2 DEF Asks
  <2>3. CASE seek' = "ended"
    BY <2>3 DEF At
  <2> QED BY <1>1, <2>1, <2>2, <2>3, SeekMoves DEF Asks
<1>2. Inv /\ alive /\ Here0 /\ SeekEnables /\ Done => ENABLED <<Seek>>_<<vars, seekvars>>
  BY ToldCanSeek DEF SeekEnables, Asks
<1>3. Inv /\ <<Seek>>_<<vars, seekvars>> => ~ UNCHANGED seekvars
  BY SeekSteps
<1>4. []IInv /\ []SeekersOK /\ []EndsOnce => []Inv
  BY PTL
<1> HIDE DEF Inv, Here0, Less, Ended
<1>5. Inv /\ [SeekNext]_svars /\ alive /\ alive' /\ Here0 =>
        (Here0' /\ (Done => Done')) \/ Less' \/ Ended'
  BY <1>1
<1>6. Inv /\ [SeekNext]_svars /\ alive /\ alive' /\ Here0
          /\ <<Seek>>_<<vars, seekvars>> => Less' \/ Ended'
  BY <1>1, <1>3
<1>7. SeekContext => []Inv /\ [][SeekNext]_svars /\ WF_<<vars, seekvars>>(Seek)
  BY <1>4, PTL DEF SeekContext
<1>8. SeekContext /\ []SeekEnables /\ []<>Done =>
        (<>([]alive /\ Here0) => <>([]alive /\ Less) \/ <>Ended)
  BY <1>2, <1>5, <1>6, <1>7, PTL
<1> QED BY <1>8 DEF AsksComes, Here0, Less, Ended

\* U has the k with which AsksComes, as T of Marks.
AskMarks(U) == \A k \in Nat : k \in U <=> AsksComes(k)

LEMMA AskingEnds ==
  ASSUME NEW U \in SUBSET Nat, IsFiniteSet(Peers)
  PROVE  SeekContext /\ []SeekEnables /\ []<>Done /\ AskMarks(U) =>
           (<>([]alive /\ AsksSome) => <>At("ended"))
<1> DEFINE Most == Cardinality(Peers)
<1>1. SeekContext => (<>([]alive /\ AsksSome) => AsksComes(Most))
  <2>1. IInv /\ SeekersOK /\ AsksSome => Asks(Most)
    BY TargetsAreFinite DEF AsksSome, Asks
  <2> HIDE DEF Most
  <2> QED BY <2>1, PTL DEF SeekContext, AsksComes
<1>2. SeekContext => ~ AsksComes(0)
  <2>1. IInv /\ SeekersOK /\ EndsOnce => ~ Asks(0)
    <3> SUFFICES ASSUME IInv, SeekersOK, EndsOnce, Asks(0) PROVE FALSE
      OBVIOUS
    <3>1. IsFiniteSet(targets) /\ Cardinality(targets) = 0
      BY TargetsAreFinite DEF Asks
    <3>2. targets = {}
      BY <3>1, FS_EmptySet
    <3> QED BY <3>2 DEF EndsOnce, Asks
  <2> QED BY <2>1, PTL DEF SeekContext, AsksComes
<1>3. Most \in Nat
  BY FS_CardinalityType
<1> HIDE DEF Most
<1> SUFFICES ASSUME SeekContext, []SeekEnables, []<>Done, AskMarks(U),
                    <>([]alive /\ AsksSome)
             PROVE  <>At("ended")
  OBVIOUS
<1>4. Most \in U
  BY <1>1, <1>3 DEF AskMarks
<1>5. PICK k \in U : \A j \in U : k <= j
  BY <1>4, LeastElement
<1>6. k \in Nat /\ AsksComes(k)
  BY DEF AskMarks
<1>7. k # 0 /\ k - 1 \in Nat /\ ~ (k <= k - 1)
  BY <1>2, <1>6
<1>8. ~ AsksComes(k - 1)
  BY <1>5, <1>7 DEF AskMarks
<1> QED BY <1>6, <1>8, AskedAndAsked

\* A program that lives is held up by its search for an address only.
LEMMA OnlyLookHoldsUp ==
  ASSUME NEW U \in SUBSET Nat, IsFiniteSet(Peers)
  PROVE  SeekContext /\ []SeekEnables /\ []<>Done /\ AskMarks(U) =>
           (<>[]alive => <>At("ended") \/ <>[]At("look"))
<1>1. SeekContext /\ []SeekEnables /\ []<>Done /\ <>[]alive =>
        <>At("ended") \/ <>([]alive /\ AsksSome) \/ <>[]At("look")
  BY ProgramsGoOn, PTL
<1>2. SeekContext /\ []SeekEnables /\ []<>Done /\ AskMarks(U) =>
        (<>([]alive /\ AsksSome) => <>At("ended"))
  BY AskingEnds
<1> QED BY <1>1, <1>2

\* With any finite number of nodes, one wanted node staying: thc, app, dialer and mdns
\* come to their end if they live, or dialer waits for an address.
THEOREM OnlyTheLookWaits ==
  ASSUME NEW T \in [Others -> SUBSET Nat], NEW U \in SUBSET Nat, IsFiniteSet(Peers)
  PROVE  SeekFairSpec /\ []GuardsEnable /\ []SeekEnables /\ Marks(T) /\ AskMarks(U)
           => OnlyLookWaits
<1>1. ASSUME NEW p \in (Others \ Clients) \cap Wanted
      PROVE  SeekFairSpec /\ []GuardsEnable /\ []SeekEnables /\ Marks(T) /\ AskMarks(U)
               => OnlyLooks(p)
  <2>1. SeekFairSpec => SeekContext
    BY SeekFairness
  <2>2. SeekFairSpec /\ []GuardsEnable /\ Marks(T) => (<>[]Here(p) => []<>Done)
    BY PollsComeDone
  <2>3. <>[]Here(p) => <>[]alive
    <3>1. Here(p) => alive
      BY DEF Here
    <3> QED BY <3>1, PTL
  <2>4. SeekContext /\ []SeekEnables /\ []<>Done /\ AskMarks(U) =>
          (<>[]alive => <>At("ended") \/ <>[]At("look"))
    BY OnlyLookHoldsUp
  <2>5. SeekFairSpec /\ []GuardsEnable /\ []SeekEnables /\ Marks(T) /\ AskMarks(U) =>
          (<>[]Here(p) => <>At("ended") \/ <>[]At("look"))
    BY <2>1, <2>2, <2>3, <2>4
  <2> QED BY <2>5 DEF OnlyLooks, At
<1> QED BY <1>1 DEF OnlyLookWaits

\* With any finite number of nodes that stay and can be reached, one of them wanted:
\* thc, app, dialer and mdns come to the end of their search.
THEOREM SearchesEnd ==
  ASSUME NEW T \in [Others -> SUBSET Nat], NEW U \in SUBSET Nat,
         Somebody, IsFiniteSet(Peers)
  PROVE  SeekFairSpec /\ []GuardsEnable /\ []SeekEnables /\ Marks(T) /\ AskMarks(U)
           => SearchEnds
<1>1. PICK p \in (Others \ Clients) \cap Wanted : TRUE
  BY DEF Somebody
<1>2. <>[]AllAround => <>[]Here(p)
  <2>1. AllAround => Here(p)
    BY DEF AllAround
  <2> QED BY <2>1, PTL
<1>3. SeekFairSpec /\ []GuardsEnable /\ []SeekEnables /\ Marks(T) /\ AskMarks(U) =>
        (<>[]Here(p) => <>At("ended") \/ <>[]At("look"))
  BY OnlyTheLookWaits DEF OnlyLookWaits, OnlyLooks, At
<1>4. SeekFairSpec /\ []GuardsEnable /\ Marks(T) => (<>[]Here(p) => []<>Done)
  BY PollsComeDone
<1>5. SeekContext /\ []SeekEnables /\ []<>Done /\ <>[]AllAround => ~ <>[]At("look")
  BY LooksEnd
<1>6. SeekFairSpec => SeekContext
  BY SeekFairness
<1>7. SeekFairSpec /\ []GuardsEnable /\ []SeekEnables /\ Marks(T) /\ AskMarks(U) =>
        (<>[]AllAround => <>At("ended"))
  BY <1>2, <1>3, <1>4, <1>5, <1>6
<1> QED BY <1>7 DEF SearchEnds, At
=============================================================================
