----------------------- MODULE DomainDirectoryProofs -----------------------
(***************************************************************************)
(* For any number of discovery nodes, names, clusters and handlers: the    *)
(* typing of DomainDirectory with the origin of every cluster, and that a  *)
(* node which serves shows what its disk holds and what it has confirmed.  *)
(*                                                                         *)
(* ServesDisk speaks of nodes that are ready; the induction has to carry   *)
(* it through the load loop (Loading), which in turn relies on what is     *)
(* still empty before the handlers are registered (Volatile).              *)
(***************************************************************************)
EXTENDS DomainDirectory, TLAPS

\* Before the load the table is empty, and before the handlers are there no
\* request is served.
Volatile ==
  \A n \in Nodes :
    /\ phase[n] \in {"down", "start"} => list[n] = Empty
    /\ phase[n] # "ready" => /\ ackedNow[n] = {}
                             /\ \A h \in Handlers : req[n][h] = Idle

\* During the load: what is still to visit has a file and no entry; the rest,
\* unless it was received meanwhile, is as on disk.
Loading ==
  \A n \in Nodes : phase[n] = "load" =>
    /\ \A id \in toLoad[n] : list[n][id] = None /\ meta[n][id] # None
    /\ \A id \in Ids \ (toLoad[n] \cup touched[n]) : Find(n, id) = OnDisk(n, id)

\* A handler answers for a domain that is in the table.
Answering ==
  \A n \in Nodes, h \in Handlers :
    req[n][h].at = "answer" => Find(n, req[n][h].id) # None

IInv == /\ TypesOK /\ AllGenuine
        /\ Volatile /\ Loading /\ Answering
        /\ ServesDisk /\ ReadYourCreate

USE NoneAndTornAreNoClusters, BoundsAreNat
    DEF TypesOK, Messages, Requests, NoMessage, Idle, Empty, Owner, Find, OnDisk,
        Genuine, procvars, worldvars, histvars, SetReq, Advance

-----------------------------------------------------------------------------
LEMMA IInvInit == Init => IInv
<1> SUFFICES ASSUME Init PROVE IInv
  OBVIOUS
<1> USE DEF Init
<1>1. TypesOK
  OBVIOUS
<1>2. AllGenuine
  BY DEF AllGenuine
<1>3. Volatile /\ Loading /\ Answering
  BY DEF Volatile, Loading, Answering
<1>4. ServesDisk /\ ReadYourCreate
  BY DEF ServesDisk, ReadYourCreate
<1> QED BY <1>1, <1>2, <1>3, <1>4 DEF IInv

-----------------------------------------------------------------------------
LEMMA StopStep ==
  ASSUME IInv, NEW n \in Nodes, Stop(n)
  PROVE  IInv'
<1> USE DEF IInv, Stop
<1>1. TypesOK'
  OBVIOUS
<1>2. AllGenuine'
  BY DEF AllGenuine
<1>3. Volatile' /\ Loading' /\ Answering'
  BY DEF Volatile, Loading, Answering
<1>4. ServesDisk' /\ ReadYourCreate'
  BY DEF ServesDisk, ReadYourCreate, Volatile, Loading, Answering
<1> QED BY <1>1, <1>2, <1>3, <1>4

LEMMA StartStep ==
  ASSUME IInv, NEW n \in Nodes, Start(n)
  PROVE  IInv'
<1> USE DEF IInv, Start, Up
<1>1. TypesOK'
  OBVIOUS
<1>2. AllGenuine'
  BY DEF AllGenuine
<1>3. Volatile' /\ Loading' /\ Answering'
  BY DEF Volatile, Loading, Answering
<1>4. ServesDisk' /\ ReadYourCreate'
  BY DEF ServesDisk, ReadYourCreate, Volatile, Loading, Answering
<1> QED BY <1>1, <1>2, <1>3, <1>4

LEMMA ScanStep ==
  ASSUME IInv, NEW n \in Nodes, Scan(n)
  PROVE  IInv'
<1> USE DEF IInv, Scan
<1>1. TypesOK'
  OBVIOUS
<1>2. AllGenuine'
  BY DEF AllGenuine
<1>3. Volatile' /\ Loading' /\ Answering'
  BY DEF Volatile, Loading, Answering
<1>4. ServesDisk' /\ ReadYourCreate'
  BY DEF ServesDisk, ReadYourCreate, Volatile, Loading, Answering
<1> QED BY <1>1, <1>2, <1>3, <1>4

LEMMA LoadStep ==
  ASSUME IInv, NEW n \in Nodes, NEW id \in Ids, Load(n, id)
  PROVE  IInv'
<1> USE DEF IInv, Load, Visit, Message, Up
<1>1. meta[n][id] \in Clusters /\ Genuine(id, meta[n][id])
  BY DEF Loading, AllGenuine
<1>2. \A m \in Nodes :
        net'[m] \subseteq net[m] \cup {[id |-> id, cluster |-> meta[n][id]]}
  BY DEF Publish
<1>3. net' \in [Nodes -> SUBSET Messages]
  BY <1>1 DEF Publish
<1>4. TypesOK'
  BY <1>1, <1>3
<1>5. AllGenuine'
  <2>1. ASSUME NEW m \in Nodes, NEW msg \in net'[m]
        PROVE  Genuine(msg.id, msg.cluster)
    BY <1>1, <1>2 DEF AllGenuine
  <2>2. ASSUME NEW m \in Nodes, NEW i \in Ids, list'[m][i] # None
        PROVE  Genuine(i, list'[m][i])
    BY <1>1, <2>2 DEF AllGenuine
  <2> QED BY <2>1, <2>2 DEF AllGenuine
<1>6. Volatile' /\ Loading' /\ Answering'
  BY DEF Volatile, Loading, Answering
<1>7. ServesDisk' /\ ReadYourCreate'
  BY DEF ServesDisk, ReadYourCreate, Volatile, Loading, Answering
<1> QED BY <1>4, <1>5, <1>6, <1>7

LEMMA SkipTornStep ==
  ASSUME IInv, NEW n \in Nodes, NEW id \in Ids, SkipTorn(n, id)
  PROVE  IInv'
<1> USE DEF IInv, SkipTorn, Visit
<1>1. TypesOK'
  OBVIOUS
<1>2. AllGenuine'
  BY DEF AllGenuine
<1>3. Volatile' /\ Loading' /\ Answering'
  BY DEF Volatile, Loading, Answering
<1>4. ServesDisk' /\ ReadYourCreate'
  BY DEF ServesDisk, ReadYourCreate, Volatile, Loading, Answering
<1> QED BY <1>1, <1>2, <1>3, <1>4

LEMMA ServeStep ==
  ASSUME IInv, NEW n \in Nodes, Serve(n)
  PROVE  IInv'
<1> USE DEF IInv, Serve
<1>1. TypesOK'
  OBVIOUS
<1>2. AllGenuine'
  BY DEF AllGenuine
<1>3. Volatile' /\ Loading' /\ Answering'
  BY DEF Volatile, Loading, Answering
<1>4. ServesDisk' /\ ReadYourCreate'
  BY DEF ServesDisk, ReadYourCreate, Volatile, Loading, Answering
<1> QED BY <1>1, <1>2, <1>3, <1>4

LEMMA PublishDomainsStep ==
  ASSUME IInv, NEW n \in Nodes, PublishDomains(n)
  PROVE  IInv'
<1> USE DEF IInv, PublishDomains, Publish, Message, Up
<1>1. TypesOK'
  OBVIOUS
<1>2. AllGenuine'
  BY DEF AllGenuine
<1>3. Volatile' /\ Loading' /\ Answering'
  BY DEF Volatile, Loading, Answering
<1>4. ServesDisk' /\ ReadYourCreate'
  BY DEF ServesDisk, ReadYourCreate, Volatile, Loading, Answering
<1> QED BY <1>1, <1>2, <1>3, <1>4

LEMMA ReceiveStep ==
  ASSUME IInv, NEW n \in Nodes, Receive(n)
  PROVE  IInv'
<1> USE DEF IInv, Receive, Touch, Up
<1>1. PICK msg \in net[n] :
        /\ net' = [net EXCEPT ![n] = @ \ {msg}]
        /\ rcv' = [rcv EXCEPT ![n] = msg]
        /\ meta' = [meta EXCEPT ![n] = [@ EXCEPT ![msg.id] = Torn]]
        /\ touched' = [touched EXCEPT ![n] = @ \cup {msg.id}]
  OBVIOUS
<1>2. msg \in Messages /\ Genuine(msg.id, msg.cluster)
  BY DEF AllGenuine
<1>3. TypesOK'
  BY <1>1, <1>2
<1>4. AllGenuine'
  <2>1. ASSUME NEW m \in Nodes, NEW i \in Ids, meta'[m][i] \notin {None, Torn}
        PROVE  Genuine(i, meta'[m][i])
    <3>1. meta'[m][i] = meta[m][i]
      BY <1>1, <1>2, <2>1
    <3> QED BY <2>1, <3>1 DEF AllGenuine
  <2>2. ASSUME NEW m \in Nodes, NEW g \in net'[m]
        PROVE  Genuine(g.id, g.cluster)
    BY <1>1, <2>2 DEF AllGenuine
  <2>3. ASSUME NEW m \in Nodes, rcv'[m] # NoMessage
        PROVE  Genuine(rcv'[m].id, rcv'[m].cluster)
    <3>1. rcv'[m] = IF m = n THEN msg ELSE rcv[m]
      BY <1>1
    <3> QED BY <1>2, <2>3, <3>1 DEF AllGenuine
  <2>4. UNCHANGED <<list, req, created>>
    OBVIOUS
  <2> QED BY <2>1, <2>2, <2>3, <2>4 DEF AllGenuine
<1>5. Volatile' /\ Loading' /\ Answering'
  BY <1>1, <1>2 DEF Volatile, Loading, Answering
<1>6. ServesDisk' /\ ReadYourCreate'
  BY <1>1, <1>2 DEF ServesDisk, ReadYourCreate
<1> QED BY <1>3, <1>4, <1>5, <1>6

LEMMA WriteMetaStep ==
  ASSUME IInv, NEW n \in Nodes, WriteMeta(n)
  PROVE  IInv'
<1> USE DEF IInv, WriteMeta, Touch
<1>1. TypesOK'
  OBVIOUS
<1>2. AllGenuine'
  BY DEF AllGenuine
<1>3. Volatile' /\ Loading' /\ Answering'
  BY DEF Volatile, Loading, Answering
<1>4. ServesDisk' /\ ReadYourCreate'
  BY DEF ServesDisk, ReadYourCreate, Volatile, Loading, Answering
<1> QED BY <1>1, <1>2, <1>3, <1>4

LEMMA WriteFailsStep ==
  ASSUME IInv, NEW n \in Nodes, WriteFails(n)
  PROVE  IInv'
<1> USE DEF IInv, WriteFails
<1>1. TypesOK'
  OBVIOUS
<1>2. AllGenuine'
  BY DEF AllGenuine
<1>3. Volatile' /\ Loading' /\ Answering'
  BY DEF Volatile, Loading, Answering
<1>4. ServesDisk' /\ ReadYourCreate'
  BY DEF ServesDisk, ReadYourCreate
<1> QED BY <1>1, <1>2, <1>3, <1>4

LEMMA LoseStep ==
  ASSUME IInv, NEW n \in Nodes, Lose(n)
  PROVE  IInv'
<1> USE DEF IInv, Lose
<1>1. TypesOK'
  OBVIOUS
<1>2. AllGenuine'
  BY DEF AllGenuine
<1>3. Volatile' /\ Loading' /\ Answering'
  BY DEF Volatile, Loading, Answering
<1>4. ServesDisk' /\ ReadYourCreate'
  BY DEF ServesDisk, ReadYourCreate, Volatile, Loading, Answering
<1> QED BY <1>1, <1>2, <1>3, <1>4

LEMMA InitializeStep ==
  ASSUME IInv, NEW n \in Nodes, NEW h \in Handlers, NEW id \in Ids,
         NEW c \in Clusters, Owner(id) = n, Initialize(n, h, id, c)
  PROVE  IInv'
<1> USE DEF IInv, Initialize
<1>1. /\ \A i \in Ids : created[i] \subseteq created'[i]
      /\ c \in created'[id]
  OBVIOUS
<1>2. \A m \in Nodes, g \in Handlers :
        req'[m][g] = IF m = n /\ g = h
                       THEN [at |-> "publish", id |-> id, cluster |-> c]
                       ELSE req[m][g]
  OBVIOUS
<1>3. TypesOK'
  OBVIOUS
<1>4. AllGenuine'
  <2>1. ASSUME NEW m \in Nodes, NEW g \in Handlers, req'[m][g] # Idle
        PROVE  /\ req'[m][g].cluster \in created'[req'[m][g].id]
               /\ Owner(req'[m][g].id) = m
    <3>1. CASE m = n /\ g = h
      BY <1>1, <1>2, <3>1
    <3>2. CASE ~ (m = n /\ g = h)
      <4>1. req'[m][g] = req[m][g] /\ req[m][g].id \in Ids
        BY <1>2, <2>1, <3>2
      <4> QED BY <1>1, <2>1, <4>1 DEF AllGenuine
    <3> QED BY <3>1, <3>2
  <2>2. ASSUME NEW m \in Nodes, NEW i \in Ids
        PROVE  /\ list'[m][i] # None => list'[m][i] \in created'[i]
               /\ meta'[m][i] \notin {None, Torn} => meta'[m][i] \in created'[i]
    BY <1>1 DEF AllGenuine
  <2>3. ASSUME NEW m \in Nodes
        PROVE  /\ \A msg \in net'[m] : msg.cluster \in created'[msg.id]
               /\ rcv'[m] # NoMessage => rcv'[m].cluster \in created'[rcv'[m].id]
    <3>1. net'[m] \subseteq Messages /\ rcv'[m] \in Messages \cup {NoMessage}
      OBVIOUS
    <3> QED BY <1>1, <3>1 DEF AllGenuine
  <2> QED BY <2>1, <2>2, <2>3 DEF AllGenuine
<1>5. Volatile' /\ Loading' /\ Answering'
  BY <1>2 DEF Volatile, Loading, Answering
<1>6. ServesDisk' /\ ReadYourCreate'
  BY DEF ServesDisk, ReadYourCreate
<1> QED BY <1>3, <1>4, <1>5, <1>6

LEMMA CreateStep ==
  ASSUME IInv, NEW n \in Nodes, NEW h \in Handlers, Create(n, h)
  PROVE  IInv'
<1>1. PICK name \in Names, c \in Clusters : Initialize(n, h, <<n, name>>, c)
  BY DEF Create
<1>2. <<n, name>> \in Ids /\ Owner(<<n, name>>) = n
  BY DEF Ids
<1> QED BY <1>1, <1>2, InitializeStep

LEMMA CreatePublishStep ==
  ASSUME IInv, NEW n \in Nodes, NEW h \in Handlers, CreatePublish(n, h)
  PROVE  IInv'
<1> USE DEF IInv, CreatePublish, Publish, Message, Up
<1>1. TypesOK'
  OBVIOUS
<1>2. AllGenuine'
  BY DEF AllGenuine
<1>3. Volatile' /\ Loading' /\ Answering'
  BY DEF Volatile, Loading, Answering
<1>4. ServesDisk' /\ ReadYourCreate'
  BY DEF ServesDisk, ReadYourCreate, Volatile, Loading, Answering
<1> QED BY <1>1, <1>2, <1>3, <1>4

LEMMA CreateFailsStep ==
  ASSUME IInv, NEW n \in Nodes, NEW h \in Handlers, CreateFails(n, h)
  PROVE  IInv'
<1> USE DEF IInv, CreateFails
<1>1. TypesOK'
  OBVIOUS
<1>2. AllGenuine'
  BY DEF AllGenuine
<1>3. Volatile' /\ Loading' /\ Answering'
  BY DEF Volatile, Loading, Answering
<1>4. ServesDisk' /\ ReadYourCreate'
  BY DEF ServesDisk, ReadYourCreate, Volatile, Loading, Answering
<1> QED BY <1>1, <1>2, <1>3, <1>4

LEMMA CreateInsertStep ==
  ASSUME IInv, NEW n \in Nodes, NEW h \in Handlers, CreateInsert(n, h)
  PROVE  IInv'
<1> USE DEF IInv, CreateInsert, Touch
<1>1. TypesOK'
  OBVIOUS
<1>2. AllGenuine'
  BY DEF AllGenuine
<1>3. Volatile' /\ Loading' /\ Answering'
  BY DEF Volatile, Loading, Answering
<1>4. ServesDisk' /\ ReadYourCreate'
  <2>1. phase[n] = "ready"
    BY DEF Volatile
  <2>2. /\ req[n][h].id \in Ids /\ req[n][h].cluster \in Clusters
        /\ touched' = [touched EXCEPT ![n] = @ \cup {req[n][h].id}]
        /\ list' = [list EXCEPT ![n][req[n][h].id] = req[n][h].cluster]
        /\ UNCHANGED <<phase, meta, ackedNow>>
    OBVIOUS
  <2>3. ServesDisk'
    BY <2>2 DEF ServesDisk
  <2>4. ReadYourCreate'
    BY <2>2 DEF ReadYourCreate
  <2> QED BY <2>3, <2>4
<1> QED BY <1>1, <1>2, <1>3, <1>4

LEMMA CreateAnswerStep ==
  ASSUME IInv, NEW n \in Nodes, NEW h \in Handlers, CreateAnswer(n, h)
  PROVE  IInv'
<1> USE DEF IInv, CreateAnswer
<1> DEFINE id == req[n][h].id
<1>1. id \in Ids /\ phase[n] = "ready" /\ list[n][id] # None
  BY DEF Volatile, Answering
<1>2. /\ acked' \in [Nodes -> SUBSET Ids]
      /\ ackedNow' \in [Nodes -> SUBSET Ids]
      /\ \A m \in Nodes : ackedNow'[m] \subseteq
                            IF m = n THEN ackedNow[n] \cup {id} ELSE ackedNow[m]
  <2>1. CASE /\ acked' = [acked EXCEPT ![n] = @ \cup {id}]
             /\ ackedNow' = [ackedNow EXCEPT ![n] = @ \cup {id}]
    <3> HIDE DEF id
    <3> QED BY <1>1, <2>1
  <2>2. CASE UNCHANGED <<acked, ackedNow>>
    BY <2>2
  <2> QED BY <2>1, <2>2
<1>3. TypesOK'
  BY <1>2
<1>4. AllGenuine'
  BY DEF AllGenuine
<1>5. Volatile' /\ Loading' /\ Answering'
  BY <1>1, <1>2 DEF Volatile, Loading, Answering
<1>6. ServesDisk'
  BY DEF ServesDisk
<1>7. ReadYourCreate'
  BY <1>1, <1>2 DEF ReadYourCreate
<1> QED BY <1>3, <1>4, <1>5, <1>6, <1>7

LEMMA IInvNext == IInv /\ [Next]_vars => IInv'
<1> SUFFICES ASSUME IInv, [Next]_vars PROVE IInv'
  OBVIOUS
<1>1. CASE UNCHANGED vars
  BY <1>1 DEF vars, IInv, AllGenuine, Volatile, Loading, Answering, ServesDisk,
              ReadYourCreate
<1>2. ASSUME NEW n \in Nodes,
             Start(n) \/ Crash(n) \/ MapFault(n) \/ PublishDomains(n)
               \/ Receive(n) \/ WriteMeta(n) \/ WriteFails(n) \/ Lose(n)
      PROVE  IInv'
  BY <1>2, StopStep, StartStep, PublishDomainsStep, ReceiveStep, WriteMetaStep,
     WriteFailsStep, LoseStep DEF Crash, MapFault
<1>3. ASSUME NEW n \in Nodes, Boot(n) PROVE IInv'
  BY <1>3, ScanStep, ServeStep, LoadStep, SkipTornStep DEF Boot
<1>4. ASSUME NEW n \in Nodes, NEW h \in Handlers, Create(n, h) \/ Handle(n, h)
      PROVE  IInv'
  BY <1>4, CreateStep, CreatePublishStep, CreateFailsStep, CreateInsertStep,
     CreateAnswerStep DEF Handle
<1> QED BY <1>1, <1>2, <1>3, <1>4 DEF Next

LEMMA IInvAlways == Spec => []IInv
  BY IInvInit, IInvNext, PTL DEF Spec

-----------------------------------------------------------------------------
\* The directory keeps its types, and whatever a table, a file or a message
\* says of a domain goes back to a CREATE request on the domain's own node.
THEOREM TypeCorrect == Spec => []TypeOK
<1>1. IInv => TypeOK
  BY DEF IInv, TypeOK
<1> QED BY <1>1, IInvAlways, PTL

\* A serving node shows what its disk holds, but for the domains that were
\* received or created since it read it.
THEOREM ReadyServesDisk == Spec => []ServesDisk
<1>1. IInv => ServesDisk
  BY DEF IInv
<1> QED BY <1>1, IInvAlways, PTL

\* What the running process has confirmed to a client, FIND_DOMAIN finds.
THEOREM ConfirmedIsFound == Spec => []ReadYourCreate
<1>1. IInv => ReadYourCreate
  BY DEF IInv
<1> QED BY <1>1, IInvAlways, PTL

\* receiveDomains and the others never change the table of a serving node; only
\* its own CREATE handlers do, for its own domains.
THEOREM TableIsOwn == Spec => OthersOnlyAtStart
<1> DEFINE Own == \A n \in Nodes, id \in Ids :
       phase[n] = "ready" /\ phase'[n] = "ready" /\ list'[n][id] # list[n][id]
         => Owner(id) = n
<1>1. IInv /\ [Next]_vars => [Own]_vars
  <2> SUFFICES ASSUME IInv, Next PROVE Own
    OBVIOUS
  <2> USE DEF IInv
  <2>1. ASSUME NEW m \in Nodes, NEW h \in Handlers, CreateInsert(m, h) PROVE Own
    <3>1. req[m][h].id \in Ids /\ Owner(req[m][h].id) = m
      BY <2>1 DEF CreateInsert, AllGenuine
    <3> QED BY <2>1, <3>1 DEF CreateInsert
  <2>2. ASSUME NEW m \in Nodes, NEW id \in Ids, Load(m, id) PROVE Own
    BY <2>2 DEF Load, Visit
  <2>3. ASSUME NEW m \in Nodes, Stop(m) PROVE Own
    BY <2>3 DEF Stop
  <2>4. ASSUME UNCHANGED list PROVE Own
    BY <2>4
  <2>5. ASSUME NEW m \in Nodes,
               Start(m) \/ PublishDomains(m) \/ Receive(m) \/ WriteMeta(m)
                 \/ WriteFails(m) \/ Lose(m) \/ Scan(m) \/ Serve(m)
                 \/ (\E id \in Ids : SkipTorn(m, id))
                 \/ (\E h \in Handlers : Create(m, h) \/ CreatePublish(m, h)
                                           \/ CreateFails(m, h) \/ CreateAnswer(m, h))
        PROVE  UNCHANGED list
    BY <2>5 DEF Start, PublishDomains, Receive, WriteMeta, WriteFails, Lose, Scan, Serve,
                SkipTorn, Create, Initialize, CreatePublish, CreateFails, CreateAnswer
  <2> HIDE DEF Own, IInv
  <2> QED BY <2>1, <2>2, <2>3, <2>4, <2>5
          DEF Next, Boot, Handle, Crash, MapFault
<1>2. IInv /\ [Next]_vars => [\A n \in Nodes, id \in Ids :
       phase[n] = "ready" /\ phase'[n] = "ready" /\ list'[n][id] # list[n][id]
         => Owner(id) = n]_vars
  BY <1>1
<1> QED BY <1>2, IInvAlways, PTL DEF Spec, OthersOnlyAtStart
=============================================================================
