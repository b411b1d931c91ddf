-------------------------- MODULE DomainDirectory --------------------------
(***************************************************************************)
(* The domains known to the discovery nodes                                *)
(* (example/discovery_node/main.go with utils.InitializeDomainCluster):    *)
(* a table in memory (domainList), which the stream handlers serve, a      *)
(* meta.json per domain on disk, which the table is loaded from when the   *)
(* process starts, and the pubsub topic "domains" between the nodes.       *)
(*                                                                         *)
(* The two copies have different writers.  CREATE_DOMAIN publishes the     *)
(* domain and puts it in the table; receiveDomains puts what the others    *)
(* published on disk; only the load at start goes from disk to the table.  *)
(*                                                                         *)
(* A domain's ID is that of the key pair which its creator keeps under the *)
(* domain's name (PeerIdentity): here the pair of both.  A second CREATE   *)
(* of the name gives the same ID another cluster.                          *)
(***************************************************************************)
EXTENDS Naturals, FiniteSets

CONSTANTS
  Nodes,        \* discovery nodes
  Names,        \* domain names
  Clusters,     \* clusters a CREATE request may ask for
  Handlers,     \* CREATE_DOMAIN streams a node serves at a time
  None,         \* no cluster: not in the table, no file
  Torn,         \* meta.json is there and is not a domain
  MaxCreates,   \* bound on the CREATE requests
  MaxFaults     \* bound on crashes and failing writes

ASSUME NoneAndTornAreNoClusters == {None, Torn} \cap Clusters = {} /\ None # Torn
ASSUME BoundsAreNat == MaxCreates \in Nat /\ MaxFaults \in Nat

Ids == Nodes \X Names
Owner(id) == id[1]

VARIABLES
  \* of each node's process
  phase,        \* "down", "start", "load" or "ready"
  list,         \* domainList
  toLoad,       \* directories the load loop has still to visit
  publishing,   \* publishDomains has not ended
  rcv,          \* what receiveDomains is about to write, or the idle record
  req,          \* what each CREATE handler is doing
  \* of the world
  meta,         \* domains/<id>/meta.json on the node's disk
  net,          \* domains published and not yet received, per receiver
  creates, faults,
  \* history
  created,      \* clusters each domain has been given
  acked,        \* domains the node has confirmed to a client
  ackedNow,     \* those confirmed by the running process
  touched       \* domains received or created since the node read its disk

procvars == <<phase, list, toLoad, publishing, rcv, req>>
worldvars == <<meta, net, creates, faults>>
histvars == <<created, acked, ackedNow, touched>>
vars == <<procvars, worldvars, histvars>>

Empty == [id \in Ids |-> None]
NoMessage == [id |-> None, cluster |-> None]
Idle == [at |-> "idle", id |-> None, cluster |-> None]

Init ==
  /\ phase = [n \in Nodes |-> "down"]
  /\ list = [n \in Nodes |-> Empty]
  /\ toLoad = [n \in Nodes |-> {}]
  /\ publishing = [n \in Nodes |-> FALSE]
  /\ rcv = [n \in Nodes |-> NoMessage]
  /\ req = [n \in Nodes |-> [h \in Handlers |-> Idle]]
  /\ meta = [n \in Nodes |-> Empty]
  /\ net = [n \in Nodes |-> {}]
  /\ creates = 0
  /\ faults = 0
  /\ created = [id \in Ids |-> {}]
  /\ acked = [n \in Nodes |-> {}]
  /\ ackedNow = [n \in Nodes |-> {}]
  /\ touched = [n \in Nodes |-> {}]

-----------------------------------------------------------------------------
Up(n) == phase[n] # "down"

Message(id, c) == [id |-> id, cluster |-> c]

\* domainTopic.Publish: the message is on its way to the nodes that listen.
Publish(n, messages) ==
  net' = [m \in Nodes |->
            IF m # n /\ Up(m) THEN net[m] \cup messages ELSE net[m]]

SetReq(n, h, r) == req' = [req EXCEPT ![n] = [@ EXCEPT ![h] = r]]

\* The handler goes on with its request.
Advance(n, h, at) ==
  SetReq(n, h, [at |-> at, id |-> req[n][h].id, cluster |-> req[n][h].cluster])

Touch(n, id) == touched' = [touched EXCEPT ![n] = @ \cup {id}]

\* Everything in memory goes; the disk stays.
Stop(n) ==
  /\ phase' = [phase EXCEPT ![n] = "down"]
  /\ list' = [list EXCEPT ![n] = Empty]
  /\ toLoad' = [toLoad EXCEPT ![n] = {}]
  /\ publishing' = [publishing EXCEPT ![n] = FALSE]
  /\ rcv' = [rcv EXCEPT ![n] = NoMessage]
  /\ req' = [req EXCEPT ![n] = [h \in Handlers |-> Idle]]
  /\ net' = [net EXCEPT ![n] = {}]
  /\ ackedNow' = [ackedNow EXCEPT ![n] = {}]
  /\ faults < MaxFaults
  /\ faults' = faults + 1
  /\ UNCHANGED <<meta, creates, created, acked, touched>>

Crash(n) == Up(n) /\ Stop(n)

-----------------------------------------------------------------------------
\* The start of the process.

\* SyncDomainsAndPortals: topics are joined, publishDomains and receiveDomains run.
Start(n) ==
  /\ phase[n] = "down"
  /\ phase' = [phase EXCEPT ![n] = "start"]
  /\ publishing' = [publishing EXCEPT ![n] = TRUE]
  /\ UNCHANGED <<list, toLoad, rcv, req, worldvars, histvars>>

\* os.ReadDir.  Directories without a meta.json are visited in vain.
Scan(n) ==
  /\ phase[n] = "start"
  /\ phase' = [phase EXCEPT ![n] = "load"]
  /\ toLoad' = [toLoad EXCEPT ![n] = {id \in Ids : meta[n][id] # None}]
  /\ touched' = [touched EXCEPT ![n] = {}]
  /\ UNCHANGED <<list, publishing, rcv, req, worldvars, created, acked, ackedNow>>

Visit(n, id) ==
  /\ phase[n] = "load"
  /\ id \in toLoad[n]
  /\ UNCHANGED <<phase, publishing, rcv, req, meta, creates, faults, histvars>>

\* The file is read, the domain goes into the table and is published again.
Load(n, id) ==
  /\ Visit(n, id)
  /\ meta[n][id] # Torn
  /\ toLoad' = [toLoad EXCEPT ![n] = @ \ {id}]
  /\ list' = [list EXCEPT ![n] = [@ EXCEPT ![id] = meta[n][id]]]
  /\ Publish(n, {Message(id, meta[n][id])})

\* Mutant: a bad file ends the loop.
BreakOnTorn(n, id) ==
  /\ Visit(n, id)
  /\ meta[n][id] = Torn
  /\ toLoad' = [toLoad EXCEPT ![n] = {}]
  /\ UNCHANGED <<list, net>>

\* Mutant: the error of json.Unmarshal is not looked at.
LoadTorn(n, id) ==
  /\ Visit(n, id)
  /\ meta[n][id] = Torn
  /\ toLoad' = [toLoad EXCEPT ![n] = @ \ {id}]
  /\ list' = [list EXCEPT ![n] = [@ EXCEPT ![id] = Torn]]
  /\ UNCHANGED net

\* json.Unmarshal fails: continue.
SkipTorn(n, id) ==
  /\ Visit(n, id)
  /\ meta[n][id] = Torn
  /\ toLoad' = [toLoad EXCEPT ![n] = @ \ {id}]
  /\ UNCHANGED <<list, net>>

\* The stream handlers are registered.
Serve(n) ==
  /\ phase[n] = "load"
  /\ toLoad[n] = {}
  /\ phase' = [phase EXCEPT ![n] = "ready"]
  /\ UNCHANGED <<list, toLoad, publishing, rcv, req, worldvars, histvars>>

\* publishDomains, whenever its goroutine gets to run: what is in the table by
\* then, which the load loop is filling.
PublishDomains(n) ==
  /\ publishing[n]
  /\ publishing' = [publishing EXCEPT ![n] = FALSE]
  /\ Publish(n, {Message(id, list[n][id]) : id \in {i \in Ids : list[n][i] # None}})
  /\ UNCHANGED <<phase, list, toLoad, rcv, req, meta, creates, faults, histvars>>

-----------------------------------------------------------------------------
\* receiveDomains.

\* A message in any order; os.Create leaves an empty file behind.
Receive(n) ==
  \E msg \in net[n] :
    /\ Up(n)
    /\ rcv[n] = NoMessage
    /\ net' = [net EXCEPT ![n] = @ \ {msg}]
    /\ rcv' = [rcv EXCEPT ![n] = msg]
    /\ meta' = [meta EXCEPT ![n] = [@ EXCEPT ![msg.id] = Torn]]
    /\ Touch(n, msg.id)
    /\ UNCHANGED <<phase, list, toLoad, publishing, req, creates, faults,
                   created, acked, ackedNow>>

\* Mutant: the table is brought up to date as well.
WriteAndList(n) ==
  /\ rcv[n] # NoMessage
  /\ meta' = [meta EXCEPT ![n] = [@ EXCEPT ![rcv[n].id] = rcv[n].cluster]]
  /\ list' = [list EXCEPT ![n] = [@ EXCEPT ![rcv[n].id] = rcv[n].cluster]]
  /\ Touch(n, rcv[n].id)
  /\ rcv' = [rcv EXCEPT ![n] = NoMessage]
  /\ UNCHANGED <<phase, toLoad, publishing, req, net, creates, faults,
                 created, acked, ackedNow>>

WriteMeta(n) ==
  /\ rcv[n] # NoMessage
  /\ meta' = [meta EXCEPT ![n] = [@ EXCEPT ![rcv[n].id] = rcv[n].cluster]]
  /\ Touch(n, rcv[n].id)
  /\ rcv' = [rcv EXCEPT ![n] = NoMessage]
  /\ UNCHANGED <<phase, list, toLoad, publishing, req, net, creates, faults,
                 created, acked, ackedNow>>

\* f.Write writes nothing or a part; its error is not looked at.
WriteFails(n) ==
  /\ rcv[n] # NoMessage
  /\ faults < MaxFaults
  /\ faults' = faults + 1
  /\ rcv' = [rcv EXCEPT ![n] = NoMessage]
  /\ UNCHANGED <<phase, list, toLoad, publishing, req, meta, net, creates, histvars>>

\* The topic does not promise delivery.
Lose(n) ==
  \E msg \in net[n] :
    /\ net' = [net EXCEPT ![n] = @ \ {msg}]
    /\ UNCHANGED <<procvars, meta, creates, faults, histvars>>

-----------------------------------------------------------------------------
\* The CREATE_DOMAIN handler.

\* InitializeDomainCluster: the domain gets its ID, the data nodes are told.
Initialize(n, h, id, c) ==
  /\ phase[n] = "ready"
  /\ req[n][h] = Idle
  /\ creates < MaxCreates
  /\ creates' = creates + 1
  /\ SetReq(n, h, [at |-> "publish", id |-> id, cluster |-> c])
  /\ created' = [created EXCEPT ![id] = @ \cup {c}]
  /\ UNCHANGED <<phase, list, toLoad, publishing, rcv, meta, net, faults,
                 acked, ackedNow, touched>>

Create(n, h) == \E name \in Names, c \in Clusters : Initialize(n, h, <<n, name>>, c)

\* publishDomain in the handler.
CreatePublish(n, h) ==
  /\ req[n][h].at = "publish"
  /\ Publish(n, {Message(req[n][h].id, req[n][h].cluster)})
  /\ Advance(n, h, "insert")
  /\ UNCHANGED <<phase, list, toLoad, publishing, rcv, meta, creates, faults, histvars>>

\* publishDomain fails: the handler returns and the domain is not listed.
CreateFails(n, h) ==
  /\ req[n][h].at = "publish"
  /\ SetReq(n, h, Idle)
  /\ UNCHANGED <<phase, list, toLoad, publishing, rcv, worldvars, histvars>>

\* Mutant: the answer is sent before the domain is in the table.
AnswerThenInsert(n, h) ==
  /\ req[n][h].at = "insert"
  /\ acked' = [acked EXCEPT ![n] = @ \cup {req[n][h].id}]
  /\ ackedNow' = [ackedNow EXCEPT ![n] = @ \cup {req[n][h].id}]
  /\ Advance(n, h, "answer")
  /\ UNCHANGED <<phase, list, toLoad, publishing, rcv, worldvars, created, touched>>

CreateInsert(n, h) ==
  /\ req[n][h].at = "insert"
  /\ list' = [list EXCEPT ![n] = [@ EXCEPT ![req[n][h].id] = req[n][h].cluster]]
  /\ Touch(n, req[n][h].id)
  /\ Advance(n, h, "answer")
  /\ UNCHANGED <<phase, toLoad, publishing, rcv, worldvars, created, acked, ackedNow>>

\* The client has its domain, unless the stream broke meanwhile.
CreateAnswer(n, h) ==
  /\ req[n][h].at = "answer"
  /\ SetReq(n, h, Idle)
  /\ \/ /\ acked' = [acked EXCEPT ![n] = @ \cup {req[n][h].id}]
        /\ ackedNow' = [ackedNow EXCEPT ![n] = @ \cup {req[n][h].id}]
     \/ UNCHANGED <<acked, ackedNow>>
  /\ UNCHANGED <<phase, list, toLoad, publishing, rcv, worldvars, created, touched>>

\* The FIND_DOMAIN handler: the domain, or nothing (the stream is closed).
Find(n, id) == list[n][id]

\* domainList has no lock.  A handler's insertion that overlaps another one, or
\* FETCH_DOMAINS or publishDomains reading the table, is a fatal error.
MapFault(n) ==
  /\ \/ \E h \in Handlers : req[n][h].at = "insert"
     \/ phase[n] = "load" /\ publishing[n] /\ toLoad[n] # {}
  /\ Stop(n)

-----------------------------------------------------------------------------
Boot(n) ==
  \/ Scan(n) \/ Serve(n)
  \/ \E id \in Ids : Load(n, id) \/ SkipTorn(n, id)

Handle(n, h) ==
  CreatePublish(n, h) \/ CreateFails(n, h) \/ CreateInsert(n, h) \/ CreateAnswer(n, h)

Next ==
  \E n \in Nodes :
    \/ Start(n) \/ Crash(n) \/ MapFault(n)
    \/ Boot(n) \/ PublishDomains(n)
    \/ Receive(n) \/ WriteMeta(n) \/ WriteFails(n) \/ Lose(n)
    \/ \E h \in Handlers : Create(n, h) \/ Handle(n, h)

Spec == Init /\ [][Next]_vars

-----------------------------------------------------------------------------
Messages == [id : Ids, cluster : Clusters]

Requests ==
  {Idle} \cup [at : {"publish", "insert", "answer"}, id : Ids, cluster : Clusters]

TypesOK ==
  /\ phase \in [Nodes -> {"down", "start", "load", "ready"}]
  /\ list \in [Nodes -> [Ids -> Clusters \cup {None}]]
  /\ toLoad \in [Nodes -> SUBSET Ids]
  /\ publishing \in [Nodes -> BOOLEAN]
  /\ rcv \in [Nodes -> Messages \cup {NoMessage}]
  /\ req \in [Nodes -> [Handlers -> Requests]]
  /\ meta \in [Nodes -> [Ids -> Clusters \cup {None, Torn}]]
  /\ net \in [Nodes -> SUBSET Messages]
  /\ creates \in 0..MaxCreates /\ faults \in 0..MaxFaults
  /\ created \in [Ids -> SUBSET Clusters]
  /\ acked \in [Nodes -> SUBSET Ids]
  /\ ackedNow \in [Nodes -> SUBSET Ids]
  /\ touched \in [Nodes -> SUBSET Ids]

\* The domain was given this cluster by its creator.
Genuine(id, c) == c \in created[id]

AllGenuine ==
  \A n \in Nodes :
    /\ \A id \in Ids :
         /\ list[n][id] # None => Genuine(id, list[n][id])
         /\ meta[n][id] \notin {None, Torn} => Genuine(id, meta[n][id])
    /\ \A msg \in net[n] : Genuine(msg.id, msg.cluster)
    /\ rcv[n] # NoMessage => Genuine(rcv[n].id, rcv[n].cluster)
    /\ \A h \in Handlers : req[n][h] # Idle =>
         Genuine(req[n][h].id, req[n][h].cluster) /\ Owner(req[n][h].id) = n

\* Every variable holds what its declaration promises, and no table, file or
\* message names a cluster that the domain was never created with.
TypeOK == TypesOK /\ AllGenuine

OnDisk(n, id) == IF meta[n][id] = Torn THEN None ELSE meta[n][id]

\* A node that serves has, for every domain it neither received nor created
\* since it read its disk, exactly what the disk holds: one bad file costs one
\* domain, and gossip during the load costs none.
ServesDisk ==
  \A n \in Nodes : phase[n] = "ready" =>
    \A id \in Ids \ touched[n] : Find(n, id) = OnDisk(n, id)

\* A client that was told its domain exists finds it on that node, as long as
\* the process runs.
ReadYourCreate ==
  \A n \in Nodes : \A id \in ackedNow[n] : Find(n, id) # None

\* A node that serves changes its table only for domains of its own: what the
\* others create reaches the table of a node at its next start, no earlier.
OthersOnlyAtStart ==
  [][\A n \in Nodes, id \in Ids :
       phase[n] = "ready" /\ phase'[n] = "ready" /\ list'[n][id] # list[n][id]
         => Owner(id) = n]_vars

\* The domains of a node come back with it: the load from disk restores those
\* it has confirmed before.
AckedSurvives ==
  \A n \in Nodes : phase[n] = "ready" =>
    \A id \in acked[n] : Find(n, id) # None
=============================================================================
