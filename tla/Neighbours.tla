----------------------------- MODULE Neighbours -----------------------------
(***************************************************************************)
(* The neighbour table of one node (node/libp2p.go, Start, AddNode and     *)
(* FindNodes): which peers it knows, from the NodeInfo announcements and   *)
(* the leave events of the topic posemesh_nodes.                           *)
(*                                                                         *)
(* Three goroutines of the observing node, Self, touch the table:          *)
(*   the reader    takes an announcement and adds its sender, with the     *)
(*                 lock held for writing;                                  *)
(*   the finder    the application, polling FindNodes until it returns     *)
(*                 somebody, with the lock held for reading;               *)
(*   the watcher   takes a topic event and deletes who left, with no lock. *)
(* Around them: the other peers, which start, stop and announce themselves *)
(* every tick, and the pubsub library (external), which tells Self who is  *)
(* in the topic and delivers, loses or delays the announcements.           *)
(***************************************************************************)
EXTENDS Naturals, Sequences, FiniteSets

CONSTANTS
  Peers,        \* the nodes of the topic
  Self,         \* the one whose table this is
  Clients,      \* nodes of type "client": they never announce themselves
  Wanted,       \* nodes of the type the finder asks for
  NoPeer,       \* nobody
  SubCap,       \* capacity of the subscription's channel
  MaxInFlight   \* bound on one peer's announcements under way

ASSUME SelfIsAPeer == Self \in Peers
ASSUME NobodyIsNoPeer == NoPeer \notin Peers
ASSUME BoundsArePositive == SubCap \in Nat \ {0} /\ MaxInFlight \in Nat \ {0}

VARIABLES
  \* the network and the library
  running,      \* peers whose process is up
  joined,       \* peers the library holds in the topic, as Self sees it
  evtLog,       \* pending topic event of each peer
  inFlight,     \* announcements of each peer that have not reached Self
  sub,          \* channel of the subscription
  \* the node
  alive,        \* the process of Self
  neighbors,    \* Node.neighbors
  adding,       \* the peer the reader is about to add, or NoPeer
  locked,       \* the reader holds node.mutex
  leaving,      \* the peer the watcher is about to delete, or NoPeer
  find,         \* where the finder is
  found,        \* what FindNodes returned
  \* history
  announced,    \* peers that have announced themselves
  departed,     \* peers that left and were neither deleted nor seen back since
  tracked       \* entries added after the peer's join event was consumed

netvars == <<running, joined, evtLog, inFlight, sub>>
nodevars == <<alive, neighbors, adding, locked, leaving, find, found>>
histvars == <<announced, departed, tracked>>
vars == <<netvars, nodevars, histvars>>

Others == Peers \ {Self}

Init ==
  /\ running = {Self}
  /\ joined = {}
  /\ evtLog = [p \in Peers |-> "none"]
  /\ inFlight = [p \in Peers |-> 0]
  /\ sub = <<>>
  /\ alive = TRUE
  /\ neighbors = {}
  /\ adding = NoPeer
  /\ locked = FALSE
  /\ leaving = NoPeer
  /\ find = "poll"
  /\ found = {}
  /\ announced = {}
  /\ departed = {}
  /\ tracked = {}

-----------------------------------------------------------------------------
\* The other peers.

PeerStart(p) ==
  /\ p \in Others \ running
  /\ running' = running \cup {p}
  /\ UNCHANGED <<joined, evtLog, inFlight, sub, nodevars, histvars>>

\* The process stops or is killed; the library notices later, if at all.
PeerStop(p) ==
  /\ p \in Others \cap running
  /\ running' = running \ {p}
  /\ UNCHANGED <<joined, evtLog, inFlight, sub, nodevars, histvars>>

\* Mutant: the node publishes its NodeInfo once instead of at every tick.
AnnounceOnce(p) ==
  /\ p \in running \ (Clients \cup announced)
  /\ p = Self => alive
  /\ inFlight[p] < MaxInFlight
  /\ inFlight' = [inFlight EXCEPT ![p] = @ + 1]
  /\ announced' = announced \cup {p}
  /\ UNCHANGED <<running, joined, evtLog, sub, nodevars, departed, tracked>>

\* The ticker fires and the node publishes its NodeInfo.  The message reaches
\* Self over any path of the mesh, whether or not Self holds p in the topic.
Announce(p) ==
  /\ p \in running \ Clients
  /\ p = Self => alive
  /\ inFlight[p] < MaxInFlight
  /\ inFlight' = [inFlight EXCEPT ![p] = @ + 1]
  /\ announced' = announced \cup {p}
  /\ UNCHANGED <<running, joined, evtLog, sub, nodevars, departed, tracked>>

-----------------------------------------------------------------------------
\* The pubsub library, as Start uses it.

\* The event log keeps one event per peer; the opposite event cancels it.
LogEvent(p, event) ==
  evtLog' = [evtLog EXCEPT ![p] = IF @ = "none" THEN event ELSE "none"]

PeerJoin(p) ==
  /\ alive
  /\ p \in (Others \cap running) \ joined
  /\ joined' = joined \cup {p}
  /\ LogEvent(p, "join")
  /\ departed' = IF evtLog[p] = "leave" THEN departed \ {p} ELSE departed
  /\ UNCHANGED <<running, inFlight, sub, nodevars, announced, tracked>>

\* The connection is lost, because the peer stopped or not, or p unsubscribed.
PeerLeft(p) ==
  /\ alive
  /\ p \in joined
  /\ joined' = joined \ {p}
  /\ LogEvent(p, "leave")
  /\ departed' = departed \cup {p}
  /\ UNCHANGED <<running, inFlight, sub, nodevars, announced, tracked>>

\* The message is queued for the subscriber, or dropped when the queue is full.
Arrive(p) ==
  /\ alive
  /\ inFlight[p] > 0
  /\ inFlight' = [inFlight EXCEPT ![p] = @ - 1]
  /\ sub' = IF Len(sub) < SubCap THEN Append(sub, p) ELSE sub
  /\ UNCHANGED <<running, joined, evtLog, nodevars, histvars>>

Lose(p) ==
  /\ inFlight[p] > 0
  /\ inFlight' = [inFlight EXCEPT ![p] = @ - 1]
  /\ UNCHANGED <<running, joined, evtLog, sub, nodevars, histvars>>

-----------------------------------------------------------------------------
\* The watcher: eh.NextPeerEvent, then delete(node.neighbors, e.Peer).

\* A join event is consumed and ignored.
TakeJoin(p) ==
  /\ alive
  /\ leaving = NoPeer
  /\ evtLog[p] = "join"
  /\ evtLog' = [evtLog EXCEPT ![p] = "none"]
  /\ UNCHANGED <<running, joined, inFlight, sub, nodevars, histvars>>

\* Mutant: the type of the event is not looked at.
TakeAnyEvent(p) ==
  /\ alive
  /\ leaving = NoPeer
  /\ evtLog[p] # "none"
  /\ leaving' = p
  /\ evtLog' = [evtLog EXCEPT ![p] = "none"]
  /\ UNCHANGED <<running, joined, inFlight, sub, alive, neighbors, adding,
                 locked, find, found, histvars>>

TakeLeave(p) ==
  /\ alive
  /\ leaving = NoPeer
  /\ evtLog[p] = "leave"
  /\ leaving' = p
  /\ evtLog' = [evtLog EXCEPT ![p] = "none"]
  /\ UNCHANGED <<running, joined, inFlight, sub, alive, neighbors, adding,
                 locked, find, found, histvars>>

\* Mutant: the delete is given up when the lock is taken.
DeleteTryLock ==
  /\ alive
  /\ leaving # NoPeer
  /\ neighbors' = IF locked THEN neighbors ELSE neighbors \ {leaving}
  /\ departed' = departed \ {leaving}
  /\ tracked' = IF locked THEN tracked ELSE tracked \ {leaving}
  /\ leaving' = NoPeer
  /\ UNCHANGED <<netvars, alive, adding, locked, find, found, announced>>

\* delete takes no lock: it may come while the reader or the finder holds it.
Delete ==
  /\ alive
  /\ leaving # NoPeer
  /\ neighbors' = neighbors \ {leaving}
  /\ departed' = departed \ {leaving}
  /\ tracked' = tracked \ {leaving}
  /\ leaving' = NoPeer
  /\ UNCHANGED <<netvars, alive, adding, locked, find, found, announced>>

\* The delete overlaps an access under the lock and the runtime notices:
\* "fatal error: concurrent map writes" ends the process.
MapFault ==
  /\ alive
  /\ leaving # NoPeer
  /\ locked \/ find = "reading"
  /\ alive' = FALSE
  /\ UNCHANGED <<netvars, neighbors, adding, locked, leaving, find, found, histvars>>

-----------------------------------------------------------------------------
\* The reader: sub.Next, json.Unmarshal, AddNode.

\* Mutant: a node does not recognise its own announcement.
TakeAnyMessage ==
  /\ alive
  /\ adding = NoPeer
  /\ sub # <<>>
  /\ sub' = Tail(sub)
  /\ adding' = Head(sub)
  /\ UNCHANGED <<running, joined, evtLog, inFlight, alive, neighbors, locked,
                 leaving, find, found, histvars>>

TakeMessage ==
  /\ alive
  /\ adding = NoPeer
  /\ sub # <<>>
  /\ sub' = Tail(sub)
  /\ adding' = IF Head(sub) = Self THEN NoPeer ELSE Head(sub)
  /\ UNCHANGED <<running, joined, evtLog, inFlight, alive, neighbors, locked,
                 leaving, find, found, histvars>>

AddLock ==
  /\ alive
  /\ adding # NoPeer
  /\ ~ locked
  /\ find # "reading"
  /\ locked' = TRUE
  /\ UNCHANGED <<netvars, alive, neighbors, adding, leaving, find, found, histvars>>

\* The library holds p in the topic and the watcher has seen it come.
Watched(p) == p \in joined /\ evtLog[p] = "none" /\ leaving # p

\* A known peer keeps the entry it has.
AddNode ==
  /\ alive
  /\ locked
  /\ neighbors' = neighbors \cup {adding}
  /\ tracked' = IF adding \notin neighbors /\ Watched(adding)
                  THEN tracked \cup {adding} ELSE tracked
  /\ adding' = NoPeer
  /\ locked' = FALSE
  /\ UNCHANGED <<netvars, alive, leaving, find, found, announced, departed>>

-----------------------------------------------------------------------------
\* The finder: the poll loops of thc, app, mdns and dialer around FindNodes.

FindLock ==
  /\ alive
  /\ find = "poll"
  /\ ~ locked
  /\ find' = "reading"
  /\ UNCHANGED <<netvars, alive, neighbors, adding, locked, leaving, found, histvars>>

\* Mutant: an empty answer ends the loop too.
FindOnce ==
  /\ alive
  /\ find = "reading"
  /\ found' = neighbors \cap Wanted
  /\ find' = "done"
  /\ UNCHANGED <<netvars, alive, neighbors, adding, locked, leaving, histvars>>

\* The nodes of the wanted type; an empty answer means sleep and poll again.
FindUnlock ==
  /\ alive
  /\ find = "reading"
  /\ found' = neighbors \cap Wanted
  /\ find' = IF found' = {} THEN "poll" ELSE "done"
  /\ UNCHANGED <<netvars, alive, neighbors, adding, locked, leaving, histvars>>

\* The application looks for nodes once more.
FindAgain ==
  /\ alive
  /\ find = "done"
  /\ find' = "poll"
  /\ found' = {}
  /\ UNCHANGED <<netvars, alive, neighbors, adding, locked, leaving, histvars>>

\* The application ends the process: main returns, log.Fatal, a panic.
Exit ==
  /\ alive
  /\ alive' = FALSE
  /\ UNCHANGED <<netvars, neighbors, adding, locked, leaving, find, found, histvars>>

-----------------------------------------------------------------------------
Environment(p) ==
  \/ PeerStart(p) \/ PeerStop(p) \/ Announce(p)
  \/ PeerJoin(p) \/ PeerLeft(p) \/ Arrive(p) \/ Lose(p)

Watcher == MapFault \/ Delete \/ \E p \in Peers : TakeJoin(p) \/ TakeLeave(p)
Reader == TakeMessage \/ AddLock \/ AddNode
Finder == FindLock \/ FindUnlock
Application == FindAgain \/ Exit

Next == Watcher \/ Reader \/ Finder \/ Application \/ \E p \in Peers : Environment(p)

\* Of the announcements that keep coming some reach Self with room in the channel.
FairLossy(p) ==
  []<><<Announce(p)>>_vars => []<><<Arrive(p) /\ Len(sub) < SubCap>>_vars

\* The ticker of a running node fires; the channel is a fair lossy one;
\* goroutines are scheduled, and a writer that waits for a sync.RWMutex gets it
\* although readers keep coming.  Nothing makes peers start, stop or join, or the
\* application look again.
FairPeer(p) == WF_vars(Announce(p))
FairTopic(p) ==
  /\ WF_vars(Arrive(p) \/ Lose(p))
  /\ FairLossy(p)
  /\ SF_vars(TakeJoin(p)) /\ SF_vars(TakeLeave(p))
FairNode ==
  /\ WF_vars(Delete)
  /\ WF_vars(TakeMessage) /\ SF_vars(AddLock) /\ WF_vars(AddNode)
  /\ SF_vars(FindLock) /\ WF_vars(FindUnlock)
Fairness ==
  /\ FairNode
  /\ \A p \in Others : FairPeer(p)
  /\ \A p \in Peers : FairTopic(p)

Spec == Init /\ [][Next]_vars
FairSpec == Spec /\ Fairness

-----------------------------------------------------------------------------
\* Every variable holds what its declaration promises.  Neither the node itself
\* nor a client is ever in the table, on its way there or in an answer.
TypeOK ==
  /\ running \subseteq Peers /\ joined \subseteq Others
  /\ evtLog \in [Peers -> {"none", "join", "leave"}]
  /\ inFlight \in [Peers -> 0..MaxInFlight]
  /\ sub \in Seq(announced) /\ Len(sub) <= SubCap
  /\ alive \in BOOLEAN /\ locked \in BOOLEAN
  /\ neighbors \subseteq announced \ {Self}
  /\ adding \in (announced \ {Self}) \cup {NoPeer}
  /\ locked => adding # NoPeer
  /\ leaving \in Others \cup {NoPeer}
  /\ find \in {"poll", "reading", "done"}
  /\ found \subseteq (Wanted \cap announced) \ {Self}
  /\ find = "done" <=> found # {}
  /\ announced \subseteq Peers \ Clients
  /\ departed \subseteq Others
  /\ tracked \subseteq neighbors

\* No departure is missed for an entry made after the peer's join was seen: the
\* peer is still in the topic, or its leave event waits, or is being handled.
TrackedLeaves ==
  \A p \in tracked :
    \/ Watched(p)
    \/ evtLog[p] = "leave"
    \/ leaving = p

Here(p) == alive /\ p \in running \cap joined
IsDiscovered(p) == <>[]Here(p) => <>[](p \in neighbors)
IsAnswered(p) == <>[]Here(p) => []<>(found # {})

\* A node that runs, stays in the topic and announces itself is in the table of
\* a node that stays up, from some time on.
Discovered == \A p \in Others \ Clients : IsDiscovered(p)

\* An application that polls for a type ends its loop when a node of that type
\* stays there.
PollEnds == \A p \in (Others \ Clients) \cap Wanted : IsAnswered(p)

\* The node never has to worry about nodes that went down: a node that is down
\* for good, and known to be gone, is out of the table from some time on.
DownIsForgotten ==
  \A p \in Others :
    <>[](alive /\ p \notin running \cup joined) => <>[](p \notin neighbors)

\* The table without the library and the goroutines.
Table == INSTANCE Membership WITH known <- neighbors

\* Whatever order announcements, events and goroutines come in, the table has
\* only peers that announced themselves and loses them only to departures.
TableIsMembership == Table!MSpec
=============================================================================
