# Verification of libp2p-experiment

TLA+ models of the peer-to-peer nodes in this repository, the TLC runs that check them on
small instances, and TLAPS proofs of their main properties for every instance.

```
tlc -config Seekers.cfg Seekers                   # one run; PROJECT.json lists them all
tlapm NeighboursProofs.tla                        # one proof module
```

## The system

Every program of the repository (`example/*`) is a **node**: it has an identity on disk, joins
the topic `posemesh_nodes`, keeps a table of the neighbours it hears of, and registers stream
handlers for what it offers. Data nodes hold domains and domain data, discovery nodes hold the
directory of domains and portals, application and camera nodes look for them and send to them.

| Part | State | Operations | Meets |
|---|---|---|---|
| Peer identity (`node/peer.go`) | `<path>/peer.key`, a marker file per peer id | `InitPeerIdentity` | the file system; called by `NewNode` (once per process) and by every `CREATE_DOMAIN` handler |
| Neighbour table (`node/libp2p.go`) | `Node.neighbors`, `Node.mutex` | reader goroutine (`AddNode`), watcher goroutine (`delete`), `FindNodes`, announcement ticker | the pubsub library: topic events, messages |
| Host start-up (`node/libp2p.go`) | host, DHT, relay, mDNS service | `Start`, `setupMDNS`, `createDHT` | library |
| Domain directory (`example/discovery_node`, `utils/domain_cluster.go`) | `domainList` in memory, `domains/<id>/meta.json` on disk | load at start, `CREATE_DOMAIN`, `FIND_DOMAIN`, `FETCH_DOMAINS`, `receiveDomains`, `publishDomains` | topic `domains` between the discovery nodes; peer identity for the domain's key; cluster join on the data nodes |
| Portal directory (`example/discovery_node`) | `portalList`, `portals/<id>` | `CREATE_PORTAL`, `receivePortals`, `publishPortals` | topic `portals` |
| Cluster join (`utils/domain_cluster.go`) | `domains/<name>/{secret,meta.json}`, `domainList` of the data node | `EnableDomainCluster` handler | streams from `InitializeDomainCluster`; a second GossipSub per domain |
| Domain data (`example/data_node`, `utils/domain_data.go`) | partition files, subscribers | `ReceiveDomainData`, `processPartition`, download handler | streams; the file system |
| Framing (`utils/frame.go`, `job.go`) | none | `LoadFrameFromStream`, `LoadJobFromStream` | streams |
| Ping (`utils/ping.go`) | none | `Ping`, `PingStreamHandler` | streams |
| Application (`example/app`), camera and job nodes (`thc`, `salvia`, `cbd`) | streams, the picture | `findDomainDataNode`, `downloadDomainData`, `streamCameraFeed`, SLAM jobs | `FindNodes`, the handlers above |
| Rust node (`rust-libp2p`) | peers, published flag, node map | the `select!` loop | mDNS and gossipsub of rust-libp2p |

### What is hard here

* goroutines share maps and files, some with a lock and some without (`neighbors`, `domainList`,
  `portalList`, `peer.key`, `meta.json`, the partition directory);
* every file is created and then written, so that a crash leaves a torn one behind;
* the topic loses, delays and reorders messages, and topic events cancel out before they are read;
* the two copies of the directory, in memory and on disk, have different writers.

What makes each part correct: the identity a node returned is the one its next start finds; the
table has exactly announced peers, finds those that stay and loses those that leave; a directory
serves what its disk and its confirmations promise; a data node loses no bit that it received and tells
every client that waits; a reader stays in step with the messages on its stream.

## Modules

| Module | Models |
|---|---|
| `PeerIdentity` | `InitPeerIdentity`: callers, key file, crashes |
| `PeerIdentityProofs` | its theorems |
| `Membership` | the abstract neighbour table |
| `Neighbours` | the table with topic, event log, subscription, goroutines and lock; implements `Membership` |
| `Seekers` | `thc`, `app`, `dialer` and `mdns` on top of `Neighbours`: they poll, then use what they were told |
| `NeighboursProofs` | the theorems of both, the refinement included |
| `DomainDirectory` | the discovery nodes: table, disk, topic, CREATE handlers, boot, crashes |
| `MCDomainDirectory` | `DomainDirectory` with the renamings TLC may use as symmetry |
| `DomainDirectoryProofs` | its theorems |
| `DomainData` | the partition of one name on a data node: upload streams that merge its files, subscribers, crashes |
| `DomainDataProofs` | its theorems |
| `MessageChannel` | the abstract channel of messages |
| `MessageStream` | size-prefixed messages on a stream, the loops that read them and their senders; implements `MessageChannel` |
| `MCMessageStream` | `MessageStream` with the lengths TLC uses |
| `MessageStreamProofs` | its theorems |
| `FindDomain` | the application's search for data nodes against the FIND_DOMAIN handler |
| `FindDomainProofs` | its theorems |
| `ClusterJoin` | the calls of `InitializeDomainCluster` and the JOIN handlers on the members |
| `ClusterJoinProofs` | its theorems |
| `Portals` | the portals of the discovery nodes: table, files, topic, CREATE_PORTAL handlers, crashes |
| `PortalsProofs` | its theorems |

Operators whose comment starts with "Mutant:" are slips a programmer could make in the
definition that follows them. No specification uses them; they are there to be put in that
definition's place, to see that the property listed for them notices (`mutants` in `PROJECT.json`).

### PeerIdentity

`keyFile` is the content of `peer.key`: `Absent`, a key, or `Unreadable` between `os.Create`
and the write. `pc` and `priv` are the position and the local variable of each caller. There is one
action per system call on the shared file: `OpenMissing`/`OpenPresent`, `Create`, `Write`,
`Mark` (marker file and return), `ReadKey`, `ReadUnreadable` (the panic ends the process, and with
it every caller). `Crash` may come between any two. `issued` remembers what was ever returned.

* `IssuedIsSaved`: an identity once returned is the one on disk. False for two callers
  (`identity_race`, see Findings).
* `UnracedIsSaved` says what it takes: two callers that find the file missing at a time (`raced`). Readers beside
  a writer, crashes and later calls do no harm, and a lone caller is safe.
* `SettledIsFinal`: once the file exists and nobody is between creating and writing it, it never
  changes. It cuts both ways: the identity is permanent, and so is a torn file.
* `SavedIsIssued`: a complete key is handed out even when its writer died before returning it.

### Neighbours and Membership

The environment is external and modelled from how `Start` uses it: `joined` is who the library
holds in the topic, `evtLog` its one pending event per peer (an opposite event cancels it),
`inFlight` and `sub` the announcements under way and the subscription's channel, which drops what
does not fit. The reader is `TakeMessage`, `AddLock`, `AddNode`; the finder, standing for the poll
loops of `thc`, `app`, `mdns` and `dialer`, is `FindLock`, `FindUnlock`; what the application may do with its
node besides is to look again (`FindAgain`) or to end the process (`Exit`). The watcher
is `TakeJoin`, `TakeLeave`, `Delete` and takes no lock: `Delete` may come while another goroutine
holds it, and `MapFault` is the other outcome of that overlap, the runtime's fatal error. An
overlap that the runtime does not notice is taken to have the effect of one order or the other.

`Membership` says what is left without all that: a peer enters only after it announced itself,
and is removed only on account of a departure, one removal each, none if the peer was seen back.

* `TypeOK` has the node itself and the clients nowhere in the table, on the way to it or in an answer.
* `TrackedLeaves`: an entry made after the join of its peer was consumed (`tracked`) cannot
  outlive the peer's membership unnoticed: there is always a leave event waiting or in hand.
  Entries made otherwise have no such guarantee; that is where the ghosts of `neighbours_ghost` live.
* `Discovered`, `PollEnds`: a peer that stays up, in the topic and announcing is in the table
  from some time on, and a poll for its type ends.
* `TableIsMembership`: the refinement, `known` being `neighbors`.

### Seekers

`prog` is the program on `Self`, `seek` where it is behind its polls, `targets` the nodes it was told of and has
still to use. The poll is the finder of `Neighbours`; everything of `Neighbours` goes on beside it (`Background`).
`FirstAnswer` and `OpenFeed` are `thc`; `FirstAnswer` and `Request` are `createDomain` of `app`, for one discovery node
after the other, each behind a poll of its own, and `Leave` is `main`, which returns behind `Start` and takes the goroutine of
`createDomain` with it; `Pick` and `Reach` are what `dialer` and `mdns` do with `nodes[0]`; `Fatal` is `log.Fatal`, or in
`app` the nil stream of a `NewStream` whose error is not looked at. Nodes offer all types that are asked for.

A node that is told of may be out of reach when it is used: because it has stopped, or because it is `cut`, although it runs. The
example for hole punching has it so (`example/holepunching/README.md:45` and `:48`: the hole punch fails, the DHT has no address before the
dialed node is ready), and a lost connection or a handler that is not registered yet comes to the same: `FindPeerAddresses`, `Connect`, `Ping`
or `NewStream` returns an error. `Cut` and `Mend` are the network's and come at any time; the topic, which reaches a node over
others, goes on. So any use of a running node may be the end of `dialer`, `mdns` and `app`, and only the search of `dialer` for an
address is repeated. `thc` is the one that is not given a vision node on its command
line. Its jobs name no handler, `NewStream` has no protocol to agree on, and the feed is given up before a frame is
sent.

* `SeekersOK`: a program is where its code can be, and what it uses announced itself and is not the node itself; it never dies of
  an empty answer (`nodes[0]` of nothing).
* `OnlyLookWaits`: where one node of the type stays in the topic, a program that does not die comes to its end, whatever becomes of
  the nodes it was told of. The one exception is `dialer`, which asks for the address of the same `nodes[0]` for ever
  (`dialer/main.go:51`) although others may have come. A retry anywhere else would be another (the mutant `FatalOrPingAgain`).
* `SearchEnds`: where all nodes stay and can be reached, each program, `dialer` too, comes to the end of its search.

That a program dies of the first error, and that `Leave` ends `app`, is what the code does; both properties speak of a
process that lives.

### DomainDirectory

A domain's ID is the identity that its creator keeps under the domain's name, so the pair of both.
Each node has a process (`phase`, `list`, `toLoad`, `publishing`, `rcv`, `req`) and a disk (`meta`,
with `Torn` between `os.Create` and the write of `receiveDomains`). `Start`, `Scan`, `Load`,
`SkipTorn`, `Serve` are the start of the process up to the registration of the handlers;
`PublishDomains` is the goroutine that runs beside it; `Receive` and `WriteMeta`/`WriteFails` are
`receiveDomains`, which does not look at the error of its write, so that a torn file may be left while the process goes on; `Create`, `CreatePublish`, `CreateInsert`, `CreateAnswer` are a handler's steps,
several handlers at a time; `MapFault` is the fatal error of an unlocked `domainList`, and, like
`Crash`, takes everything but the disk.

* `TypeOK` includes where clusters come from: no table, file or message says of a domain what its
  owner was not asked for.
* `ServesDisk`: a serving node shows, for each domain it neither received nor created since it
  read its disk (`touched`), exactly what the disk holds.
* `ReadYourCreate`: FIND finds what the running process confirmed.
* `OthersOnlyAtStart`: the table of a serving node changes for its own domains only: gossip
  reaches the disk, and the table no earlier than at the next start.

### DomainData

One directory of partition files (`dir`; `whole` for those that are written, `content` for what they
say), the goroutine of each upload stream (`at`, with its locals `part`, `file`, `todo`, `calls`, `dest`)
and that of each download stream (`st`, `pick`, and `seen`, what its client was sent). There is one action per
system call: `Receive` to `Save` is `ReceiveDomainData`; `List`, `Merge`/`OpenFails`/`ReadTorn`, `Remove`,
`Create`, `WriteMerged` are `processPartition`, and `FindSubscribers`, `CheckOpen`/`CheckGone`,
`Send`/`SendFails` its notifications; `Subscribe`, `Look`, `SendFile`/`PickGone`/`PickTorn` are the
download handler. `IoError` and `RemoveFails` are system calls that fail, `Crash` the end of the process,
`ReadTorn` the panic on a file that is created and not written.

A partition is the set of its bits, `mergePartitions` their union: all parts have one length, as those of
`RandomBitmap` have, so the branch for two lengths is not there. `main` of the data node registers neither
the upload nor the download handler at this commit; that each stream has its goroutine is what
`SetStreamHandler` does for every other handler of the repository.

* `Accounted`: whatever the streams do at once, each uploaded bit is in a file, in the memory of a stream that
  will write it, or was in the memory of one that failed or died.
* `OrphansStay`: a file that was created and that nobody will write is never removed. With `ReadTorn`:
  after one crash at the wrong moment every later upload of the name ends the process.
* `OneFileHasAll`: with one upload stream and no fault, one file has everything whenever the stream rests.
* `WaitingIsUpToDate`: then each client that waits has been sent everything, unless a broken
  stream has cut a round of notifications short (`cut`): a client whose connection is gone is skipped, one whose
  stream is closed on an open connection ends the round for those behind it.

### MessageStream and MessageChannel

Bytes are known by their position: message `i` has its size at `Start[i]` and `Size[i]` bytes behind it. The sender
(`Write`, `Close`) is `sendDomainData`, or the file copied by the download handler, which may end early
(`CloseEarly`). `ReadSize` and `ReadContent` are one `Read` each inside `io.ReadFull`, of any length; `Call` is
the callback, after which a looping reader goes on and, if `once`, `LoadFrameFromStream` and
`LoadJobFromStream` return. Four bytes that are not at the start of a message may say any size (`SizeAt`).

Where the messages start (`Start`) follows from their lengths, as a recursive function.

`MessageChannel` says what is left without bytes: messages that were sent to the last byte are handled one after the other,
and nothing once the reader has returned. `Channel` maps the one to the other.

* `ImplementsChannel`: the refinement. So the callback gets the messages whole, each once and in order (`WholeInOrder`, the
  invariant behind it), and none that the sender has not finished.
* `NilDropsSizeOnly`: a looping reader that returns nil has handled all that was begun, but for a size
  without content, which `io.EOF` hides.
* `OnceTakesOne`: the readers of frames and jobs take nothing behind the first message, so that the sender
  gets no further than the window behind it.
* `AllArrive`: what nobody cuts short, resets or refuses arrives at a looping reader.

Of the readers of frames and jobs that cannot be said. It has no consequence at this commit, where nobody sends a
second message on such a stream: `thc` does not get as far as the first frame (see `Seekers`).

### FindDomain

The application's side is `findDomainDataNode` and the two loops of `main` that call it: `Calls` are
the calls in their order (list and try; the node asked is the first one each time), `Turn` says whose turn it is,
`call` and `reader` are the positions of the caller and of the goroutine that reads its answer, `gives` what that has
for the unbuffered channels. `Open`/`OpenFails`, `Write`/`WriteFails` and `Select` are the caller,
`ReadAnswer`/`ReadFails` the goroutine, `Handle`/`HandleFails` the handler of the discovery node, which reads to
the end of the stream before it looks into its table. `Break` is the loss of a stream. `Guests` are other clients of the
handler, external, which do close their side: they show what the handler does when it gets that far. The content of the answer
is abstracted to whether it names data nodes.

* `Unanswered`: no call of the application returns data nodes. Both sides are correct alone and wait for each other:
  the application never closes its side (`app/main.go:183`), the handler reads until it does
  (`discovery_node/main.go:129`).
* `OnlyLossEnds`: a call whose request is written ends with the stream and by nothing else, not even where the domain
  is unknown. So the retries of `main` count losses.
* `LostCallsEnd`: a call whose stream is lost does return.
* `LeftBehind`: a goroutine outlives its call only where the write failed (`app/main.go:180`), and then for ever.
* `GuestsServed`: a client that closes its side comes to an end, by an answer or the end of the stream.

Closing its side is not all the application would have to do: its request is a flatbuffer, of which the handler takes every
byte for the ID, and the answer is JSON, which it would decode as flatbuffers. The model has the first mismatch only; what it
says of the application does not depend on the others.

### ClusterJoin

`Requests` are CREATE_DOMAIN requests for one name, which is the one the orchestrator page always sends; `id` is the domain
each is for, the identity that its discovery node keeps under the name. `todo` are the members the creator has still to
call, `at[r][m]` is the handler of request `r` on member `m`, one action per system call: `CreateSecret`, `WriteSecret`,
`List` (topic and `domainList`), `CreateMeta`, `Encode`. The files lie under the name, hence `secret` and `meta` per member.
`Call`/`CallFails` are the creator's loop, `Abandon` its end; `Fail` stands for every early return of the handler,
`Crash` and `MapFault` (the unlocked `domainList`) for the end of a member's process. No member reads the files: both are
there for a use that this commit does not have.

* `LoneJoinIsWhole`: a join that ran with no other under way, and with none since, leaves a secret and a `meta.json` of its own
  domain, whatever crashes and overlaps had left. So a repeated request repairs a member.
* `DamageHasACause`: a torn file has a handler that was cut short, or is about to write; a mixture of two contents has two
  handlers that overlapped.
* `MembersJoin`: one member that fails keeps no other from joining: the creator goes on with the next.

Two discovery nodes asked for one name use two ids and one directory on every member: the second join takes the place of
the first on disk while memory lists both.

### Portals

`state[n][c]` is what the process of node `n` has done with portal `c`: not in `portalList`, put there by a handler (`own`),
or by the receiver, and then how far its file has come; `disk` are the files `portals/<id>`, `req` the handlers, `net` the
messages under way. `Read`, `Insert`, `Publish`/`PublishFails` are `createPortalStreamHandler`; `PublishOne`, `PublishEnd` are
`publishPortals`; `Receive`, `Create`/`CreateFails`, `Write`/`WriteFails` are `receivePortals`. The handler calls `Read` once where
it needs a whole message: less may come, and then it lists and publishes a portal with an id nobody gave
it (`Garbled`, which ends in zero bytes, so that no file can have its name) or panics (`ReadPanics`). `MapFault` is the fatal
error of the unlocked map, `Crash` the end of the process, `Lose` the topic. The descriptors that `defer f.Close()` keeps open in a loop that
never returns are one cause of `CreateFails`.

* `TypeOK` has where portals come from: nothing is known, sent or saved that nobody asked for, but for `Garbled`, which is
  never saved; and the receiver has one portal in hand.
* `KeptIsSaved`: what the receiver takes for saved is saved, over a torn file of an earlier process too.
* `FileIsFinal`: once the receiver is done with a portal, entry and file stay while the process runs. It cuts both ways:
  no saved file is opened again, and a portal whose file failed, or that a handler of this node put into the table, is never
  saved.
* `Spreads`: while nothing fails, a portal reaches every table, and every disk but that of the node it was created at.

No code reads `portals/`: a node that restarts knows no portal until it is published again, and nobody publishes it
again. The model has the restart; no property promises more.

## Runs

| Run | Instance | Shows |
|---|---|---|
| `identity_safety` | 2 callers, 6 keys, 2 crashes | what a node and a domain keep of their identity |
| `identity_race` | 2 callers, 3 keys | violation: a returned key is overwritten |
| `seekers` | self and 1 peer, channel of 1, 1 announcement under way each, each of the 4 programs, the peer cut off at any time | table: safety, refinement, liveness under loss; programs: what holds them up, what ends them |
| `neighbours_ghost` | self and 1 peer | violation: a dead peer stays |
| `directory_gossip` | 2 nodes, 1 name, 2 clusters, 2 handlers, 2 creates, 2 faults (crashes, failing writes), with symmetry | safety |
| `directory_restart` | 2 nodes, 1 create, 1 fault | violation: a confirmed domain is lost |
| `data_merge` | 2 upload streams, 2 bits, 5 files, 1 fault | nothing else is lost, orphans stay |
| `data_lone` | 1 upload and 2 download streams, 3 bits, 4 files, 1 fault | one file has all, clients that wait have all |
| `stream_safety` | messages of 2, 1 and 3 bytes behind sizes of 2, window of 4, both readers | framing: refinement, safety and liveness |
| `find_domain` | 2 lists, 2 tries each, 1 other client | no answer for the application; what ends its calls |
| `cluster_join` | 2 requests, 2 members, 2 ids, 2 faults | files of a member, independence of the members |
| `portals` | 2 nodes, one of them asked for 2 portals, 2 faults | origin, finality and spread of portals |

Bounds. The keys are one for each caller in each process that can find the file missing. Two
callers are enough for every race on one file: a third adds no state of the file. In `seekers` a channel of one is
full as soon as two announcements meet, the node's own among them (in `mdns`, the one program whose node announces itself), and one peer comes, goes
and comes back in every order with its own events. What several peers do to each other in the table, and the loop of `app` over several
discovery nodes, is left to the theorems, which are for any number of peers. Two nodes, two faults and two
creates give a torn file at the receiver, a republication to the owner after a restart, and two
clusters of one domain on their way at once. `CHECK_DEADLOCK FALSE` in the directory runs: when the
bounded requests and faults are used up and every node serves, nothing is left to do, as for a
directory that nobody asks. In the data runs two uploads with five files give every overlap of two merges and a
third upload after them, one fault each kind of orphan and loss; four files in `data_lone` give two uploads that
merge, so that a client can meet the first, the second or nothing; the files are used up in the end, hence
`CHECK_DEADLOCK FALSE`. In the stream run the window is smaller than the longest message and larger than a size, so
that writes and reads stop in the middle of both; a reader that has returned is the end. In `cluster_join` two requests on one member give every
overlap of two handlers, two faults a torn file and the crash of who would repair it; two ids are two discovery nodes,
and the initial states have both requests at one node too. In `portals` two portals at one node are two handlers that meet and a receiver with a
second message behind the first; two faults are a crash with a torn file and another one. Where all requests and faults are used up
both stop, hence `CHECK_DEADLOCK FALSE`. In `find_domain` two lists and two tries
give every order of losses in which a next try or the next list begins, beside one client that is served; a search that is
over, or that waits for ever, is the end. `directory_gossip` uses symmetry in nodes, clusters and handlers, and checks no liveness.

Fairness. In `PeerIdentity` a goroutine that can run does, and a process that died is started
again (only `SavedIsIssued` needs it). In `Neighbours` the ticker of a running node fires, an
announcement under way arrives or is lost, of those that keep coming some find room (`FairLossy`), and
goroutines are scheduled; `AddLock` and `FindLock` have strong fairness because `sync.RWMutex` does
not starve a waiting writer or reader, and the event log strong fairness per peer because the library picks events from
a Go map in random order. Nothing obliges a peer to start, stop, join, or the application
to look again. In `Seekers` the program's goroutine is scheduled; `Leave` is not obliged to come, but may at any time, and nothing obliges a way to a node
to fail or to come back. In
`ClusterJoin` creators and handlers are scheduled, in `Portals` handlers, receiver and `publishPortals`, one weak fairness for each
node's work: each handles finitely many portals. In `MessageStream` the sender's and the reader's
goroutine are scheduled, nothing obliges the stream to fail or the callback to refuse. In `FindDomain` callers,
goroutines and handlers are scheduled and `main` goes on with its loops; no stream has to break, no other client has to come.

## Proofs

All for every value of the constants, under the named assumptions on them (sentinels distinct from
real values, bounds natural numbers).

Each property of a run that passes is the conclusion of one of these theorems.

### Safety

* `PeerIdentityProofs`: `TypeCorrect`, `SettledForever` and `UnracedIdentityIsSaved` for any number of callers;
  `LoneIdentityIsSaved`, that a lone caller's `IssuedIsSaved` holds, follows. `UnracedIsSaved` is not inductive:
  `OneWriter` adds that one caller at most is about to create or write, `KeyInHand` that nothing has been issued by
  then and that the file holds what a caller is about to return.
* `NeighboursProofs`: `TypeCorrect`, `TrackedEntriesLeave` and `ImplementsMembership` from one invariant. `EventLog`
  is what it needs: an event in the log is the last change the watcher has not seen, and no second leave
  of a peer can wait while the watcher holds one.
  `SeekersAreApplications` says that a node with one of the programs is a behaviour of `Neighbours`, so that all of this holds
  for it; `SeekersCorrect` follows the programs.
* `DomainDirectoryProofs`: `TypeCorrect`, `ReadyServesDisk`, `ConfirmedIsFound`, `TableIsOwn`. `ServesDisk` is
  about serving nodes; `Loading` carries it through the load loop (what is still to visit has a file and no entry,
  the rest agrees with the disk) and `Volatile` gives it its start (an empty table, no requests).
* `DomainDataProofs`: `TypeCorrect`, `NothingElseIsLost` and `UnwrittenStays` for any number of streams, files and faults.
  `Ownership` is the strengthening: who writes a file has it for himself, and what a handler is about to remove it
  has in memory. `LoneMergeHasAll` and `LoneWaitingIsUpToDate` under the hypothesis of one upload stream; `Lone` says
  what memory and directory hold between them at each step, `UpToDate` what the clients already have.
* `MessageStreamProofs`: `TypeCorrect`, `MessagesWholeInOrder`, `StreamIsAChannel`, `NilIsAlmostAnEnd` and `OnceIsOnce` for
  messages of any number and length and any window. `InStep` ties the bytes consumed to the message at hand. That every start is a
  number and lies behind the message before (`StartExists`, `StartFollowsSizes`, `StartsGrow`) is an induction over
  the recursive function `Start`; it goes through `LeastElement`: of the numbers for which it fails there would be a least one.
  `NeitherWaits` says that there is no deadlock: on a stream that is left alone, a looping reader or its sender can go on until all
  has arrived.
* `FindDomainProofs`: `TypeCorrect`, `ApplicationUnanswered`, `LossAloneEnds` and `LeftBehindByWriteOnly` for any number of
  lists, discovery nodes and clients. `OpenEnded` is the strengthening: a stream of the application is never
  ended, hence never answered, and what its goroutine hands over comes from a loss.
* `ClusterJoinProofs`: `TypeCorrect`, `LoneJoinRepairs`, `DamageIsExplained` for any number of requests, members, ids and faults.
  `Lone` says what a join that is alone has on disk at each of its steps, `Written` who wrote a `meta.json`, `Uncalled` that who is still to be called
  has no handler.
* `PortalsProofs`: `TypeCorrect`, `KeptStaysSaved`, `FilesAreFinal` for any nodes, portals and faults. The invariant is
  that of the runs, with `Known` (a garbled portal is never about to be written); files change in `Create` and `Write` only, entries
  that are there by restarts or the receiver's own steps.

### Liveness

The theorems about what must happen have the fair specification and, besides, hypotheses of two kinds.

`[]GuardsEnable` (in `Seekers` `[]SeekEnables` too): where its guard holds, an action is enabled. `ENABLED` is the one thing the
provers have no rule for. Each conjunct names the guard of one action (or union of actions) of the fairness conditions; the other conjuncts of
these actions assign the primed variables, so that the guard is all there is to it. A step that asked for more than its guard (an
announcement that is sent once, say) would make the hypothesis false, not the proof. TLC can evaluate it: `GuardsEnable` is a state
predicate and holds as an invariant on the instance of each run above.

`Marks(T)`, `AskMarks(U)`, `Values(T)`: the constant `T` has exactly what this behaviour comes to: the positions in the stream, the places in the
subscription's queue, the values of the variables. Every behaviour has its `T`, and the theorems are for all `T`; it is there
because a temporal formula cannot stand in a set that one takes the least element of. From `T` the induction on
the distance to the goal goes as for `Start`: take the least distance the behaviour comes to; if it is not zero, fairness makes it smaller.

* `SavedWillBeIssued` (`SavedIsIssued`): a saved key is issued if the kills end (`KillsEnd`; in the runs
  `MaxCrashes` sees to it). From the key on disk each caller goes from label to label, and none leads elsewhere.
* `StayersAreDiscovered` (`Discovered`): the join of a peer that stays is read in the end (`JoinIsSeen`: strong fairness, the event
  log keeps it until then); after that no event of its membership can remove it. One of its announcements gets into the subscription
  (`SomeArrive`), comes nearer with every message that is taken (`NearAndNearer`), and is added, since the lock comes free (`ReaderAdds`).
  `PollsAreAnswered` (`PollEnds`): a poll that begins when the peer is in the table finds it, and there is always a next one.
* `OnlyTheLookWaits` (`OnlyLookWaits`): for finitely many peers, one of the type looked for staying. Its poll is answered again and again
  (`PollsComeDone`); a program that was told of nodes can use them or die of them (`ToldCanSeek`), so that one that lives goes from label to
  label (`ProgramsGoOn`); `app` has one less to ask with each request (`AskedAndAsked`). `SearchesEnd` (`SearchEnds`), for peers that all stay and can
  be reached, one of them of the type (`Somebody`: else no poll ends), follows: then the search for an address ends too (`LooksEnd`).
* `AllDoArrive` (`AllArrive`): `Progress` counts what was written, consumed and handled. Each step of either side raises it
  (`StepsGoOn`), one of the two can go on (`NeitherWaits`) and still can as long as it stays (`TurnStays`); so a behaviour comes from mark to mark
  (`MarkToMark`) until all has arrived, there being a last mark (`LastMark`).
* `LostCallsDoEnd`, `GuestsAreServed` (`LostCallsEnd`, `GuestsServed`): `Budget` counts the steps that caller, goroutine and handler of such a
  call have left; each of its own steps pays one, no other stream touches it.
* `MembersDoJoin` (`MembersJoin`): the creator calls each member once, and a handler goes from label to label or ends (`StayOrOnward`).
* `PortalsSpread` (`Spreads`): for finitely many nodes and portals. While nothing fails (`Smooth`) a created portal is in each table or on
  its way to it (`OnItsWay`). `publishPortals` ends on every node (`FewestIsNone`). From then on each step takes something off what is left for the handlers, or leaves
  that alone and takes something off what is left for the receivers (`HandlersShrink`, `ReceiverShrinks`); where both are
  smallest, nothing moves any more, and by fairness nothing is left to do (`NobodyAtWork`). With infinitely many
  portals the property is false: weak fairness of one node's work does not reach each of them.

### What is out of reach

That guards enable their actions, as said. The three violations are TLC's counterexamples. Everything the library does is assumed, not
proved: the fairness of the topic (`FairLossy`) and the strong fairness of its event log and of `sync.RWMutex` are hypotheses in `FairSpec`.

## Findings

* `identity_race`: two concurrent `CREATE_DOMAIN` for one name (the orchestrator page sends a fixed name) can return an
  identity whose private key is overwritten, against the comment at `node/peer.go:29`.
* `neighbours_ghost`: a node that went down can stay in the table for ever, against `example/mdns/README.md:16`.
* `directory_restart`: a confirmed domain does not survive its node's restart, against the comment at
  `example/discovery_node/main.go:85`.

`find_domain` is of another kind: no document promises an answer, but `Unanswered` says that the application of this commit
cannot get one. The end of the application's side is the first thing it takes (the mutant `WriteAndClose` refutes `OnlyLossEnds`).

Met on the way, and no disagreement with a document: `createDomain` of the application sends a flatbuffer where the handler decodes JSON,
does not read the answer, and logs "Domain created"; `main` returns behind `Start` and cuts off what it has just started; portals are
saved and never loaded; a garbled portal spreads through the tables and never gets a file.

## Plan

What would come next, in this order:

1. An abstract directory (`created`, `visible`) that `DomainDirectory` and `Portals` implement when there is one CREATE per
   name, and an abstract partition (a growing set of bits) that a lone upload stream of `DomainData` implements, each with the theorem.
2. `DomainDirectory` and `ClusterJoin` composed: one CREATE request from the key of the domain to the files of the members.
3. `Startup`: AutoRelay's wait for `routingDiscovery`, which `Start` sets without a lock; the mDNS connection loop.

## Not modelled

Command-line configuration, generated flatbuffers code (`Libposemesh`), the React page beyond its
CREATE request, docker and IPFS set-up; the picture and the download loop of `app`; `Ping` and its handler, whose only call is
commented out; the camera of `thc`, a device; host start-up, straight-line calls into the library; the Rust node, a single task around
rust-libp2p that shares no state with the Go nodes; the second GossipSub that a JOIN handler starts on its host (`domain_cluster.go:99`), whose effect on the
first is inside the library. The libp2p
and pubsub libraries are external: only what this code sees of them is modelled.
