------------------------------ MODULE Seekers -------------------------------
(***************************************************************************)
(* The programs that look for nodes through the table of Neighbours and    *)
(* then use what they were told, without looking again:                    *)
(*   thc     polls for salvia nodes, then for vision nodes, and opens a    *)
(*           stream to the answers of both (example/thc);                  *)
(*   app     polls for discovery nodes, and for each of the answer polls   *)
(*           for data nodes and asks the discovery node for a domain       *)
(*           (createDomain, example/app);                                  *)
(*   dialer  polls for data nodes, asks the DHT for the address of the     *)
(*           first until it has one, and connects to it twice              *)
(*           (example/holepunching/dialer);                                *)
(*   mdns    polls for data nodes and pings the first (example/mdns).      *)
(* The finder of Neighbours is their poll loop.  A node that is down, or   *)
(* Self, cannot be reached, and neither can a node that runs as long as it *)
(* is cut: the DHT has no address of it yet, a relay, a connection or a    *)
(* hole punch fails, or it has not registered its handlers.  Whoever uses  *)
(* a node gets an error then, and most programs die of it.                 *)
(***************************************************************************)
EXTENDS Neighbours

VARIABLES
  prog,         \* the program that runs on Self
  seek,         \* where it is behind its polls
  targets,      \* the nodes it was told of and has still to use
  cut           \* nodes that Self cannot reach at present, whether they run or not

seekvars == <<prog, seek, targets>>
svars == <<vars, seekvars, cut>>

Programs == {"thc", "app", "dialer", "mdns"}

SeekInit ==
  /\ Init
  /\ prog \in Programs
  /\ seek = "first"
  /\ targets = {}
  /\ cut = {}

Told(n) == alive /\ find = "done" /\ seek = n

Reachable == running \ (cut \cup {Self})

\* A step of the program behind the poll; the table goes on on its own.
Keep == UNCHANGED <<vars, prog>>

-----------------------------------------------------------------------------
\* thc, app: the first answer is kept while the program polls for the next one.
PollNext(n, kept) ==
  /\ FindAgain
  /\ seek' = "second"
  /\ targets' = kept
  /\ UNCHANGED prog

FirstAnswer == prog \in {"thc", "app"} /\ Told("first") /\ PollNext("first", found)

\* Mutant: the feed that cannot be opened ends the program.
OpenFeedOrDie ==
  /\ prog = "thc" /\ Told("second")
  /\ seek' = "fatal"
  /\ Exit
  /\ UNCHANGED <<prog, targets>>

\* thc: streams to every salvia node and one vision node.  job.Output carries no
\* Handler, NewStream has no protocol to agree on, and the feed is given up.
OpenFeed ==
  /\ prog = "thc" /\ Told("second")
  /\ seek' = "ended"
  /\ targets' = {}
  /\ Keep

\* Mutant: the loop over the discovery nodes does not advance.
RequestSame(t) ==
  /\ prog = "app" /\ Told("second")
  /\ t \in targets \cap Reachable
  /\ PollNext("second", targets)

\* app: the stream is open; the request is written, or the error ends this call of
\* createDomain; the answer is not read.
Request(t) ==
  /\ prog = "app" /\ Told("second")
  /\ t \in targets \cap Reachable
  /\ IF targets = {t}
       THEN seek' = "ended" /\ targets' = {} /\ Keep
       ELSE PollNext("second", targets \ {t})

-----------------------------------------------------------------------------
\* dialer, mdns: nodes[0], any of a map's values.
Pick(t) ==
  /\ prog \in {"dialer", "mdns"} /\ Told("first")
  /\ t \in found
  /\ targets' = {t}
  /\ seek' = IF prog = "dialer" THEN "look" ELSE "ping"
  /\ Keep

\* The steps that nodes[0] takes part in, each after the other.
After(n) ==
  CASE n = "look" -> "connect" [] n = "connect" -> "reconnect" [] OTHER -> "ended"

Reach ==
  /\ seek \in {"look", "connect", "reconnect", "ping"} /\ Told(seek)
  /\ targets \subseteq Reachable
  /\ seek' = After(seek)
  /\ UNCHANGED targets
  /\ Keep

-----------------------------------------------------------------------------
\* Mutant: mdns logs the error of a ping and waits for the next one.
FatalOrPingAgain ==
  /\ \/ prog = "app" /\ Told("second")
     \/ seek \in {"connect", "reconnect"} /\ Told(seek)
  /\ ~ targets \subseteq Reachable
  /\ Exit
  /\ seek' = "fatal"
  /\ UNCHANGED <<prog, targets>>

\* log.Fatal of dialer and mdns; in app the error of NewStream is not looked at
\* and the stream is nil.  FindPeer alone is tried again, every 30 seconds.
Fatal ==
  /\ \/ prog = "app" /\ Told("second")
     \/ seek \in {"connect", "reconnect", "ping"} /\ Told(seek)
  /\ ~ targets \subseteq Reachable
  /\ Exit
  /\ seek' = "fatal"
  /\ UNCHANGED <<prog, targets>>

Seek ==
  \/ FirstAnswer \/ OpenFeed \/ Reach \/ Fatal
  \/ \E t \in Peers : Request(t) \/ Pick(t)

\* app: nothing waits for the goroutine of createDomain, main returns.
Leave ==
  /\ prog = "app" /\ seek = "second"
  /\ Exit
  /\ seek' = "left"
  /\ UNCHANGED <<prog, targets>>

\* The rest of the node; only the second node of the mDNS example is no client.
Background ==
  /\ Watcher \/ Reader \/ Finder \/ \E p \in Peers : Environment(p)
  /\ inFlight'[Self] > inFlight[Self] => prog = "mdns"
  /\ UNCHANGED seekvars

\* The way to a node, which is not the topic: it fails and comes back at any time.
Cut(p) ==
  /\ cut' = cut \cup {p}
  /\ UNCHANGED <<vars, seekvars>>

Mend(p) ==
  /\ cut' = cut \ {p}
  /\ UNCHANGED <<vars, seekvars>>

SeekNext ==
  \/ (Seek \/ Leave \/ Background) /\ UNCHANGED cut
  \/ \E p \in Others : Cut(p) \/ Mend(p)

SeekSpec == SeekInit /\ [][SeekNext]_svars
SeekFairSpec == SeekSpec /\ Fairness /\ WF_<<vars, seekvars>>(Seek)

-----------------------------------------------------------------------------
\* A program is where its code can be, and what it has in hand are nodes that
\* have announced themselves, never Self; it never dies of an empty answer.
SeekersOK ==
  /\ prog \in Programs
  /\ seek \in {"first", "ended"} \cup
       CASE prog = "thc" -> {"second"}
         [] prog = "app" -> {"second", "left", "fatal"}
         [] prog = "dialer" -> {"look", "connect", "reconnect", "fatal"}
         [] prog = "mdns" -> {"ping", "fatal"}
  /\ targets \subseteq announced \ {Self}
  /\ seek \in {"look", "connect", "reconnect", "ping"} => \E t \in announced : targets = {t}
  /\ seek = "fatal" => targets # {}
  /\ cut \subseteq Others

OnlyLooks(p) == <>[]Here(p) => <>(seek = "ended") \/ <>[](seek = "look")

\* Where one node of the type stays, a program that does not die comes to its end,
\* whoever else stops or cannot be reached: nothing holds it up for ever but the
\* search of dialer for the address of nodes[0], which no other answer replaces.
OnlyLookWaits == \A p \in (Others \ Clients) \cap Wanted : OnlyLooks(p)

AllAround == alive /\ \A p \in Others : Here(p) /\ p \notin cut

\* Where every node stays and can be reached, a program comes to the end of its
\* search, the address of nodes[0] included.
SearchEnds == <>[]AllAround => <>(seek = "ended")
=============================================================================
