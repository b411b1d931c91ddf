------------------------------ MODULE Portals -------------------------------
(***************************************************************************)
(* The portals of the discovery nodes (example/discovery_node): the table  *)
(* portalList of each node, which its CREATE_PORTAL handlers and the topic *)
(* portals fill, and its files portals/<id>, which the receiver writes.    *)
(*                                                                         *)
(* Unlike the domains, a portal of another node does reach the table, and  *)
(* does so before its file is made; one that is there is never looked at   *)
(* again.  The files are never read.                                       *)
(***************************************************************************)
EXTENDS Naturals

CONSTANTS
  Nodes,        \* the discovery nodes
  Asked,        \* those that clients ask to create portals
  Portals,      \* the portals clients create, each with an id of its own
  Garbled,      \* what is decoded of a portal read in part: id cut by zeros
  MaxFaults     \* bound on what fails, dies or is lost

ASSUME AskedAreNodes == Asked \subseteq Nodes
ASSUME GarbledIsNone == Garbled \notin Portals
ASSUME FaultsAreCounted == MaxFaults \in Nat

Contents == Portals \cup {Garbled}

VARIABLES
  state,        \* what each process has done with each portal
  disk,         \* the file of each portal: "none", "torn" or "saved"
  req,          \* the handler that created it: "none", "insert", "publish"
  publishing,   \* publishPortals of the process is not over
  net,          \* messages under way, as receiver and portal
  made,         \* history: portals whose request was read
  faults        \* what has failed, died or was lost

vars == <<state, disk, req, publishing, net, made, faults>>

\* Not in portalList; there by a handler; there by the receiver, which is about
\* to create the file, to write it, has written it, or could not write or create it.
States == {"unknown", "own", "create", "write", "kept", "short", "unsaved"}

Init ==
  /\ state = [n \in Nodes |-> [c \in Contents |-> "unknown"]]
  /\ disk = [n \in Nodes |-> [c \in Contents |-> "none"]]
  /\ req = [n \in Nodes |-> [c \in Contents |-> "none"]]
  /\ publishing = [n \in Nodes |-> TRUE]
  /\ net = {}
  /\ made = {}
  /\ faults = 0

Fault == faults < MaxFaults /\ faults' = faults + 1

Put(f, n, c, v) == [f EXCEPT ![n] = [@ EXCEPT ![c] = v]]

Listed(n, c) == state[n][c] # "unknown"
Idle(n) == \A c \in Contents : state[n][c] \notin {"create", "write"}
Send(n, c) == net' = net \cup ((Nodes \ {n}) \X {c})

\* The process ends and starts again, with an empty table.
Restart(n) ==
  /\ state' = [state EXCEPT ![n] = [c \in Contents |-> "unknown"]]
  /\ req' = [req EXCEPT ![n] = [c \in Contents |-> "none"]]
  /\ publishing' = [publishing EXCEPT ![n] = TRUE]
  /\ Fault
  /\ UNCHANGED <<disk, net>>

-----------------------------------------------------------------------------
\* createPortalStreamHandler, for a request of createPortal in example/app.

\* Two Reads have the whole request, or less: the rest of the buffer stays zero.
Read(n, p) ==
  /\ p \notin made
  /\ made' = made \cup {p}
  /\ \/ req' = Put(req, n, p, "insert") /\ UNCHANGED faults
     \/ req[n][Garbled] = "none" /\ req' = Put(req, n, Garbled, "insert") /\ Fault
  /\ UNCHANGED <<state, disk, publishing, net>>

\* A size read in part: decoding panics outside of the buffer.
ReadPanics(n, p) ==
  /\ p \notin made
  /\ made' = made \cup {p}
  /\ Restart(n)

\* Mutant: a portal that is new here is not published.
InsertOnly(n, c) ==
  /\ req[n][c] = "insert"
  /\ req' = Put(req, n, c, IF Listed(n, c) THEN "publish" ELSE "none")
  /\ state' = IF Listed(n, c) THEN state ELSE Put(state, n, c, "own")
  /\ UNCHANGED <<disk, publishing, net, made, faults>>

Insert(n, c) ==
  /\ req[n][c] = "insert"
  /\ req' = Put(req, n, c, "publish")
  /\ state' = IF Listed(n, c) THEN state ELSE Put(state, n, c, "own")
  /\ UNCHANGED <<disk, publishing, net, made, faults>>

Publish(n, c) ==
  /\ req[n][c] = "publish"
  /\ req' = Put(req, n, c, "none")
  /\ Send(n, c)
  /\ UNCHANGED <<state, disk, publishing, made, faults>>

\* The error is logged, the portal stays in this table only.
PublishFails(n, c) ==
  /\ req[n][c] = "publish"
  /\ req' = Put(req, n, c, "none")
  /\ Fault
  /\ UNCHANGED <<state, disk, publishing, net, made>>

-----------------------------------------------------------------------------
\* publishPortals at the start of the process: the table is empty, unless handler
\* or receiver are faster.

PublishOne(n, c) ==
  /\ publishing[n] /\ Listed(n, c)
  /\ Send(n, c)
  /\ UNCHANGED <<state, disk, req, publishing, made, faults>>

PublishEnd(n) ==
  /\ publishing[n]
  /\ publishing' = [publishing EXCEPT ![n] = FALSE]
  /\ UNCHANGED <<state, disk, req, net, made, faults>>

-----------------------------------------------------------------------------
\* receivePortals.

\* Mutant: a portal that is in the table is taken again.
ReceiveAny(n, c) ==
  /\ Idle(n)
  /\ <<n, c>> \in net
  /\ net' = net \ {<<n, c>>}
  /\ state' = Put(state, n, c, "create")
  /\ UNCHANGED <<disk, req, publishing, made, faults>>

\* Mutant: a goroutine per message.
ReceiveBusy(n, c) ==
  /\ <<n, c>> \in net
  /\ net' = net \ {<<n, c>>}
  /\ state' = IF Listed(n, c) THEN state ELSE Put(state, n, c, "create")
  /\ UNCHANGED <<disk, req, publishing, made, faults>>

\* A portal that is in the table is passed over, whatever became of its file.
Receive(n, c) ==
  /\ Idle(n)
  /\ <<n, c>> \in net
  /\ net' = net \ {<<n, c>>}
  /\ state' = IF Listed(n, c) THEN state ELSE Put(state, n, c, "create")
  /\ UNCHANGED <<disk, req, publishing, made, faults>>

\* Mutant: a file that is there is taken for the portal's.
CreateMissing(n, c) ==
  /\ state[n][c] = "create" /\ c # Garbled
  /\ state' = Put(state, n, c, IF disk[n][c] = "none" THEN "write" ELSE "kept")
  /\ disk' = IF disk[n][c] = "none" THEN Put(disk, n, c, "torn") ELSE disk
  /\ UNCHANGED <<req, publishing, net, made, faults>>

\* os.Create, also of the file an earlier process has saved; no name has a zero in it.
Create(n, c) ==
  /\ state[n][c] = "create" /\ c # Garbled
  /\ state' = Put(state, n, c, "write")
  /\ disk' = Put(disk, n, c, "torn")
  /\ UNCHANGED <<req, publishing, net, made, faults>>

\* Among the causes: every file that was written is still open, defer f.Close() is
\* in a loop that never returns.
CreateFails(n, c) ==
  /\ state[n][c] = "create"
  /\ state' = Put(state, n, c, "unsaved")
  /\ Fault
  /\ UNCHANGED <<disk, req, publishing, net, made>>

Write(n, c) ==
  /\ state[n][c] = "write"
  /\ state' = Put(state, n, c, "kept")
  /\ disk' = Put(disk, n, c, "saved")
  /\ UNCHANGED <<req, publishing, net, made, faults>>

\* The error of f.Write is not looked at.
WriteFails(n, c) ==
  /\ state[n][c] = "write"
  /\ state' = Put(state, n, c, "short")
  /\ Fault
  /\ UNCHANGED <<disk, req, publishing, net, made>>

-----------------------------------------------------------------------------
\* portalList has no lock: two goroutines at it, and one of them writes.
MapFault(n) ==
  /\ \E c \in Contents : req[n][c] = "insert"
  /\ \/ publishing[n]
     \/ \E c \in Contents : <<n, c>> \in net /\ Idle(n)
     \/ \E c, d \in Contents : c # d /\ req[n][c] = "insert" /\ req[n][d] = "insert"
  /\ Restart(n)
  /\ UNCHANGED made

Crash(n) == Restart(n) /\ UNCHANGED made

Lose(n, c) ==
  /\ <<n, c>> \in net
  /\ net' = net \ {<<n, c>>}
  /\ Fault
  /\ UNCHANGED <<state, disk, req, publishing, made>>

-----------------------------------------------------------------------------
Handler(n, c) == Insert(n, c) \/ Publish(n, c)
Receiver(n, c) == Receive(n, c) \/ Create(n, c) \/ Write(n, c)
Failure(n, c) ==
  PublishFails(n, c) \/ CreateFails(n, c) \/ WriteFails(n, c) \/ Lose(n, c)

Next ==
  \/ \E n \in Asked, p \in Portals : Read(n, p) \/ ReadPanics(n, p)
  \/ \E n \in Nodes, c \in Contents :
       Handler(n, c) \/ Receiver(n, c) \/ Failure(n, c) \/ PublishOne(n, c)
  \/ \E n \in Nodes : PublishEnd(n) \/ MapFault(n) \/ Crash(n)

Spec == Init /\ [][Next]_vars

\* The loop of publishPortals ends, handlers and receiver are scheduled: between two
\* failures they take finitely many steps, so that their fairness together is that
\* of each.
Work(n) ==
  \E c \in Contents :
    Handler(n, c) \/ Receiver(n, c) \/ CreateFails(n, c) \/ WriteFails(n, c)

Scheduled(n) == WF_vars(PublishEnd(n)) /\ WF_vars(Work(n))

FairSpec == Spec /\ \A n \in Nodes : Scheduled(n)

-----------------------------------------------------------------------------
\* Each variable holds what its declaration promises.  Nothing is known, sent or on
\* disk that no client asked for, but for what a read in part makes of a request;
\* that one never gets a file.  The receiver has one portal in hand at a time.
TypeOK ==
  /\ state \in [Nodes -> [Contents -> States]]
  /\ disk \in [Nodes -> [Contents -> {"none", "torn", "saved"}]]
  /\ req \in [Nodes -> [Contents -> {"none", "insert", "publish"}]]
  /\ publishing \in [Nodes -> BOOLEAN]
  /\ net \subseteq Nodes \X (made \cup {Garbled})
  /\ made \subseteq Portals
  /\ faults \in 0..MaxFaults
  /\ \A n \in Nodes :
       /\ disk[n][Garbled] = "none"
       /\ \A c \in Portals \ made :
            state[n][c] = "unknown" /\ disk[n][c] = "none" /\ req[n][c] = "none"
       /\ \A c, d \in Contents :
            {state[n][c], state[n][d]} \subseteq {"create", "write"} => c = d

\* What the receiver takes for saved is saved, although an earlier process may have
\* left a torn file.
KeptIsSaved ==
  \A n \in Nodes, c \in Contents : state[n][c] = "kept" => disk[n][c] = "saved"

\* Once a portal is in the table and the receiver is done with it, entry and file
\* stay as they are while the process runs: a portal of the node's own, or one whose
\* file could not be made, is never saved, a saved file never opened again.
FileIsFinal ==
  [][\A n \in Nodes, c \in Contents :
       Listed(n, c) /\ state[n][c] \notin {"create", "write"} =>
         /\ disk'[n][c] = disk[n][c]
         /\ state'[n][c] \in {state[n][c], "unknown"}]_vars

Everywhere(p) == \A n \in Nodes : state[n][p] \in {"own", "kept"}
IsSpread(p) == p \in made ~> faults # 0 \/ Everywhere(p)

\* While nothing fails, a portal that was created is in the table of every node from
\* some time on, and on the disk of all but its own.
Spreads == \A p \in Portals : IsSpread(p)
=============================================================================
