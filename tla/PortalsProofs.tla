--------------------------- MODULE PortalsProofs ----------------------------
(***************************************************************************)
(* For any nodes, portals and number of faults: the typing of Portals,     *)
(* that what the receiver takes for saved is saved (KeptIsSaved), and that *)
(* a file is final once the receiver is done with it (FileIsFinal).        *)
(*                                                                         *)
(* The files change in Create and Write only, of the portal the receiver   *)
(* has in hand; Receive takes up none that is in the table.                *)
(*                                                                         *)
(* For finitely many nodes and portals, under their fairness: what was     *)
(* created gets everywhere while nothing fails (Spreads).                  *)
(***************************************************************************)
EXTENDS Portals, TLAPS, FiniteSetTheorems, WellFoundedInduction

\* The tables, without what relates them.
Typed ==
  /\ state \in [Nodes -> [Contents -> States]]
  /\ disk \in [Nodes -> [Contents -> {"none", "torn", "saved"}]]
  /\ req \in [Nodes -> [Contents -> {"none", "insert", "publish"}]]

\* Only portals that were asked for, and no file for a garbled one.
Known ==
  \A n \in Nodes :
    /\ state[n][Garbled] # "write" /\ disk[n][Garbled] = "none"
    /\ \A c \in Portals \ made :
         state[n][c] = "unknown" /\ disk[n][c] = "none" /\ req[n][c] = "none"

InHand(n, c) == state[n][c] \in {"create", "write"}
OneInHand == \A n \in Nodes : \A c, d \in Contents : InHand(n, c) /\ InHand(n, d) => c = d

Rest ==
  /\ publishing \in [Nodes -> BOOLEAN]
  /\ net \subseteq Nodes \X (made \cup {Garbled})
  /\ made \subseteq Portals
  /\ faults \in 0..MaxFaults

IInv == Typed /\ Rest /\ Known /\ OneInHand /\ KeptIsSaved

LEMMA IInvTyped == IInv => TypeOK
<1> SUFFICES ASSUME IInv PROVE TypeOK
  OBVIOUS
<1>1. \A n \in Nodes : \A c, d \in Contents :
        {state[n][c], state[n][d]} \subseteq {"create", "write"} => c = d
  BY DEF IInv, OneInHand, InHand
<1> QED BY <1>1 DEF IInv, Typed, Rest, Known, TypeOK

-----------------------------------------------------------------------------
\* One entry of a table is set.
LEMMA StateTyped ==
  ASSUME state \in [Nodes -> [Contents -> States]],
         NEW n \in Nodes, NEW c \in Contents, NEW v \in States
  PROVE  Put(state, n, c, v) \in [Nodes -> [Contents -> States]]
<1>1. [state[n] EXCEPT ![c] = v] \in [Contents -> States]
  OBVIOUS
<1> QED BY <1>1 DEF Put

LEMMA DiskTyped ==
  ASSUME disk \in [Nodes -> [Contents -> {"none", "torn", "saved"}]],
         NEW n \in Nodes, NEW c \in Contents, NEW v \in {"none", "torn", "saved"}
  PROVE  Put(disk, n, c, v) \in [Nodes -> [Contents -> {"none", "torn", "saved"}]]
<1>1. [disk[n] EXCEPT ![c] = v] \in [Contents -> {"none", "torn", "saved"}]
  OBVIOUS
<1> QED BY <1>1 DEF Put

LEMMA ReqTyped ==
  ASSUME req \in [Nodes -> [Contents -> {"none", "insert", "publish"}]],
         NEW n \in Nodes, NEW c \in Contents, NEW v \in {"none", "insert", "publish"}
  PROVE  Put(req, n, c, v) \in [Nodes -> [Contents -> {"none", "insert", "publish"}]]
<1>1. [req[n] EXCEPT ![c] = v] \in [Contents -> {"none", "insert", "publish"}]
  OBVIOUS
<1> QED BY <1>1 DEF Put

LEMMA Sent ==
  ASSUME NEW n \in Nodes, NEW c \in made \cup {Garbled}, Send(n, c),
         net \subseteq Nodes \X (made \cup {Garbled}), made' = made
  PROVE  net' \subseteq Nodes \X (made' \cup {Garbled})
BY DEF Send

\* What is in a table is garbled or was asked for.
LEMMA ListedIsMade ==
  ASSUME IInv, NEW n \in Nodes, NEW c \in Contents,
         state[n][c] # "unknown" \/ req[n][c] # "none"
  PROVE  c \in made \cup {Garbled}
BY DEF IInv, Known, Contents

-----------------------------------------------------------------------------
\* A step at which the tables stay, but for the request of one handler.
LEMMA RequestOnly ==
  ASSUME IInv, Rest', UNCHANGED <<state, disk>>, made \subseteq made',
         NEW n \in Nodes, NEW c \in made' \cup {Garbled},
         NEW v \in {"none", "insert", "publish"},
         req' = req \/ req' = Put(req, n, c, v)
  PROVE  IInv'
<1>1. c \in Contents
  BY DEF Rest, Contents
<1>2. Typed'
  <2>1. req' \in [Nodes -> [Contents -> {"none", "insert", "publish"}]]
    BY <1>1, ReqTyped DEF IInv, Typed
  <2> QED BY <2>1 DEF IInv, Typed
<1>3. Known'
  <2> SUFFICES ASSUME NEW m \in Nodes, NEW d \in Portals \ made' PROVE req'[m][d] = "none"
    BY DEF IInv, Known
  <2>1. d # c
    BY GarbledIsNone
  <2>2. d \in Contents /\ req[m][d] = "none"
    BY DEF IInv, Known, Contents
  <2> QED BY <1>1, <2>1, <2>2 DEF Put, IInv, Typed
<1>4. OneInHand' /\ KeptIsSaved'
  BY DEF IInv, OneInHand, InHand, KeptIsSaved
<1> QED BY <1>2, <1>3, <1>4 DEF IInv

\* A step that takes one portal to another state, its file and request with it.
LEMMA OneState ==
  ASSUME IInv, Rest', made' = made,
         NEW n \in Nodes, NEW c \in made \cup {Garbled}, NEW v \in States,
         state' = Put(state, n, c, v),
         NEW b \in {"none", "torn", "saved"}, c = Garbled => disk' = disk,
         disk' = disk \/ disk' = Put(disk, n, c, b),
         NEW w \in {"none", "insert", "publish"},
         req' = req \/ req' = Put(req, n, c, w),
         c = Garbled => v # "write",
         v \in {"create", "write"} => Idle(n) \/ InHand(n, c),
         v = "kept" => disk'[n][c] = "saved"
  PROVE  IInv'
<1>1. c \in Contents
  BY DEF IInv, Rest, Contents
<1>2. Typed'
  <2>1. state' \in [Nodes -> [Contents -> States]]
    BY <1>1, StateTyped DEF IInv, Typed
  <2>2. disk' \in [Nodes -> [Contents -> {"none", "torn", "saved"}]]
    BY <1>1, DiskTyped DEF IInv, Typed
  <2>3. req' \in [Nodes -> [Contents -> {"none", "insert", "publish"}]]
    BY <1>1, ReqTyped DEF IInv, Typed
  <2> QED BY <2>1, <2>2, <2>3 DEF Typed
<1>s. /\ state'[n][c] = v
      /\ \A m \in Nodes, d \in Contents : m # n \/ d # c => state'[m][d] = state[m][d]
  BY <1>1 DEF Put, IInv, Typed
<1>d. \A m \in Nodes, d \in Contents : m # n \/ d # c => disk'[m][d] = disk[m][d]
  BY <1>1 DEF Put, IInv, Typed
<1>r. \A m \in Nodes, d \in Contents : m # n \/ d # c => req'[m][d] = req[m][d]
  BY <1>1 DEF Put, IInv, Typed
<1>3. Known'
  <2>1. ASSUME NEW m \in Nodes PROVE state'[m][Garbled] # "write" /\ disk'[m][Garbled] = "none"
    <3>1. Garbled \in Contents /\ state[m][Garbled] # "write" /\ disk[m][Garbled] = "none"
      BY DEF IInv, Known, Contents
    <3> QED BY <3>1, <1>s, <1>d
  <2>2. ASSUME NEW m \in Nodes, NEW d \in Portals \ made'
        PROVE  state'[m][d] = "unknown" /\ disk'[m][d] = "none" /\ req'[m][d] = "none"
    <3>1. d \in Contents /\ d # c
      BY GarbledIsNone DEF Contents
    <3>2. state[m][d] = "unknown" /\ disk[m][d] = "none" /\ req[m][d] = "none"
      BY DEF IInv, Known
    <3> QED BY <3>1, <3>2, <1>s, <1>d, <1>r
  <2> QED BY <2>1, <2>2 DEF Known
<1>4. OneInHand'
  <2> SUFFICES ASSUME NEW m \in Nodes, NEW d \in Contents, NEW e \in Contents,
                      InHand(m, d)', InHand(m, e)', d # e
               PROVE  FALSE
    BY DEF OneInHand
  <2>1. CASE m # n \/ (d # c /\ e # c)
    BY <2>1, <1>s DEF IInv, OneInHand, InHand
  <2>2. CASE m = n /\ (d = c \/ e = c)
    <3>1. PICK x \in {d, e} : x # c
      OBVIOUS
    <3>2. InHand(n, x)
      BY <2>2, <3>1, <1>s DEF InHand
    <3>3. v \in {"create", "write"}
      BY <2>2, <1>s DEF InHand
    <3>4. ~ Idle(n)
      BY <3>2 DEF Idle, InHand
    <3> QED BY <3>1, <3>2, <3>3, <3>4, <1>1 DEF IInv, OneInHand
  <2> QED BY <2>1, <2>2
<1>5. KeptIsSaved'
  <2> SUFFICES ASSUME NEW m \in Nodes, NEW d \in Contents, state'[m][d] = "kept"
               PROVE  disk'[m][d] = "saved"
    BY DEF KeptIsSaved
  <2>1. CASE m = n /\ d = c
    BY <2>1, <1>s
  <2>2. CASE m # n \/ d # c
    BY <2>2, <1>s, <1>d DEF IInv, KeptIsSaved
  <2> QED BY <2>1, <2>2
<1> QED BY <1>2, <1>3, <1>4, <1>5 DEF IInv

\* A process that starts again has an empty table.
LEMMA Restarts ==
  ASSUME IInv, NEW n \in Nodes, Restart(n), made \subseteq made', made' \subseteq Portals
  PROVE  IInv'
<1>1. Typed'
  BY DEF Restart, IInv, Typed, States
<1>2. Rest'
  BY FaultsAreCounted DEF Restart, IInv, Rest, Fault
<1>s. \A m \in Nodes, d \in Contents :
        /\ state'[m][d] = IF m = n THEN "unknown" ELSE state[m][d]
        /\ req'[m][d] = IF m = n THEN "none" ELSE req[m][d]
        /\ disk'[m][d] = disk[m][d]
  BY DEF Restart, IInv, Typed
<1>3. Known'
  <2>1. \A m \in Nodes : state'[m][Garbled] # "write" /\ disk'[m][Garbled] = "none"
    BY <1>s DEF IInv, Known, Contents
  <2>2. ASSUME NEW m \in Nodes, NEW d \in Portals \ made'
        PROVE  state'[m][d] = "unknown" /\ disk'[m][d] = "none" /\ req'[m][d] = "none"
    <3>1. state[m][d] = "unknown" /\ disk[m][d] = "none" /\ req[m][d] = "none"
      BY DEF IInv, Known
    <3> QED BY <3>1, <1>s DEF Contents
  <2> QED BY <2>1, <2>2 DEF Known
<1>4. OneInHand'
  BY <1>s DEF IInv, OneInHand, InHand
<1>5. KeptIsSaved'
  BY <1>s DEF IInv, KeptIsSaved
<1> QED BY <1>1, <1>2, <1>3, <1>4, <1>5 DEF IInv

-----------------------------------------------------------------------------
LEMMA IInvInit == Init => IInv
<1> SUFFICES ASSUME Init PROVE IInv
  OBVIOUS
<1>1. Typed /\ Known
  BY DEF Init, Typed, Known, States, Contents
<1>2. Rest
  BY FaultsAreCounted DEF Init, Rest
<1>3. OneInHand /\ KeptIsSaved
  BY DEF Init, OneInHand, InHand, KeptIsSaved
<1> QED BY <1>1, <1>2, <1>3 DEF IInv

LEMMA HandlerStep ==
  ASSUME IInv, NEW n \in Nodes, NEW c \in Contents,
         Handler(n, c) \/ PublishOne(n, c) \/ PublishFails(n, c) \/ Lose(n, c)
  PROVE  IInv'
<1>1. CASE Insert(n, c)
  <2>1. c \in made \cup {Garbled}
    BY <1>1, ListedIsMade DEF Insert
  <2>2. Rest' /\ made' = made /\ disk' = disk
    BY <1>1 DEF Insert, IInv, Rest
  <2>3. CASE Listed(n, c)
    BY <1>1, <2>1, <2>2, <2>3, RequestOnly DEF Insert
  <2>4. CASE ~ Listed(n, c)
    <3>1. state' = Put(state, n, c, "own") /\ req' = Put(req, n, c, "publish")
      BY <1>1, <2>4 DEF Insert
    <3>2. "own" \in States /\ "own" \notin {"create", "write"}
      BY DEF States
    <3> QED BY <2>1, <2>2, <3>1, <3>2, OneState
  <2> QED BY <2>3, <2>4
<1>2. CASE Publish(n, c)
  <2>1. c \in made \cup {Garbled}
    BY <1>2, ListedIsMade DEF Publish
  <2>2. net' \subseteq Nodes \X (made' \cup {Garbled})
    BY <1>2, <2>1, Sent DEF Publish, IInv, Rest
  <2>3. Rest'
    BY <1>2, <2>2 DEF Publish, IInv, Rest
  <2> QED BY <1>2, <2>1, <2>3, RequestOnly DEF Publish
<1>3. CASE PublishOne(n, c)
  <2>1. c \in made \cup {Garbled}
    BY <1>3, ListedIsMade DEF PublishOne, Listed
  <2>2. net' \subseteq Nodes \X (made' \cup {Garbled})
    BY <1>3, <2>1, Sent DEF PublishOne, IInv, Rest
  <2>3. Rest'
    BY <1>3, <2>2 DEF PublishOne, IInv, Rest
  <2> QED BY <1>3, <2>1, <2>3, RequestOnly DEF PublishOne
<1>4. CASE PublishFails(n, c)
  <2>1. c \in made \cup {Garbled}
    BY <1>4, ListedIsMade DEF PublishFails
  <2>2. Rest'
    BY <1>4, FaultsAreCounted DEF PublishFails, IInv, Rest, Fault
  <2> QED BY <1>4, <2>1, <2>2, RequestOnly DEF PublishFails
<1>5. CASE Lose(n, c)
  <2>1. c \in made \cup {Garbled}
    BY <1>5 DEF Lose, IInv, Rest
  <2>2. Rest'
    BY <1>5, FaultsAreCounted DEF Lose, IInv, Rest, Fault
  <2> QED BY <1>5, <2>1, <2>2, RequestOnly DEF Lose
<1> QED BY <1>1, <1>2, <1>3, <1>4, <1>5 DEF Handler

LEMMA ReceiverStep ==
  ASSUME IInv, NEW n \in Nodes, NEW c \in Contents,
         Receiver(n, c) \/ CreateFails(n, c) \/ WriteFails(n, c)
  PROVE  IInv'
<1>0. {"create", "write", "kept", "short", "unsaved"} \subseteq States
  BY DEF States
<1>1. CASE Receive(n, c)
  <2>1. c \in made \cup {Garbled}
    BY <1>1 DEF Receive, IInv, Rest
  <2>2. Rest'
    BY <1>1 DEF Receive, IInv, Rest
  <2>3. CASE Listed(n, c)
    BY <1>1, <2>1, <2>2, <2>3, RequestOnly DEF Receive
  <2>4. CASE ~ Listed(n, c)
    BY <1>0, <1>1, <2>1, <2>2, <2>4, OneState DEF Receive
  <2> QED BY <2>3, <2>4
<1>2. CASE Create(n, c)
  <2>1. c \in made \cup {Garbled} /\ InHand(n, c) /\ c # Garbled
    BY <1>2, ListedIsMade DEF Create, InHand
  <2>2. Rest' /\ made' = made /\ req' = req
    BY <1>2 DEF Create, IInv, Rest
  <2>3. state' = Put(state, n, c, "write") /\ disk' = Put(disk, n, c, "torn")
    BY <1>2 DEF Create
  <2> QED BY <1>0, <2>1, <2>2, <2>3, OneState
<1>3. CASE Write(n, c)
  <2>1. c \in made \cup {Garbled}
    BY <1>3, ListedIsMade DEF Write
  <2>2. Rest' /\ made' = made /\ req' = req
    BY <1>3 DEF Write, IInv, Rest
  <2>3. state' = Put(state, n, c, "kept") /\ disk' = Put(disk, n, c, "saved")
    BY <1>3 DEF Write
  <2>4. disk'[n][c] = "saved"
    BY <2>3 DEF Put, IInv, Typed
  <2>5. c # Garbled
    BY <1>3 DEF Write, IInv, Known
  <2> QED BY <1>0, <2>1, <2>2, <2>3, <2>4, <2>5, OneState
<1>4. CASE CreateFails(n, c)
  <2>1. c \in made \cup {Garbled}
    BY <1>4, ListedIsMade DEF CreateFails
  <2>2. Rest'
    BY <1>4, FaultsAreCounted DEF CreateFails, IInv, Rest, Fault
  <2> QED BY <1>0, <1>4, <2>1, <2>2, OneState DEF CreateFails
<1>5. CASE WriteFails(n, c)
  <2>1. c \in made \cup {Garbled}
    BY <1>5, ListedIsMade DEF WriteFails
  <2>2. Rest'
    BY <1>5, FaultsAreCounted DEF WriteFails, IInv, Rest, Fault
  <2> QED BY <1>0, <1>5, <2>1, <2>2, OneState DEF WriteFails
<1> QED BY <1>1, <1>2, <1>3, <1>4, <1>5 DEF Receiver

LEMMA IInvStep == IInv /\ [Next]_vars => IInv'
<1> SUFFICES ASSUME IInv, [Next]_vars PROVE IInv'
  OBVIOUS
<1>1. ASSUME NEW n \in Asked, NEW p \in Portals, Read(n, p) PROVE IInv'
  <2>1. n \in Nodes
    BY AskedAreNodes
  <2>2. Rest'
    BY <1>1, FaultsAreCounted DEF Read, IInv, Rest, Fault
  <2>3. p \in made' /\ made \subseteq made' /\ UNCHANGED <<state, disk>>
    BY <1>1 DEF Read
  <2>4. CASE req' = Put(req, n, p, "insert")
    BY <2>1, <2>2, <2>3, <2>4, RequestOnly
  <2>5. CASE req' = Put(req, n, Garbled, "insert")
    BY <2>1, <2>2, <2>3, <2>5, RequestOnly
  <2> QED BY <1>1, <2>4, <2>5 DEF Read
<1>2. ASSUME NEW n \in Asked, NEW p \in Portals, ReadPanics(n, p) PROVE IInv'
  BY <1>2, AskedAreNodes, Restarts DEF ReadPanics, IInv, Rest
<1>3. ASSUME NEW n \in Nodes, MapFault(n) \/ Crash(n) PROVE IInv'
  BY <1>3, Restarts DEF MapFault, Crash, IInv, Rest
<1>4. ASSUME NEW n \in Nodes, PublishEnd(n) PROVE IInv'
  <2>1. Rest'
    BY <1>4 DEF PublishEnd, IInv, Rest
  <2> QED BY <1>4, <2>1, RequestOnly DEF PublishEnd
<1>5. CASE UNCHANGED vars
  BY <1>5 DEF vars, IInv, Typed, Rest, Known, OneInHand, InHand, KeptIsSaved
<1> QED BY <1>1, <1>2, <1>3, <1>4, <1>5, HandlerStep, ReceiverStep DEF Next, Failure

-----------------------------------------------------------------------------
\* Tables, files, requests and messages hold what clients asked for, a garbled
\* portal has no file, and the receiver has one portal in hand at a time.
THEOREM TypeCorrect == Spec => []TypeOK
<1>1. IInv /\ [Next]_vars => IInv'
  BY IInvStep
<1> QED BY IInvInit, <1>1, IInvTyped, PTL DEF Spec

\* What the receiver takes for saved is on the disk.
THEOREM KeptStaysSaved == Spec => []KeptIsSaved
<1>1. IInv => KeptIsSaved
  BY DEF IInv
<1> QED BY IInvInit, IInvStep, <1>1, PTL DEF Spec

\* The files change by Create and Write only, of the portal in hand.
LEMMA FilesOfTheOneInHand ==
  ASSUME IInv, [Next]_vars, NEW n \in Nodes, NEW c \in Contents, ~ InHand(n, c)
  PROVE  disk'[n][c] = disk[n][c]
<1>1. ASSUME NEW m \in Nodes, NEW d \in Contents, Create(m, d) \/ Write(m, d)
      PROVE  disk'[n][c] = disk[n][c]
  <2>1. InHand(m, d)
    BY <1>1 DEF Create, Write, InHand
  <2>2. m # n \/ c # d
    BY <2>1
  <2>3. disk' = Put(disk, m, d, "torn") \/ disk' = Put(disk, m, d, "saved")
    BY <1>1 DEF Create, Write
  <2> QED BY <2>2, <2>3 DEF Put, IInv, Typed
<1>2. ASSUME NEW m \in Nodes, NEW d \in Contents,
             \/ Insert(m, d) \/ Publish(m, d) \/ Receive(m, d) \/ PublishOne(m, d)
             \/ PublishFails(m, d) \/ CreateFails(m, d) \/ WriteFails(m, d) \/ Lose(m, d)
      PROVE  disk' = disk
  BY <1>2 DEF Insert, Publish, Receive, PublishOne, PublishFails, CreateFails, WriteFails, Lose
<1>3. ASSUME NEW m \in Asked, NEW p \in Portals, Read(m, p) \/ ReadPanics(m, p)
      PROVE  disk' = disk
  BY <1>3 DEF Read, ReadPanics, Restart
<1>4. ASSUME NEW m \in Nodes, PublishEnd(m) \/ MapFault(m) \/ Crash(m) PROVE disk' = disk
  BY <1>4 DEF PublishEnd, MapFault, Crash, Restart
<1>5. CASE UNCHANGED vars
  BY <1>5 DEF vars
<1> QED BY <1>1, <1>2, <1>3, <1>4, <1>5 DEF Next, Handler, Receiver, Failure

\* An entry that is not in hand goes with the process only.
LEMMA EntriesStay ==
  ASSUME IInv, [Next]_vars, NEW n \in Nodes, NEW c \in Contents,
         Listed(n, c), ~ InHand(n, c)
  PROVE  state'[n][c] \in {state[n][c], "unknown"}
<1>1. ASSUME NEW m \in Nodes, NEW d \in Contents, NEW v \in States,
             state' = Put(state, m, d, v), InHand(m, d)
      PROVE  state'[n][c] = state[n][c]
  BY <1>1 DEF Put, IInv, Typed
<1>2. ASSUME NEW m \in Nodes, NEW d \in Contents, NEW v \in States,
             state' = Put(state, m, d, v), ~ Listed(m, d)
      PROVE  state'[n][c] = state[n][c]
  BY <1>2 DEF Put, IInv, Typed
<1>0. States = {"unknown", "own", "create", "write", "kept", "short", "unsaved"}
  BY DEF States
<1>3. ASSUME NEW m \in Nodes, NEW d \in Contents,
             Create(m, d) \/ Write(m, d) \/ CreateFails(m, d) \/ WriteFails(m, d)
      PROVE  state'[n][c] = state[n][c]
  <2>1. InHand(m, d)
    BY <1>3 DEF Create, Write, CreateFails, WriteFails, InHand
  <2>2. \E v \in States : state' = Put(state, m, d, v)
    BY <1>0, <1>3 DEF Create, Write, CreateFails, WriteFails
  <2> QED BY <2>1, <2>2, <1>1
<1>4. ASSUME NEW m \in Nodes, NEW d \in Contents, Insert(m, d) \/ Receive(m, d)
      PROVE  state'[n][c] = state[n][c]
  <2>1. CASE Listed(m, d)
    BY <1>4, <2>1 DEF Insert, Receive
  <2>2. CASE ~ Listed(m, d)
    <3>1. \E v \in States : state' = Put(state, m, d, v)
      BY <1>0, <1>4, <2>2 DEF Insert, Receive
    <3> QED BY <3>1, <2>2, <1>2
  <2> QED BY <2>1, <2>2
<1>5. ASSUME NEW m \in Nodes, Restart(m) PROVE state'[n][c] \in {state[n][c], "unknown"}
  BY <1>5 DEF Restart, IInv, Typed
<1>6. ASSUME NEW m \in Nodes, NEW d \in Contents,
             Publish(m, d) \/ PublishOne(m, d) \/ PublishFails(m, d) \/ Lose(m, d)
      PROVE  state' = state
  BY <1>6 DEF Publish, PublishOne, PublishFails, Lose
<1>7. ASSUME NEW m \in Nodes, PublishEnd(m) \/ \E p \in Portals : Read(m, p)
      PROVE  state' = state
  BY <1>7 DEF PublishEnd, Read
<1>8. CASE UNCHANGED vars
  BY <1>8 DEF vars
<1>9. ASSUME NEW m \in Nodes, MapFault(m) \/ Crash(m) \/ \E p \in Portals : ReadPanics(m, p)
      PROVE  Restart(m)
  BY <1>9 DEF MapFault, Crash, ReadPanics
<1>10. CASE \E m \in Asked, p \in Portals : Read(m, p) \/ ReadPanics(m, p)
  BY <1>10, <1>5, <1>7, <1>9, AskedAreNodes
<1>11. CASE \E m \in Nodes, d \in Contents :
             Handler(m, d) \/ Receiver(m, d) \/ Failure(m, d) \/ PublishOne(m, d)
  BY <1>11, <1>3, <1>4, <1>6 DEF Handler, Receiver, Failure
<1>12. CASE \E m \in Nodes : PublishEnd(m) \/ MapFault(m) \/ Crash(m)
  BY <1>12, <1>5, <1>7, <1>9
<1> QED BY <1>8, <1>10, <1>11, <1>12 DEF Next

\* Once the receiver is done with a portal, its entry and its file stay as they
\* are while the process runs.
THEOREM FilesAreFinal == Spec => FileIsFinal
<1>1. IInv /\ [Next]_vars =>
        [\A n \in Nodes, c \in Contents :
           Listed(n, c) /\ state[n][c] \notin {"create", "write"} =>
             /\ disk'[n][c] = disk[n][c]
             /\ state'[n][c] \in {state[n][c], "unknown"}]_vars
  BY FilesOfTheOneInHand, EntriesStay DEF InHand
<1> QED BY IInvInit, IInvStep, <1>1, PTL DEF Spec, FileIsFinal

-----------------------------------------------------------------------------
\* Fairness speaks of ENABLED, for which the provers have no rule.  These are the
\* facts about it that the proofs need: a process can end publishPortals, and go on
\* with a portal that a handler or the receiver has to do something with.
GuardsEnable ==
  \A n \in Nodes :
    /\ publishing[n] => ENABLED <<PublishEnd(n)>>_vars
    /\ \A c \in Portals :
         \/ req[n][c] # "none"
         \/ Idle(n) /\ <<n, c>> \in net
         \/ InHand(n, c)
         => ENABLED <<Work(n)>>_vars

\* The portal is in the table of the node, or on its way to it.
OnItsWay(n, p) ==
  \/ Listed(n, p)
  \/ <<n, p>> \in net
  \/ req[n][p] = "insert"
  \/ \E m \in Nodes \ {n} : req[m][p] # "none"

\* Nothing is garbled or given up, and what was created gets everywhere.
Clean ==
  /\ \A n \in Nodes :
       state[n][Garbled] = "unknown" /\ req[n][Garbled] = "none" /\ <<n, Garbled>> \notin net
  /\ \A n \in Nodes, c \in Contents : state[n][c] \notin {"short", "unsaved"}
  /\ \A n \in Nodes, p \in made : OnItsWay(n, p)

\* The steps of Next that fail nothing.
Smooth ==
  \/ \E n \in Nodes, p \in Portals :
       /\ p \notin made
       /\ made' = made \cup {p}
       /\ req' = Put(req, n, p, "insert")
       /\ UNCHANGED <<state, disk, publishing, net, faults>>
  \/ \E n \in Nodes, c \in Contents : Handler(n, c) \/ Receiver(n, c) \/ PublishOne(n, c)
  \/ \E n \in Nodes : PublishEnd(n)
  \/ UNCHANGED vars

LEMMA NoFaultIsSmooth == IInv /\ [Next]_vars /\ faults = 0 /\ faults' = 0 => Smooth
<1> SUFFICES ASSUME IInv, [Next]_vars, faults = 0, faults' = 0 PROVE Smooth
  OBVIOUS
<1>1. ~ Fault
  BY DEF Fault
<1>2. ASSUME NEW n \in Asked, NEW p \in Portals, Read(n, p) PROVE Smooth
  BY <1>1, <1>2, AskedAreNodes DEF Read, Smooth
<1>3. ASSUME NEW n \in Nodes PROVE ~ Restart(n)
  BY <1>1 DEF Restart
<1>4. ASSUME NEW n \in Nodes, NEW c \in Contents PROVE ~ Failure(n, c)
  BY <1>1 DEF Failure, PublishFails, CreateFails, WriteFails, Lose
<1>5. ASSUME NEW n \in Asked, NEW p \in Portals PROVE ~ ReadPanics(n, p)
  BY <1>3, AskedAreNodes DEF ReadPanics
<1>6. ASSUME NEW n \in Nodes PROVE ~ MapFault(n) /\ ~ Crash(n)
  BY <1>3 DEF MapFault, Crash
<1> QED BY <1>2, <1>4, <1>5, <1>6 DEF Next, Smooth

LEMMA FaultsStay == IInv /\ [Next]_vars /\ faults # 0 => faults' # 0
<1> SUFFICES ASSUME IInv, [Next]_vars, faults # 0 PROVE faults' # 0
  OBVIOUS
<1>0. faults \in Nat
  BY FaultsAreCounted DEF IInv, Rest
<1>1. faults' = faults \/ Fault
  <2>1. ASSUME NEW n \in Nodes, NEW c \in Contents,
               Handler(n, c) \/ Receiver(n, c) \/ Failure(n, c) \/ PublishOne(n, c)
        PROVE  faults' = faults \/ Fault
    BY <2>1 DEF Handler, Insert, Publish, Receiver, Receive, Create, Write, Failure,
      PublishFails, CreateFails, WriteFails, Lose, PublishOne
  <2>2. ASSUME NEW n \in Asked, NEW p \in Portals, Read(n, p) \/ ReadPanics(n, p)
        PROVE  faults' = faults \/ Fault
    BY <2>2 DEF Read, ReadPanics, Restart
  <2>3. ASSUME NEW n \in Nodes, PublishEnd(n) \/ MapFault(n) \/ Crash(n)
        PROVE  faults' = faults \/ Fault
    BY <2>3 DEF PublishEnd, MapFault, Crash, Restart
  <2> QED BY <2>1, <2>2, <2>3 DEF Next, vars
<1> QED BY <1>0, <1>1 DEF Fault

LEMMA RequestPut ==
  ASSUME IInv, NEW n \in Nodes, NEW c \in Contents, NEW v, req' = Put(req, n, c, v),
         NEW m \in Nodes, NEW d \in Contents
  PROVE  req'[m][d] = IF m = n /\ d = c THEN v ELSE req[m][d]
BY DEF Put, IInv, Typed

LEMMA StatePut ==
  ASSUME IInv, NEW n \in Nodes, NEW c \in Contents, NEW v, state' = Put(state, n, c, v),
         NEW m \in Nodes, NEW d \in Contents
  PROVE  state'[m][d] = IF m = n /\ d = c THEN v ELSE state[m][d]
BY DEF Put, IInv, Typed

\* A request that was new is under way everywhere, and so is what is in no request now
\* that was in one.
LEMMA CleanStep == IInv /\ Clean /\ Smooth => Clean'
<1> SUFFICES ASSUME IInv, Clean, Smooth PROVE Clean'
  OBVIOUS
<1>t. made \subseteq Contents /\ Garbled \notin made /\ Garbled \in Contents
  BY GarbledIsNone DEF IInv, Rest, Contents
<1>1. ASSUME NEW n \in Nodes, NEW c \in Portals,
             made' = made \cup {c}, req' = Put(req, n, c, "insert"),
             UNCHANGED <<state, net>>
      PROVE  Clean'
  <2>0. c # Garbled /\ c \in Contents
    BY GarbledIsNone DEF Contents
  <2>1. \A m \in Nodes, d \in Contents :
          req'[m][d] = IF m = n /\ d = c THEN "insert" ELSE req[m][d]
    BY <1>1, <2>0, RequestPut
  <2>2. ASSUME NEW m \in Nodes, NEW p \in made' PROVE OnItsWay(m, p)'
    <3>1. CASE p = c
      BY <1>1, <2>0, <2>1, <3>1 DEF OnItsWay
    <3>2. CASE p # c
      <4>1. OnItsWay(m, p) /\ p \in Contents
        BY <1>1, <1>t, <3>2 DEF Clean
      <4> QED BY <1>1, <2>1, <3>2, <4>1 DEF OnItsWay, Listed
    <3> QED BY <3>1, <3>2
  <2> QED BY <1>1, <1>t, <2>0, <2>1, <2>2 DEF Clean
<1>2. ASSUME NEW n \in Nodes, NEW c \in Contents, Insert(n, c) PROVE Clean'
  <2>1. \A m \in Nodes, d \in Contents :
          req'[m][d] = IF m = n /\ d = c THEN "publish" ELSE req[m][d]
    BY <1>2, RequestPut DEF Insert
  <2>2. \A m \in Nodes, d \in Contents :
          state'[m][d] = IF m = n /\ d = c /\ ~ Listed(n, c) THEN "own" ELSE state[m][d]
    BY <1>2, StatePut DEF Insert
  <2>3. c # Garbled
    BY <1>2 DEF Insert, Clean
  <2>4. net' = net /\ made' = made
    BY <1>2 DEF Insert
  <2>5. ASSUME NEW m \in Nodes, NEW p \in made PROVE OnItsWay(m, p)'
    <3>1. OnItsWay(m, p) /\ p \in Contents
      BY <1>t DEF Clean
    <3>2. CASE m = n /\ p = c
      BY <2>2, <3>1, <3>2 DEF OnItsWay, Listed
    <3>3. CASE m # n \/ p # c
      BY <2>1, <2>2, <2>4, <3>1, <3>3 DEF OnItsWay, Listed
    <3> QED BY <3>2, <3>3
  <2>6. \A m \in Nodes, d \in Contents : state'[m][d] \notin {"short", "unsaved"}
    BY <2>2 DEF Clean
  <2> QED BY <1>t, <2>1, <2>2, <2>3, <2>4, <2>5, <2>6 DEF Clean
<1>3. ASSUME NEW n \in Nodes, NEW c \in Contents, Publish(n, c) PROVE Clean'
  <2>1. \A m \in Nodes, d \in Contents :
          req'[m][d] = IF m = n /\ d = c THEN "none" ELSE req[m][d]
    BY <1>3, RequestPut DEF Publish
  <2>2. net' = net \cup ((Nodes \ {n}) \X {c}) /\ state' = state /\ made' = made
    BY <1>3 DEF Publish, Send
  <2>3. c # Garbled /\ req[n][c] = "publish"
    BY <1>3 DEF Publish, Clean
  <2>4. ASSUME NEW m \in Nodes, NEW p \in made PROVE OnItsWay(m, p)'
    <3>1. OnItsWay(m, p) /\ p \in Contents
      BY <1>t DEF Clean
    <3>2. CASE m # n /\ p = c
      BY <2>2, <3>2 DEF OnItsWay
    <3>3. CASE m = n \/ p # c
      BY <2>1, <2>2, <2>3, <3>1, <3>3 DEF OnItsWay, Listed
    <3> QED BY <3>2, <3>3
  <2> QED BY <1>t, <2>1, <2>2, <2>3, <2>4 DEF Clean
<1>4. ASSUME NEW n \in Nodes, NEW c \in Contents, PublishOne(n, c) PROVE Clean'
  <2>1. net' = net \cup ((Nodes \ {n}) \X {c}) /\ UNCHANGED <<state, req, made>>
    BY <1>4 DEF PublishOne, Send
  <2>2. c # Garbled
    BY <1>4 DEF PublishOne, Listed, Clean
  <2>3. \A m \in Nodes, p \in made : OnItsWay(m, p)'
    BY <2>1 DEF Clean, OnItsWay, Listed
  <2> QED BY <2>1, <2>2, <2>3 DEF Clean
<1>5. ASSUME NEW n \in Nodes, NEW c \in Contents, Receive(n, c) PROVE Clean'
  <2>1. \A m \in Nodes, d \in Contents :
          state'[m][d] = IF m = n /\ d = c /\ ~ Listed(n, c) THEN "create" ELSE state[m][d]
    BY <1>5, StatePut DEF Receive
  <2>2. net' = net \ {<<n, c>>} /\ UNCHANGED <<req, made>>
    BY <1>5 DEF Receive
  <2>3. c # Garbled
    BY <1>5 DEF Receive, Clean
  <2>4. ASSUME NEW m \in Nodes, NEW p \in made PROVE OnItsWay(m, p)'
    <3>1. OnItsWay(m, p) /\ p \in Contents
      BY <1>t DEF Clean
    <3>2. CASE m = n /\ p = c
      BY <2>1, <3>1, <3>2 DEF OnItsWay, Listed
    <3>3. CASE m # n \/ p # c
      BY <2>1, <2>2, <3>1, <3>3 DEF OnItsWay, Listed
    <3> QED BY <3>2, <3>3
  <2>5. \A m \in Nodes, d \in Contents : state'[m][d] \notin {"short", "unsaved"}
    BY <2>1 DEF Clean
  <2> QED BY <1>t, <2>1, <2>2, <2>3, <2>4, <2>5 DEF Clean
<1>6. ASSUME NEW n \in Nodes, NEW c \in Contents, NEW v \in {"write", "kept"},
             state' = Put(state, n, c, v), UNCHANGED <<req, net, made>>, c # Garbled
      PROVE  Clean'
  <2>1. \A m \in Nodes, d \in Contents :
          state'[m][d] = IF m = n /\ d = c THEN v ELSE state[m][d]
    BY <1>6, StatePut
  <2>2. ASSUME NEW m \in Nodes, NEW p \in made PROVE OnItsWay(m, p)'
    <3>1. OnItsWay(m, p) /\ p \in Contents
      BY <1>t DEF Clean
    <3> QED BY <1>6, <2>1, <3>1 DEF OnItsWay, Listed
  <2> QED BY <1>6, <1>t, <2>1, <2>2 DEF Clean
<1>7. ASSUME NEW n \in Nodes, NEW c \in Contents, Create(n, c) \/ Write(n, c) PROVE Clean'
  <2>1. c # Garbled
    BY <1>7 DEF Create, Write, Clean
  <2> QED BY <1>6, <1>7, <2>1 DEF Create, Write
<1>8. CASE UNCHANGED <<state, req, net, made>>
  BY <1>8 DEF Clean, OnItsWay, Listed
<1> QED BY <1>1, <1>2, <1>3, <1>4, <1>5, <1>7, <1>8
      DEF Smooth, Handler, Receiver, PublishEnd, vars

LEMMA CleanInit == Init => Clean
<1> SUFFICES ASSUME Init PROVE Clean
  OBVIOUS
<1>1. \A n \in Nodes, c \in Contents : state[n][c] = "unknown" /\ req[n][c] = "none"
  BY DEF Init
<1>2. net = {} /\ made = {} /\ Garbled \in Contents
  BY DEF Init, Contents
<1> QED BY <1>1, <1>2 DEF Clean

-----------------------------------------------------------------------------
\* What is still to come: from the start of the processes, from the handlers, and,
\* once these have done their part, from the receivers.
Publishers == {n \in Nodes : publishing[n]}

Unhandled ==
  {x \in {"read", "insert", "publish"} \X (Nodes \X Contents) :
     \/ x[2][2] \notin made
     \/ x[1] = "insert" /\ req[x[2][1]][x[2][2]] = "insert"
     \/ x[1] = "publish" /\ req[x[2][1]][x[2][2]] # "none"}

Unreceived ==
  {x \in {"receive", "create", "write"} \X (Nodes \X Contents) :
     \/ x[2] \in net /\ (x[1] = "receive" \/ ~ Listed(x[2][1], x[2][2]))
     \/ x[1] = "create" /\ state[x[2][1]][x[2][2]] = "create"
     \/ x[1] = "write" /\ InHand(x[2][1], x[2][2])}

\* A handler's step is done once.
LEMMA HandlersShrink ==
  ASSUME IInv, Clean, NEW n \in Nodes, NEW c \in Contents, Handler(n, c)
  PROVE  Unhandled' \subseteq Unhandled /\ Unhandled' # Unhandled
<1>1. c \in made
  BY ListedIsMade DEF Clean, Handler, Insert, Publish
<1>2. made' = made
  BY DEF Handler, Insert, Publish
<1>3. CASE Insert(n, c)
  <2>1. \A m \in Nodes, d \in Contents :
          req'[m][d] = IF m = n /\ d = c THEN "publish" ELSE req[m][d]
    BY <1>3, RequestPut DEF Insert
  <2>2. req[n][c] = "insert"
    BY <1>3 DEF Insert
  <2>3. Unhandled' \subseteq Unhandled
    BY <1>2, <2>1, <2>2 DEF Unhandled
  <2>4. <<"insert", <<n, c>>>> \in Unhandled /\ <<"insert", <<n, c>>>> \notin Unhandled'
    BY <1>1, <1>2, <2>1, <2>2 DEF Unhandled
  <2> QED BY <2>3, <2>4
<1>4. CASE Publish(n, c)
  <2>1. \A m \in Nodes, d \in Contents :
          req'[m][d] = IF m = n /\ d = c THEN "none" ELSE req[m][d]
    BY <1>4, RequestPut DEF Publish
  <2>2. req[n][c] = "publish"
    BY <1>4 DEF Publish
  <2>3. Unhandled' \subseteq Unhandled
    BY <1>2, <2>1, <2>2 DEF Unhandled
  <2>4. <<"publish", <<n, c>>>> \in Unhandled /\ <<"publish", <<n, c>>>> \notin Unhandled'
    BY <1>1, <1>2, <2>1, <2>2 DEF Unhandled
  <2> QED BY <2>3, <2>4
<1> QED BY <1>3, <1>4 DEF Handler

\* A new request takes one off those that may come.
LEMMA ReadShrinks ==
  ASSUME IInv, NEW n \in Nodes, NEW p \in Portals, p \notin made,
         made' = made \cup {p}, req' = Put(req, n, p, "insert")
  PROVE  Unhandled' \subseteq Unhandled /\ Unhandled' # Unhandled
<1>0. p \in Contents
  BY DEF Contents
<1>1. \A m \in Nodes, d \in Contents :
        req'[m][d] = IF m = n /\ d = p THEN "insert" ELSE req[m][d]
  BY <1>0, RequestPut
<1>2. Unhandled' \subseteq Unhandled
  BY <1>1 DEF Unhandled
<1>3. <<"read", <<n, p>>>> \in Unhandled /\ <<"read", <<n, p>>>> \notin Unhandled'
  BY <1>0 DEF Unhandled
<1> QED BY <1>2, <1>3

\* The receiver takes a message once, and makes a file once.
LEMMA ReceiverShrinks ==
  ASSUME IInv, Clean, NEW n \in Nodes, NEW c \in Contents, Receiver(n, c)
  PROVE  /\ Unhandled' = Unhandled
         /\ Unreceived' \subseteq Unreceived /\ Unreceived' # Unreceived
<1>1. UNCHANGED <<made, req>>
  BY DEF Receiver, Receive, Create, Write
<1>2. Unhandled' = Unhandled
  BY <1>1 DEF Unhandled
<1>3. CASE Receive(n, c)
  <2>1. \A m \in Nodes, d \in Contents :
          state'[m][d] = IF m = n /\ d = c /\ ~ Listed(n, c) THEN "create" ELSE state[m][d]
    BY <1>3, StatePut DEF Receive
  <2>2. net' = net \ {<<n, c>>} /\ <<n, c>> \in net
    BY <1>3 DEF Receive
  <2>3. Unreceived' \subseteq Unreceived
    BY <2>1, <2>2 DEF Unreceived, Listed, InHand
  <2>4. <<"receive", <<n, c>>>> \in Unreceived /\ <<"receive", <<n, c>>>> \notin Unreceived'
    BY <2>2 DEF Unreceived
  <2> QED BY <1>2, <2>3, <2>4
<1>4. CASE Create(n, c)
  <2>1. \A m \in Nodes, d \in Contents :
          state'[m][d] = IF m = n /\ d = c THEN "write" ELSE state[m][d]
    BY <1>4, StatePut DEF Create
  <2>2. net' = net /\ state[n][c] = "create"
    BY <1>4 DEF Create
  <2>3. Unreceived' \subseteq Unreceived
    BY <2>1, <2>2 DEF Unreceived, Listed, InHand
  <2>4. <<"create", <<n, c>>>> \in Unreceived /\ <<"create", <<n, c>>>> \notin Unreceived'
    BY <2>1, <2>2 DEF Unreceived, Listed
  <2> QED BY <1>2, <2>3, <2>4
<1>5. CASE Write(n, c)
  <2>1. \A m \in Nodes, d \in Contents :
          state'[m][d] = IF m = n /\ d = c THEN "kept" ELSE state[m][d]
    BY <1>5, StatePut DEF Write
  <2>2. net' = net /\ state[n][c] = "write"
    BY <1>5 DEF Write
  <2>3. Unreceived' \subseteq Unreceived
    BY <2>1, <2>2 DEF Unreceived, Listed, InHand
  <2>4. <<"write", <<n, c>>>> \in Unreceived /\ <<"write", <<n, c>>>> \notin Unreceived'
    BY <2>1, <2>2 DEF Unreceived, Listed, InHand
  <2> QED BY <1>2, <2>3, <2>4
<1> QED BY <1>3, <1>4, <1>5 DEF Receiver

-----------------------------------------------------------------------------
\* Every nonempty set of numbers has a least element, every nonempty set of finite
\* sets a smallest one.
LEMMA LeastElement ==
  ASSUME NEW T, T \subseteq Nat, T # {}
  PROVE  \E n \in T : \A m \in T : n <= m
<1> DEFINE R == OpToRel(<, Nat)
<1>1. IsWellFoundedOn(R, Nat)
  BY NatLessThanWellFounded
<1> HIDE DEF R
<1>2. PICK n \in T : \A m \in T : <<m, n>> \notin R
  BY <1>1, WFMin
<1>3. ASSUME NEW m \in T, m < n PROVE FALSE
  <2>1. <<m, n>> \in Nat \X Nat
    OBVIOUS
  <2>2. <<m, n>> \in R
    BY <1>3, <2>1 DEF R, OpToRel
  <2> QED BY <1>2, <2>2
<1> QED BY <1>2, <1>3

LEMMA SmallestSet ==
  ASSUME NEW S, IsFiniteSet(S), NEW F, F \subseteq SUBSET S, F # {}
  PROVE  \E X \in F : \A Y \in F : Y \subseteq X => Y = X
<1> DEFINE Sizes == {Cardinality(X) : X \in F}
<1>1. \A X \in F : IsFiniteSet(X) /\ Cardinality(X) \in Nat
  BY FS_Subset, FS_CardinalityType
<1>2. Sizes \subseteq Nat /\ Sizes # {}
  BY <1>1
<1>3. \A X \in F : Cardinality(X) \in Sizes
  OBVIOUS
<1>4. \A k \in Sizes : \E X \in F : k = Cardinality(X)
  OBVIOUS
<1> HIDE DEF Sizes
<1>5. PICK k \in Sizes : \A j \in Sizes : k <= j
  BY <1>2, LeastElement
<1>6. PICK X \in F : k = Cardinality(X)
  BY <1>4
<1>7. ASSUME NEW Y \in F, Y \subseteq X, Y # X PROVE FALSE
  <2>1. Cardinality(Y) < Cardinality(X)
    BY <1>1, <1>7, FS_Subset
  <2>2. k <= Cardinality(Y)
    BY <1>3, <1>5
  <2> QED BY <1>1, <1>6, <2>1, <2>2
<1> QED BY <1>7

\* The variables, and what is still to come.
Now == <<vars, Publishers, Unhandled, Unreceived>>

\* T has exactly what Now comes to.  There is one such T for each behaviour, although
\* none can be written with a temporal formula inside of it.
Values(T) == [](Now \in T) /\ \A v \in T : <>(Now = v)

\* The sets Now has are finite ones.
Steps1 == {"read", "insert", "publish"} \X (Nodes \X Contents)
Steps2 == {"receive", "create", "write"} \X (Nodes \X Contents)
Fits(v) == v[2] \subseteq Nodes /\ v[3] \subseteq Steps1 /\ v[4] \subseteq Steps2

LEMMA NowFits == ASSUME NEW v PROVE <>(Now = v) => Fits(v)
<1>0. Now = v => v[2] = Publishers /\ v[3] = Unhandled /\ v[4] = Unreceived
  BY DEF Now
<1>1. Now = v => Fits(v)
  BY <1>0 DEF Fits, Publishers, Unhandled, Unreceived, Steps1, Steps2
<1>2. CASE Fits(v)
  BY <1>2
<1>3. CASE ~ Fits(v)
  <2>1. ~ (Now = v)
    BY <1>1, <1>3
  <2> QED BY <2>1, PTL
<1> QED BY <1>2, <1>3

LEMMA StepsAreFinite ==
  ASSUME IsFiniteSet(Nodes), IsFiniteSet(Portals)
  PROVE  IsFiniteSet(Steps1) /\ IsFiniteSet(Steps2)
<1>1. IsFiniteSet({Garbled}) /\ IsFiniteSet(Contents)
  BY FS_EmptySet, FS_AddElement, FS_Union, FS_Singleton DEF Contents
<1>2. IsFiniteSet(Nodes \X Contents)
  BY <1>1, FS_Product
<1>3. ASSUME NEW a, NEW b, NEW c PROVE IsFiniteSet({a, b, c})
  <2>1. IsFiniteSet({a})
    BY FS_Singleton
  <2>2. IsFiniteSet({a} \cup {b})
    BY <2>1, FS_AddElement
  <2>3. IsFiniteSet(({a} \cup {b}) \cup {c})
    BY <2>2, FS_AddElement
  <2>4. {a, b, c} = ({a} \cup {b}) \cup {c}
    OBVIOUS
  <2> QED BY <2>3, <2>4
<1> QED BY <1>2, <1>3, FS_Product DEF Steps1, Steps2

\* A value of T without publishers, with least left for the handlers, and then for the
\* receivers.
Quiet(T, v) ==
  /\ v \in T /\ v[2] = {}
  /\ \A w \in T : w[2] = {} /\ w[3] \subseteq v[3] => w[3] = v[3]
  /\ \A w \in T : w[2] = {} /\ w[3] = v[3] /\ w[4] \subseteq v[4] => w[4] = v[4]

LEMMA QuietExists ==
  ASSUME IsFiniteSet(Nodes), IsFiniteSet(Portals), NEW T,
         \A v \in T : Fits(v), \E v \in T : v[2] = {}
  PROVE  \E v \in T : Quiet(T, v)
<1> DEFINE F == {v[3] : v \in {w \in T : w[2] = {}}}
<1>1. F \subseteq SUBSET Steps1 /\ F # {}
  BY DEF Fits
<1>2. \A w \in T : w[2] = {} => w[3] \in F
  OBVIOUS
<1>3. \A X \in F : \E w \in T : w[2] = {} /\ w[3] = X
  OBVIOUS
<1> HIDE DEF F
<1>4. PICK X \in F : \A Y \in F : Y \subseteq X => Y = X
  BY <1>1, StepsAreFinite, SmallestSet
<1> DEFINE G == {v[4] : v \in {w \in T : w[2] = {} /\ w[3] = X}}
<1>5. G \subseteq SUBSET Steps2 /\ G # {}
  BY <1>3 DEF Fits
<1>6. \A w \in T : w[2] = {} /\ w[3] = X => w[4] \in G
  OBVIOUS
<1>7. \A Z \in G : \E w \in T : w[2] = {} /\ w[3] = X /\ w[4] = Z
  OBVIOUS
<1> HIDE DEF G
<1>8. PICK Z \in G : \A Y \in G : Y \subseteq Z => Y = Z
  BY <1>5, StepsAreFinite, SmallestSet
<1>9. PICK v \in T : v[2] = {} /\ v[3] = X /\ v[4] = Z
  BY <1>7
<1>10. \A w \in T : w[2] = {} /\ w[3] \subseteq v[3] => w[3] = v[3]
  BY <1>2, <1>4, <1>9
<1>11. \A w \in T : w[2] = {} /\ w[3] = v[3] /\ w[4] \subseteq v[4] => w[4] = v[4]
  BY <1>6, <1>8, <1>9
<1> QED BY <1>9, <1>10, <1>11 DEF Quiet

-----------------------------------------------------------------------------
\* While nothing fails publishPortals ends.
LEMMA PublishersShrink == IInv /\ Smooth => Publishers' \subseteq Publishers
<1> SUFFICES ASSUME IInv, Smooth PROVE Publishers' \subseteq Publishers
  OBVIOUS
<1>1. ASSUME NEW n \in Nodes, PublishEnd(n) PROVE Publishers' \subseteq Publishers
  BY <1>1 DEF PublishEnd, Publishers, IInv, Rest
<1>2. CASE publishing' = publishing
  BY <1>2 DEF Publishers
<1> QED BY <1>1, <1>2
      DEF Smooth, Handler, Insert, Publish, Receiver, Receive, Create, Write, PublishOne, vars

LEMMA EndTakesAway ==
  IInv => \A n \in Nodes : <<PublishEnd(n)>>_vars => n \notin Publishers'
BY DEF PublishEnd, Publishers, IInv, Rest

LEMMA NowCopies == ASSUME NEW v, Now = v
  PROVE v[1] = vars /\ v[2] = Publishers /\ v[3] = Unhandled /\ v[4] = Unreceived
BY DEF Now

LEMMA FewestIsNone ==
  ASSUME NEW T, NEW v \in T, \A w \in T : w[2] \subseteq v[2] => w[2] = v[2], NEW n \in v[2], n \in Nodes
  PROVE  /\ [](IInv /\ Now \in T) /\ [][Smooth]_vars /\ []GuardsEnable /\ Scheduled(n)
         => ~ <>(Now = v)
<1>1. Now = v => Publishers = v[2]
  BY NowCopies
<1>2. Now \in T /\ Publishers \subseteq v[2] => Publishers = v[2]
  <2>1. \A w \in T : w[2] \subseteq v[2] => w[2] = v[2]
    OBVIOUS
  <2>2. Now[2] = Publishers
    BY DEF Now
  <2> QED BY <2>1, <2>2
<1>3. IInv /\ [Smooth]_vars /\ (Now \in T)' /\ Publishers = v[2] => (Publishers = v[2])'
  <2>1. IInv /\ [Smooth]_vars => Publishers' \subseteq Publishers
    BY PublishersShrink DEF vars, Publishers
  <2>2. (Now \in T /\ Publishers \subseteq v[2] => Publishers = v[2])'
    BY <1>2, PTL
  <2> QED BY <2>1, <2>2
<1>4. GuardsEnable /\ Publishers = v[2] => ENABLED <<PublishEnd(n)>>_vars
  BY DEF GuardsEnable, Publishers
<1>5. IInv /\ <<PublishEnd(n)>>_vars => ~ (Publishers = v[2])'
  BY EndTakesAway
<1> QED BY <1>1, <1>3, <1>4, <1>5, PTL DEF Scheduled

-----------------------------------------------------------------------------
\* Then nothing changes any more, and as the fairness of the nodes would change
\* something, there is nothing left to do.
LEMMA QuietStays ==
  ASSUME NEW T, NEW v, Quiet(T, v)
  PROVE  IInv /\ Clean /\ [Smooth]_vars /\ (Now \in T)' /\ Now = v => (Now = v)'
<1> SUFFICES ASSUME IInv, Clean, [Smooth]_vars, (Now \in T)', Now = v PROVE (Now = v)'
  OBVIOUS
<1>1. Publishers = {} /\ v[3] = Unhandled /\ v[4] = Unreceived
  BY NowCopies DEF Quiet
<1>2. Now'[2] = Publishers' /\ Now'[3] = Unhandled' /\ Now'[4] = Unreceived'
  BY DEF Now
<1>3. CASE UNCHANGED vars
  <2>1. Publishers' = Publishers /\ Unhandled' = Unhandled /\ Unreceived' = Unreceived
    BY <1>3 DEF vars, Publishers, Unhandled, Unreceived, Listed, InHand
  <2> QED BY <1>3, <2>1 DEF Now
<1>4. CASE Smooth /\ vars' # vars
  <2>1. Publishers' = {}
    BY <1>1, <1>4, PublishersShrink
  <2>2. ~ (Unhandled' \subseteq Unhandled /\ Unhandled' # Unhandled)
    BY <1>1, <1>2, <2>1 DEF Quiet
  <2>3. ~ (/\ Unhandled' = Unhandled
           /\ Unreceived' \subseteq Unreceived /\ Unreceived' # Unreceived)
    BY <1>1, <1>2, <2>1 DEF Quiet
  <2>4. \A n \in Nodes, c \in Contents : ~ PublishOne(n, c)
    BY <1>1 DEF Publishers, PublishOne
  <2>5. \A n \in Nodes : ~ PublishEnd(n)
    BY <1>1 DEF Publishers, PublishEnd
  <2>6. \A n \in Nodes, c \in Contents : ~ Handler(n, c)
    BY <2>2, HandlersShrink
  <2>7. \A n \in Nodes, c \in Contents : ~ Receiver(n, c)
    BY <2>3, ReceiverShrinks
  <2>8. ASSUME NEW n \in Nodes, NEW p \in Portals, p \notin made, made' = made \cup {p},
               req' = Put(req, n, p, "insert")
        PROVE  FALSE
    BY <2>2, <2>8, ReadShrinks
  <2> QED BY <1>4, <2>4, <2>5, <2>6, <2>7, <2>8 DEF Smooth
<1> QED BY <1>3, <1>4

\* Where, in the variables, a node has something to do.
AtWork(x, n, c) ==
  \/ x[3][n][c] # "none"
  \/ (\A d \in Contents : x[1][n][d] \notin {"create", "write"}) /\ <<n, c>> \in x[5]
  \/ x[1][n][c] \in {"create", "write"}

LEMMA NobodyAtWork ==
  ASSUME NEW T, NEW v, Quiet(T, v), NEW n \in Nodes, NEW c \in Portals, AtWork(v[1], n, c)
  PROVE  /\ [](IInv /\ Clean /\ Now \in T) /\ [][Smooth]_vars /\ []GuardsEnable /\ Scheduled(n)
         => ~ <>(Now = v)
<1>1. IInv /\ Clean /\ [Smooth]_vars /\ (Now \in T)' /\ Now = v => (Now = v)'
  BY QuietStays
<1>2. GuardsEnable /\ Now = v => ENABLED <<Work(n)>>_vars
  <2> SUFFICES ASSUME GuardsEnable, Now = v PROVE ENABLED <<Work(n)>>_vars
    OBVIOUS
  <2>1. v[1] = vars
    BY NowCopies
  <2>2. v[1][1] = state /\ v[1][3] = req /\ v[1][5] = net
    BY <2>1 DEF vars
  <2>3. \/ req[n][c] # "none"
        \/ Idle(n) /\ <<n, c>> \in net
        \/ InHand(n, c)
    BY <2>2 DEF AtWork, Idle, InHand
  <2> QED BY <2>3 DEF GuardsEnable
<1>3. Now = v /\ <<Work(n)>>_vars => ~ (Now = v)'
  BY DEF Now
<1> QED BY <1>1, <1>2, <1>3, PTL DEF Scheduled

AllEverywhere == \A p \in made : Everywhere(p)

LEMMA NothingLeft ==
  ASSUME NEW v, \A n \in Nodes, c \in Portals : ~ AtWork(v[1], n, c)
  PROVE  IInv /\ Clean /\ Now = v => AllEverywhere
<1> SUFFICES ASSUME IInv, Clean, Now = v, NEW p \in made, NEW n \in Nodes
             PROVE  state[n][p] \in {"own", "kept"}
  BY DEF AllEverywhere, Everywhere
<1>1. v[1] = vars
  BY NowCopies
<1>2. v[1][1] = state /\ v[1][3] = req /\ v[1][5] = net
  BY <1>1 DEF vars
<1>3. \A m \in Nodes, c \in Portals : req[m][c] = "none" /\ state[m][c] \notin {"create", "write"}
  BY <1>2 DEF AtWork
<1>4. \A m \in Nodes, d \in Contents : state[m][d] \notin {"create", "write"}
  BY <1>3 DEF Contents, Clean
<1>5. p \in Portals /\ p \in Contents
  BY DEF IInv, Rest, Contents
<1>6. <<n, p>> \notin net
  BY <1>2, <1>4, <1>5 DEF AtWork
<1>7. Listed(n, p)
  BY <1>3, <1>5, <1>6 DEF Clean, OnItsWay
<1>8. state[n][p] \in States \ {"unknown", "create", "write", "short", "unsaved"}
  BY <1>4, <1>5, <1>7 DEF Listed, IInv, Typed, Clean
<1> QED BY <1>8 DEF States

\* What holds of a behaviour in which nothing fails.
LEMMA CalmAlways == Spec => ([](faults = 0) => [](IInv /\ Clean) /\ [][Smooth]_vars)
<1>1. IInv /\ [Next]_vars /\ faults = 0 /\ (faults = 0)' => Smooth
  BY NoFaultIsSmooth
<1>2. IInv /\ Clean /\ [Smooth]_vars => Clean'
  <2>1. UNCHANGED vars => Smooth
    BY DEF Smooth
  <2> QED BY <2>1, CleanStep
<1> QED BY <1>1, <1>2, IInvInit, IInvStep, CleanInit, PTL DEF Spec

LEMMA AllGetThere ==
  ASSUME NEW T, IsFiniteSet(Nodes), IsFiniteSet(Portals)
  PROVE  FairSpec /\ []GuardsEnable /\ Values(T) /\ [](faults = 0) => <>[]AllEverywhere
<1> DEFINE Calm == [](IInv /\ Clean /\ Now \in T) /\ [][Smooth]_vars /\ []GuardsEnable
<1>1. FairSpec /\ []GuardsEnable /\ Values(T) /\ [](faults = 0) => Calm
  <2>1. FairSpec /\ Values(T) => Spec /\ [](Now \in T)
    BY DEF FairSpec, Values
  <2> QED BY <2>1, CalmAlways, PTL
<1>2. FairSpec => \A n \in Nodes : Scheduled(n)
  BY DEF FairSpec
<1>3. Values(T) => T # {} /\ \A v \in T : <>(Now = v) /\ Fits(v)
  <2>1. Now \in T => T # {}
    OBVIOUS
  <2>2. [](Now \in T) => T # {}
    BY <2>1, PTL
  <2> QED BY <2>2, NowFits DEF Values
<1>4. ASSUME NEW v \in T, \A w \in T : w[2] \subseteq v[2] => w[2] = v[2], Fits(v), v[2] # {}
      PROVE  ~ (Calm /\ (\A n \in Nodes : Scheduled(n)) /\ <>(Now = v))
  <2>1. PICK n \in v[2] : n \in Nodes
    BY <1>4 DEF Fits
  <2>2. Calm /\ Scheduled(n) => ~ <>(Now = v)
    BY <1>4, <2>1, FewestIsNone
  <2> QED BY <2>1, <2>2
<1>5. ASSUME NEW v, Quiet(T, v), NEW n \in Nodes, NEW c \in Portals, AtWork(v[1], n, c)
      PROVE  ~ (Calm /\ (\A m \in Nodes : Scheduled(m)) /\ <>(Now = v))
  <2>1. Calm /\ Scheduled(n) => ~ <>(Now = v)
    BY <1>5, NobodyAtWork
  <2> QED BY <2>1
<1>6. ASSUME NEW v, Quiet(T, v), \A n \in Nodes, c \in Portals : ~ AtWork(v[1], n, c)
      PROVE  Calm /\ <>(Now = v) => <>[]AllEverywhere
  <2>1. IInv /\ Clean /\ [Smooth]_vars /\ (Now \in T)' /\ Now = v => (Now = v)'
    BY <1>6, QuietStays
  <2>2. IInv /\ Clean /\ Now = v => AllEverywhere
    BY <1>6, NothingLeft
  <2> QED BY <2>1, <2>2, PTL
<1>7. ASSUME T # {}, \A v \in T : Fits(v)
      PROVE  \E v \in T : \A w \in T : w[2] \subseteq v[2] => w[2] = v[2]
  <2> DEFINE F == {v[2] : v \in T}
  <2>1. F \subseteq SUBSET Nodes /\ F # {} /\ \A v \in T : v[2] \in F
    BY <1>7 DEF Fits
  <2>2. \A X \in F : \E v \in T : v[2] = X
    OBVIOUS
  <2> HIDE DEF F
  <2>3. PICK X \in F : \A Y \in F : Y \subseteq X => Y = X
    BY <2>1, SmallestSet
  <2> QED BY <2>1, <2>2, <2>3
<1> HIDE DEF Calm
<1> SUFFICES ASSUME Calm, \A n \in Nodes : Scheduled(n), T # {}, \A v \in T : <>(Now = v) /\ Fits(v)
             PROVE  <>[]AllEverywhere
  BY <1>1, <1>2, <1>3
<1>8. \E v \in T : v[2] = {}
  BY <1>4, <1>7
<1>9. PICK v \in T : Quiet(T, v)
  BY <1>8, QuietExists
<1>10. \A n \in Nodes, c \in Portals : ~ AtWork(v[1], n, c)
  BY <1>5, <1>9
<1> QED BY <1>6, <1>9, <1>10

LEMMA MadeStays == [Next]_vars => made \subseteq made'
<1>1. ASSUME NEW n \in Nodes, NEW c \in Contents,
             Handler(n, c) \/ Receiver(n, c) \/ Failure(n, c) \/ PublishOne(n, c)
      PROVE  made' = made
  BY <1>1 DEF Handler, Insert, Publish, Receiver, Receive, Create, Write, Failure,
    PublishFails, CreateFails, WriteFails, Lose, PublishOne
<1>2. ASSUME NEW n \in Asked, NEW p \in Portals, Read(n, p) \/ ReadPanics(n, p)
      PROVE  made \subseteq made'
  BY <1>2 DEF Read, ReadPanics
<1>3. ASSUME NEW n \in Nodes, PublishEnd(n) \/ MapFault(n) \/ Crash(n)
      PROVE  made' = made
  BY <1>3 DEF PublishEnd, MapFault, Crash
<1> QED BY <1>1, <1>2, <1>3 DEF Next, vars

LEMMA OneArrives ==
  ASSUME NEW p
  PROVE  Spec /\ ([](faults = 0) => <>[]AllEverywhere) => IsSpread(p)
<1>1. AllEverywhere /\ p \in made => Everywhere(p)
  BY DEF AllEverywhere
<1>2. IInv /\ [Next]_vars /\ ~ (faults = 0) => ~ (faults = 0)'
  BY FaultsStay
<1>3. ~ (faults = 0) => faults # 0
  OBVIOUS
<1>4. p \in made /\ [Next]_vars => (p \in made)'
  BY MadeStays
<1> QED BY <1>1, <1>2, <1>3, <1>4, IInvInit, IInvStep, PTL DEF Spec, IsSpread

\* For any finite number of nodes and portals: while nothing fails, a portal that was
\* created gets into every table, and onto the disk of all nodes but its own.
THEOREM PortalsSpread ==
  ASSUME NEW T, IsFiniteSet(Nodes), IsFiniteSet(Portals)
  PROVE  FairSpec /\ []GuardsEnable /\ Values(T) => Spreads
<1>1. FairSpec /\ []GuardsEnable /\ Values(T) => ([](faults = 0) => <>[]AllEverywhere)
  BY AllGetThere
<1>2. \A p \in Portals : FairSpec /\ []GuardsEnable /\ Values(T) => IsSpread(p)
  BY <1>1, OneArrives DEF FairSpec
<1> QED BY <1>2 DEF Spreads
=============================================================================
