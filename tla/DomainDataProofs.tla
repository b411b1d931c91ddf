-------------------------- MODULE DomainDataProofs --------------------------
(***************************************************************************)
(* For any number of upload and download streams, and any number of faults *)
(* and files: the typing of DomainData and that no bit is lost but those a *)
(* failing handler had in hand; for a single upload stream, that one file  *)
(* has everything and so have the clients that wait.                       *)
(***************************************************************************)
EXTENDS DomainData, TLAPS

\* Who writes a file has it for himself, and what a handler is about to remove
\* it has in memory.
Ownership ==
  \A u \in Uploads :
    /\ at[u] \in {"save", "write"} =>
         /\ file[u] \in dir \ whole
         /\ \A v \in Uploads \ {u} : at[v] \in {"save", "write"} => file[v] # file[u]
    /\ at[u] = "remove" =>
         /\ file[u] \in used /\ file[u] \notin dir \ whole
         /\ file[u] \in whole => content[file[u]] \subseteq part[u]
    /\ at[u] = "check" => calls[u] # {}
    /\ at[u] = "send" => dest[u] \in calls[u]

IInv == TypeOK /\ Ownership /\ Accounted

USE BoundsAreNat, PartsAreBits, NobodyIsNoStream
    DEF Files, NoFile, Labels, Holding, upvars, diskvars, downvars, histvars

LEMMA IInvInit == Init => IInv
<1> SUFFICES ASSUME Init PROVE IInv
  OBVIOUS
<1>1. TypeOK
  <2> USE DEF Init
  <2>1. content \in [Files -> SUBSET received] /\ faults \in 0..MaxFaults
    OBVIOUS
  <2>2. /\ st \in [Downloads -> {"none", "list", "open", "wait", "closed", "gone"}]
        /\ pick \in [Downloads -> Files \cup {NoFile}]
        /\ seen \in [Downloads -> SUBSET received]
    OBVIOUS
  <2>3. /\ at \in [Uploads -> Labels]
        /\ part \in [Uploads -> SUBSET received]
        /\ file \in [Uploads -> Files \cup {NoFile}]
        /\ todo \in [Uploads -> SUBSET used]
        /\ calls \in [Uploads -> SUBSET subs]
        /\ dest \in [Uploads -> Downloads \cup {Nobody}]
    OBVIOUS
  <2> QED BY <2>1, <2>2, <2>3 DEF TypeOK
<1>2. Ownership
  BY DEF Init, Ownership
<1>3. Accounted
  BY DEF Init, Accounted
<1> QED BY <1>1, <1>2, <1>3 DEF IInv

LEMMA DieStep == ASSUME IInv, Die, faults' \in 0..MaxFaults PROVE IInv'
<1> USE DEF IInv, Die
<1>1. UNION {part[u] : u \in Uploads} \subseteq received
  BY DEF TypeOK
<1>2. TypeOK'
  BY <1>1 DEF TypeOK
<1>3. Ownership'
  BY DEF Ownership
<1>4. Accounted'
  <2> SUFFICES ASSUME NEW b \in received, b \notin lost', ~ OnDisk(b)' PROVE FALSE
    BY DEF Accounted
  <2>1. b \notin lost /\ \A u \in Uploads : b \notin part[u]
    OBVIOUS
  <2>2. ~ OnDisk(b)
    BY DEF OnDisk
  <2> QED BY <2>1, <2>2 DEF Accounted, InHand
<1> QED BY <1>2, <1>3, <1>4

LEMMA ReceiveStep == ASSUME IInv, NEW u \in Uploads, Receive(u) PROVE IInv'
<1> USE DEF IInv
<1>1. PICK p \in Parts : /\ part' = [part EXCEPT ![u] = p]
                         /\ received' = received \cup p
  BY DEF Receive
<1>2. PICK f \in Files \ used : /\ used' = used \cup {f}
                                /\ dir' = dir \cup {f}
                                /\ file' = [file EXCEPT ![u] = f]
                                /\ UNCHANGED <<whole, content>>
  BY DEF Receive, CreateTemp
<1>3. /\ at[u] = "idle" /\ at' = [at EXCEPT ![u] = "save"]
      /\ UNCHANGED <<todo, calls, dest, downvars, lost, cut, faults>>
  BY DEF Receive, Go
<1>4. TypeOK'
  BY <1>1, <1>2, <1>3 DEF TypeOK
<1>5. Ownership'
  BY <1>1, <1>2, <1>3 DEF TypeOK, Ownership
<1>6. Accounted'
  <2> SUFFICES ASSUME NEW b \in received', b \notin lost PROVE OnDisk(b)' \/ InHand(b)'
    BY <1>3 DEF Accounted
  <2>1. CASE b \in p
    BY <1>1, <1>3, <2>1 DEF InHand, TypeOK
  <2>2. CASE b \in received /\ OnDisk(b)
    BY <1>2, <2>2 DEF OnDisk
  <2>3. CASE b \in received /\ InHand(b)
    BY <1>1, <1>3, <2>3 DEF InHand, TypeOK
  <2> QED BY <1>1, <2>1, <2>2, <2>3 DEF Accounted
<1> QED BY <1>4, <1>5, <1>6

\* The part in memory is written to the file in hand.
LEMMA FillStep ==
  ASSUME IInv, NEW u \in Uploads, Save(u) \/ WriteMerged(u)
  PROVE  IInv'
<1> USE DEF IInv
<1>1. /\ at[u] \in {"save", "write"} /\ at' \in [Uploads -> Labels]
      /\ \A v \in Uploads \ {u} : at'[v] = at[v]
      /\ at'[u] \in {"list", "find"}
      /\ whole' = whole \cup {file[u]}
      /\ content' = [content EXCEPT ![file[u]] = part[u]]
      /\ UNCHANGED <<dir, used, part, file, todo, calls, dest, downvars, histvars>>
  BY DEF Save, WriteMerged, Go, Fill, TypeOK
<1>2. file[u] \in dir \ whole /\ file[u] \in Files
  BY <1>1 DEF Ownership, TypeOK
<1>3. TypeOK'
  BY <1>1, <1>2 DEF TypeOK
<1>4. Ownership'
  BY <1>1, <1>2 DEF TypeOK, Ownership
<1>5. Accounted'
  <2> SUFFICES ASSUME NEW b \in received, b \notin lost PROVE OnDisk(b)' \/ InHand(b)'
    BY <1>1 DEF Accounted
  <2>1. CASE b \in part[u]
    BY <1>1, <1>2, <2>1 DEF OnDisk, TypeOK
  <2>2. CASE OnDisk(b)
    BY <1>1, <1>2, <2>2 DEF OnDisk, TypeOK
  <2>3. CASE InHand(b) /\ b \notin part[u]
    BY <1>1, <2>3 DEF InHand
  <2> QED BY <2>1, <2>2, <2>3 DEF Accounted
<1> QED BY <1>3, <1>4, <1>5

\* A handler gives up, or has nothing left to do: the disk and the others stay.
LEMMA RestStep ==
  ASSUME IInv, NEW u \in Uploads, Rest(u), UNCHANGED <<diskvars, received>>,
         lost \subseteq lost', lost' \subseteq received,
         at[u] \in Holding => part[u] \subseteq lost',
         subs' = subs, cut' \in BOOLEAN, faults' \in 0..MaxFaults,
         st' = st, pick' = pick, seen' \in [Downloads -> SUBSET received]
  PROVE  IInv'
<1> USE DEF IInv, Rest, Go
<1>1. TypeOK'
  BY DEF TypeOK
<1>2. Ownership'
  BY DEF Ownership, TypeOK
<1>3. Accounted'
  <2> SUFFICES ASSUME NEW b \in received, b \notin lost' PROVE OnDisk(b)' \/ InHand(b)'
    BY DEF Accounted
  <2>1. CASE OnDisk(b)
    BY <2>1 DEF OnDisk
  <2>2. CASE InHand(b)
    <3>1. PICK v \in Uploads : at[v] \in Holding /\ b \in part[v]
      BY <2>2 DEF InHand
    <3>2. v # u
      BY <3>1
    <3> QED BY <3>1, <3>2 DEF InHand, TypeOK
  <2> QED BY <2>1, <2>2 DEF Accounted
<1> QED BY <1>1, <1>2, <1>3

LEMMA ListStep == ASSUME IInv, NEW u \in Uploads, List(u) PROVE IInv'
<1> USE DEF IInv, List, Go
<1>1. TypeOK'
  BY DEF TypeOK
<1>2. Ownership'
  BY DEF Ownership, TypeOK
<1>3. Accounted'
  BY DEF Accounted, OnDisk, InHand, TypeOK
<1> QED BY <1>1, <1>2, <1>3

LEMMA MergeStep ==
  ASSUME IInv, NEW u \in Uploads, NEW f \in Files, Merge(u, f)
  PROVE  IInv'
<1> USE DEF IInv, Merge, NextListed, Go
<1>1. TypeOK'
  BY DEF TypeOK
<1>2. Ownership'
  BY DEF Ownership, TypeOK
<1>3. Accounted'
  BY DEF Accounted, OnDisk, InHand, TypeOK
<1> QED BY <1>1, <1>2, <1>3

LEMMA RemoveStep ==
  ASSUME IInv, NEW u \in Uploads, Remove(u) \/ RemoveFails(u)
  PROVE  IInv'
<1> USE DEF IInv
<1>1. /\ at[u] = "remove" /\ at'[u] \in {"create", "merge"}
      /\ at' \in [Uploads -> Labels]
      /\ \A v \in Uploads \ {u} : at'[v] = at[v]
      /\ todo' \in [Uploads -> SUBSET used]
      /\ UNCHANGED <<part, file, calls, dest, downvars, received, lost, cut, used>>
      /\ faults' \in 0..MaxFaults
  <2>1. at[u] = "remove" /\ AfterRemove(u) /\ UNCHANGED used
    BY DEF Remove, RemoveFails, RemoveFile
  <2>2. faults' \in 0..MaxFaults
    BY DEF Remove, RemoveFails, Fault, TypeOK
  <2>3. at' = [at EXCEPT ![u] = IF todo[u] = {file[u]} THEN "create" ELSE "merge"]
    BY <2>1 DEF AfterRemove, Go
  <2>4. todo' \in [Uploads -> SUBSET used]
    BY <2>1 DEF AfterRemove, TypeOK
  <2> QED BY <2>1, <2>2, <2>3, <2>4 DEF AfterRemove, TypeOK
<1>2. \/ UNCHANGED diskvars
      \/ /\ dir' = dir \ {file[u]} /\ whole' = whole \ {file[u]}
         /\ content' = [content EXCEPT ![file[u]] = {}]
  BY DEF Remove, RemoveFails, RemoveFile
<1>3. TypeOK'
  BY <1>1, <1>2 DEF TypeOK
<1>4. Ownership'
  BY <1>1, <1>2 DEF Ownership, TypeOK
<1>5. Accounted'
  <2> SUFFICES ASSUME NEW b \in received, b \notin lost PROVE OnDisk(b)' \/ InHand(b)'
    BY <1>1 DEF Accounted
  <2>1. CASE b \in part[u]
    BY <1>1, <2>1 DEF InHand
  <2>2. CASE OnDisk(b) /\ b \notin part[u]
    <3>1. PICK f \in whole : b \in content[f]
      BY <2>2 DEF OnDisk
    <3>2. f # file[u]
      BY <1>1, <2>2, <3>1 DEF Ownership
    <3> QED BY <1>2, <3>1, <3>2 DEF OnDisk, TypeOK
  <2>3. CASE InHand(b) /\ b \notin part[u]
    BY <1>1, <2>3 DEF InHand
  <2> QED BY <2>1, <2>2, <2>3 DEF Accounted
<1> QED BY <1>3, <1>4, <1>5

LEMMA CreateStep == ASSUME IInv, NEW u \in Uploads, Create(u) PROVE IInv'
<1> USE DEF IInv
<1>1. PICK f \in Files \ used : /\ used' = used \cup {f}
                                /\ dir' = dir \cup {f}
                                /\ file' = [file EXCEPT ![u] = f]
                                /\ UNCHANGED <<whole, content>>
  BY DEF Create, CreateTemp
<1>2. /\ at[u] = "create" /\ at' = [at EXCEPT ![u] = "write"]
      /\ UNCHANGED <<part, todo, calls, dest, downvars, histvars>>
  BY DEF Create, Go
<1>3. TypeOK'
  BY <1>1, <1>2 DEF TypeOK
<1>4. Ownership'
  BY <1>1, <1>2 DEF TypeOK, Ownership
<1>5. Accounted'
  BY <1>1, <1>2 DEF Accounted, OnDisk, InHand, TypeOK
<1> QED BY <1>3, <1>4, <1>5

LEMMA NotifyStep == ASSUME IInv, NEW u \in Uploads, Notify(u) PROVE IInv'
<1> USE DEF IInv
<1>1. CASE FindSubscribers(u)
  <2>1. CASE subs = {} /\ Rest(u)
    BY <1>1, <2>1, RestStep DEF FindSubscribers, TypeOK
  <2>2. CASE subs # {}
    <3>1. /\ at[u] = "find" /\ at' = [at EXCEPT ![u] = "check"]
          /\ calls' = [calls EXCEPT ![u] = subs]
          /\ UNCHANGED <<part, file, todo, dest, diskvars, downvars, histvars>>
      BY <1>1, <2>2 DEF FindSubscribers, Go
    <3>2. TypeOK'
      BY <3>1 DEF TypeOK
    <3>3. Ownership'
      BY <2>2, <3>1 DEF Ownership, TypeOK
    <3>4. Accounted'
      BY <3>1 DEF Accounted, OnDisk, InHand, TypeOK
    <3> QED BY <3>2, <3>3, <3>4
  <2> QED BY <1>1, <2>1, <2>2 DEF FindSubscribers
<1>2. ASSUME NEW d \in Downloads, CheckOpen(u, d) PROVE IInv'
  <2> USE <1>2 DEF CheckOpen, Go
  <2>1. TypeOK'
    BY DEF TypeOK
  <2>2. Ownership'
    BY DEF Ownership, TypeOK
  <2>3. Accounted'
    BY DEF Accounted, OnDisk, InHand, TypeOK
  <2> QED BY <2>1, <2>2, <2>3
<1>3. ASSUME NEW d \in Downloads, d \in calls[u], at[u] \in {"check", "send"},
             NextSubscriber(u, d), UNCHANGED <<diskvars, subs, st, pick, histvars>>,
             seen' \in [Downloads -> SUBSET received]
      PROVE  IInv'
  <2>1. CASE Rest(u)
    BY <1>3, <2>1, RestStep DEF TypeOK
  <2>2. CASE ~ Rest(u)
    <3>1. /\ calls[u] # {d}
          /\ at' = [at EXCEPT ![u] = "check"]
          /\ calls' = [calls EXCEPT ![u] = @ \ {d}]
          /\ dest' = [dest EXCEPT ![u] = Nobody]
          /\ UNCHANGED <<part, file, todo>>
      BY <1>3, <2>2 DEF NextSubscriber, Go
    <3>2. TypeOK'
      BY <1>3, <3>1 DEF TypeOK
    <3>3. Ownership'
      BY <1>3, <3>1 DEF Ownership, TypeOK
    <3>4. Accounted'
      BY <1>3, <3>1 DEF Accounted, OnDisk, InHand, TypeOK
    <3> QED BY <3>2, <3>3, <3>4
  <2> QED BY <2>1, <2>2
<1>4. ASSUME NEW d \in Downloads, CheckGone(u, d) PROVE IInv'
  <2>1. seen' \in [Downloads -> SUBSET received]
    BY <1>4 DEF CheckGone, TypeOK
  <2> QED BY <1>3, <1>4, <2>1 DEF CheckGone
<1>5. CASE Send(u)
  <2>1. dest[u] \in calls[u] /\ dest[u] \in Downloads
    BY <1>5 DEF Send, Ownership, TypeOK
  <2>2. seen' \in [Downloads -> SUBSET received]
    BY <1>5, <2>1 DEF Send, TypeOK
  <2> QED BY <1>3, <1>5, <2>1, <2>2 DEF Send
<1>6. CASE SendFails(u)
  BY <1>6, RestStep DEF SendFails, TypeOK
<1> QED BY <1>1, <1>2, <1>4, <1>5, <1>6 DEF Notify

LEMMA DownloadStep == ASSUME IInv, NEW d \in Downloads, Download(d) PROVE IInv'
<1> USE DEF IInv
<1>1. /\ UNCHANGED <<upvars, diskvars, histvars>>
      /\ subs \subseteq subs' /\ subs' \subseteq Downloads
      /\ st' \in [Downloads -> {"none", "list", "open", "wait", "closed", "gone"}]
      /\ pick' \in [Downloads -> Files \cup {NoFile}]
  <2>1. CASE Look(d)
    <3>1. \/ UNCHANGED pick
          \/ \E f \in dir : pick' = [pick EXCEPT ![d] = f]
      BY <2>1 DEF Look
    <3> QED BY <2>1, <3>1 DEF Look, TypeOK
  <2>2. CASE Subscribe(d)
    BY <2>2 DEF Subscribe, TypeOK
  <2>3. CASE Disconnect(d)
    BY <2>3 DEF Disconnect, TypeOK
  <2>4. CASE SendFile(d) \/ PickGone(d) \/ PickTorn(d)
    BY <2>4 DEF SendFile, PickGone, PickTorn, Picked, TypeOK
  <2> QED BY <2>1, <2>2, <2>3, <2>4 DEF Download
<1>2. seen' \in [Downloads -> SUBSET received]
  <2>1. CASE SendFile(d)
    <3>1. pick[d] \in Files
      BY <2>1 DEF SendFile, TypeOK
    <3> QED BY <2>1, <3>1 DEF SendFile, TypeOK
  <2>2. CASE ~ SendFile(d)
    BY <2>2 DEF Download, Subscribe, Look, Disconnect, PickGone, PickTorn, TypeOK
  <2> QED BY <2>1, <2>2
<1>3. TypeOK'
  BY <1>1, <1>2 DEF TypeOK
<1>4. Ownership'
  BY <1>1 DEF Ownership
<1>5. Accounted'
  BY <1>1 DEF Accounted, OnDisk, InHand
<1> QED BY <1>3, <1>4, <1>5

LEMMA UploadStep == ASSUME IInv, NEW u \in Uploads, Upload(u) PROVE IInv'
<1>1. CASE ListNothing(u)
  BY <1>1, RestStep DEF ListNothing, IInv, TypeOK
<1>2. CASE IoError(u)
  <2>1. lost' = lost \cup part[u] /\ part[u] \subseteq received
    BY <1>2 DEF IoError, IInv, TypeOK
  <2>2. faults' \in 0..MaxFaults
    BY <1>2 DEF IoError, Fault, IInv, TypeOK
  <2> QED BY <1>2, <2>1, <2>2, RestStep DEF IoError, IInv, TypeOK
<1>3. ASSUME NEW f \in Files, MergeNext(u, f) PROVE IInv'
  <2>1. CASE OpenFails(u, f)
    <3>1. lost' = lost \cup part[u] /\ part[u] \subseteq received
      BY <2>1 DEF OpenFails, IInv, TypeOK
    <3> QED BY <2>1, <3>1, RestStep DEF OpenFails, IInv, TypeOK
  <2>2. CASE ReadTorn(u, f)
    BY <2>2, DieStep DEF ReadTorn, IInv, TypeOK
  <2> QED BY <1>3, <2>1, <2>2, MergeStep DEF MergeNext
<1> QED BY <1>1, <1>2, <1>3, ReceiveStep, FillStep, ListStep, RemoveStep, CreateStep
        DEF Upload

LEMMA IInvNext == IInv /\ [Next]_vars => IInv'
<1> SUFFICES ASSUME IInv, [Next]_vars PROVE IInv'
  OBVIOUS
<1>1. CASE UNCHANGED vars
  BY <1>1 DEF vars, IInv, TypeOK, Ownership, Accounted, OnDisk, InHand
<1>2. CASE Crash
  BY <1>2, DieStep DEF Crash, Fault, IInv, TypeOK
<1>3. CASE Next /\ ~ Crash
  BY <1>3, UploadStep, NotifyStep, DownloadStep DEF Next
<1> QED BY <1>1, <1>2, <1>3

LEMMA IInvAlways == Spec => []IInv
  BY IInvInit, IInvNext, PTL DEF Spec

-----------------------------------------------------------------------------
\* The data node keeps its types, and nothing it merges, saves or sends has a bit
\* that was not uploaded.
THEOREM TypeCorrect == Spec => []TypeOK
<1>1. IInv => TypeOK
  BY DEF IInv
<1> QED BY <1>1, IInvAlways, PTL

\* However the merges of ReceiveDomainData and processPartition overlap, what is
\* neither in a file nor in memory was in hand of a handler that failed or died.
THEOREM NothingElseIsLost == Spec => []Accounted
<1>1. IInv => Accounted
  BY DEF IInv
<1> QED BY <1>1, IInvAlways, PTL

\* A file left unwritten is never written nor removed: processPartition only
\* removes what it could read.
THEOREM UnwrittenStays == Spec => OrphansStay
<1>1. ASSUME IInv, Next, NEW f \in Files, Orphan(f) PROVE Orphan(f)'
  <2> USE <1>1 DEF IInv
  <2>1. ASSUME UNCHANGED <<dir, whole>>,
               \A v \in Uploads : at'[v] \in {"save", "write"} =>
                 at'[v] = at[v] /\ file'[v] = file[v]
        PROVE  Orphan(f)'
    BY <2>1 DEF Orphan
  <2>2. CASE Crash
    BY <2>1, <2>2 DEF Crash, Die
  <2>3. ASSUME NEW u \in Uploads, Upload(u) PROVE Orphan(f)'
    <3>1. ASSUME CreateTemp(u), at' = [at EXCEPT ![u] = "save"] \/ at' = [at EXCEPT ![u] = "write"]
          PROVE  Orphan(f)'
      <4>1. PICK g \in Files \ used : /\ dir' = dir \cup {g}
                                      /\ file' = [file EXCEPT ![u] = g]
                                      /\ whole' = whole
        BY <3>1 DEF CreateTemp
      <4> QED BY <3>1, <4>1 DEF Orphan, TypeOK
    <3>2. CASE Receive(u) \/ Create(u)
      BY <3>1, <3>2 DEF Receive, Create, Go
    <3>3. CASE Save(u) \/ WriteMerged(u)
      <4>1. /\ at[u] \in {"save", "write"} /\ at'[u] \in {"list", "find"}
            /\ \A v \in Uploads \ {u} : at'[v] = at[v]
            /\ whole' = whole \cup {file[u]} /\ UNCHANGED <<dir, file>>
        BY <3>3 DEF Save, WriteMerged, Fill, Go, TypeOK
      <4> QED BY <4>1 DEF Orphan
    <3>4. CASE Remove(u) \/ RemoveFails(u)
      <4>1. /\ at[u] = "remove" /\ at'[u] \in {"create", "merge"}
            /\ \A v \in Uploads \ {u} : at'[v] = at[v]
            /\ UNCHANGED file /\ dir \ {file[u]} \subseteq dir' /\ whole' \subseteq whole
        <5>1. AfterRemove(u)
          BY <3>4 DEF Remove, RemoveFails
        <5>2. at' = [at EXCEPT ![u] = IF todo[u] = {file[u]} THEN "create" ELSE "merge"]
          BY <5>1 DEF AfterRemove, Go
        <5>3. at[u] = "remove" /\ dir \ {file[u]} \subseteq dir' /\ whole' \subseteq whole
          BY <3>4 DEF Remove, RemoveFails, RemoveFile
        <5> QED BY <5>1, <5>2, <5>3 DEF AfterRemove, TypeOK
      <4>2. file[u] # f
        BY <4>1 DEF Orphan, Ownership
      <4> QED BY <4>1, <4>2 DEF Orphan
    <3>5. CASE List(u)
      BY <2>1, <3>5 DEF List, Go, TypeOK
    <3>6. CASE ListNothing(u) \/ IoError(u)
      BY <2>1, <3>6 DEF ListNothing, IoError, Rest, Go, TypeOK
    <3>7. ASSUME NEW g \in Files, MergeNext(u, g) PROVE Orphan(f)'
      <4>1. CASE Merge(u, g)
        BY <2>1, <4>1 DEF Merge, Go, TypeOK
      <4>2. CASE OpenFails(u, g)
        BY <2>1, <4>2 DEF OpenFails, Rest, Go, TypeOK
      <4>3. CASE ReadTorn(u, g)
        BY <2>1, <4>3 DEF ReadTorn, Die
      <4> QED BY <3>7, <4>1, <4>2, <4>3 DEF MergeNext
    <3> QED BY <2>3, <3>2, <3>3, <3>4, <3>5, <3>6, <3>7 DEF Upload
  <2>4. ASSUME NEW u \in Uploads, Notify(u) PROVE Orphan(f)'
    <3>1. UNCHANGED <<dir, whole>>
      BY <2>4 DEF Notify, FindSubscribers, CheckOpen, CheckGone, Send, SendFails
    <3>2. Rest(u) \/ (UNCHANGED file /\ (Go(u, "check") \/ Go(u, "send")))
      BY <2>4 DEF Notify, FindSubscribers, CheckOpen, CheckGone, Send, SendFails,
                  NextSubscriber
    <3> QED BY <2>1, <3>1, <3>2 DEF Rest, Go, TypeOK
  <2>5. ASSUME NEW d \in Downloads, Download(d) PROVE Orphan(f)'
    BY <2>1, <2>5 DEF Download, Subscribe, Look, Disconnect, SendFile, PickGone,
                      PickTorn, Picked
  <2> QED BY <2>2, <2>3, <2>4, <2>5 DEF Next
<1>2. IInv /\ [Next]_vars => [\A f \in Files : Orphan(f) => Orphan(f)']_vars
  BY <1>1
<1> QED BY <1>2, IInvAlways, PTL DEF Spec, OrphansStay

-----------------------------------------------------------------------------
\* A single upload stream, as long as nothing fails.

\* What the directory holds at each point of the merge.
Lone(u) ==
  faults = 0 =>
    /\ lost = {}
    /\ at[u] \in {"idle", "find", "check", "send"} =>
         dir = whole /\ \A f, g \in dir : f = g
    /\ at[u] = "save" => dir = whole \cup {file[u]}
    /\ at[u] = "list" => dir = whole /\ dir # {}
    /\ at[u] = "merge" => dir = whole /\ todo[u] = dir
    /\ at[u] = "remove" => dir = whole /\ todo[u] = dir /\ file[u] \in dir
    /\ at[u] = "create" => dir = {}
    /\ at[u] = "write" => dir = {file[u]}
    /\ at[u] \in {"find", "check", "send"} => part[u] = received

LEMMA LoneStep ==
  ASSUME NEW w, Uploads = {w}, IInv, Lone(w), [Next]_vars, IInv'
  PROVE  Lone(w)'
<1> SUFFICES ASSUME faults' = 0 PROVE Lone(w)'
  BY DEF Lone
<1> USE DEF IInv
<1>0. faults = 0 /\ ~ Fault /\ ~ Crash
  BY DEF Next, Fault, Crash, TypeOK, vars, histvars, Upload, Notify, Download, Receive,
         Save, List, ListNothing, MergeNext, Merge, OpenFails, ReadTorn, Remove,
         RemoveFails, AfterRemove, Create, WriteMerged, IoError, FindSubscribers,
         CheckOpen, CheckGone, Send, SendFails, Subscribe, Look, Disconnect, SendFile,
         PickGone, PickTorn, Picked
<1> USE <1>0
<1>1. CASE UNCHANGED <<upvars, diskvars, received, lost>>
  BY <1>1 DEF Lone
<1>2. CASE Receive(w)
  <2>1. PICK f \in Files \ used : /\ dir' = dir \cup {f} /\ whole' = whole
                                  /\ file' = [file EXCEPT ![w] = f]
    BY <1>2 DEF Receive, CreateTemp
  <2>2. at[w] = "idle" /\ at'[w] = "save" /\ lost' = lost
    BY <1>2 DEF Receive, Go, TypeOK
  <2> QED BY <2>1, <2>2 DEF Lone, TypeOK
<1>3. CASE Save(w)
  BY <1>3 DEF Save, Fill, Go, Lone, TypeOK, Ownership
<1>4. CASE List(w)
  BY <1>4 DEF List, Go, Lone, TypeOK
<1>5. CASE ListNothing(w)
  BY <1>5 DEF ListNothing, Lone
<1>6. ASSUME NEW f \in Files, MergeNext(w, f) PROVE Lone(w)'
  <2>1. Merge(w, f)
    BY <1>6 DEF MergeNext, OpenFails, ReadTorn, NextListed, Lone
  <2> QED BY <2>1 DEF Merge, NextListed, Go, Lone, TypeOK
<1>7. CASE Remove(w)
  <2>1. /\ at[w] = "remove" /\ lost' = lost
        /\ dir' = dir \ {file[w]} /\ whole' = whole \ {file[w]}
        /\ todo' = [todo EXCEPT ![w] = @ \ {file[w]}]
        /\ at' = [at EXCEPT ![w] = IF todo[w] = {file[w]} THEN "create" ELSE "merge"]
    BY <1>7 DEF Remove, RemoveFile, AfterRemove, Go
  <2> QED BY <2>1 DEF Lone, TypeOK
<1>8. CASE Create(w)
  <2>1. PICK f \in Files \ used : /\ dir' = dir \cup {f}
                                  /\ file' = [file EXCEPT ![w] = f]
    BY <1>8 DEF Create, CreateTemp
  <2> QED BY <1>8, <2>1 DEF Create, Go, Lone, TypeOK
<1>9. CASE WriteMerged(w)
  <2>1. /\ at[w] = "write" /\ at'[w] = "find" /\ dir = {file[w]} /\ lost = {}
        /\ whole' = whole \cup {file[w]} /\ whole = {}
        /\ UNCHANGED <<dir, part, file, received, lost>>
    BY <1>9 DEF WriteMerged, Fill, Go, Lone, TypeOK, Ownership
  <2>2. part[w] = received
    <3>1. ASSUME NEW b \in received PROVE b \in part[w]
      BY <2>1 DEF Accounted, OnDisk, InHand
    <3> QED BY <3>1 DEF TypeOK
  <2> QED BY <2>1, <2>2 DEF Lone
<1>10. CASE Notify(w)
  <2>1. /\ UNCHANGED <<diskvars, received, lost>>
        /\ at[w] \in {"find", "check", "send"}
        /\ Rest(w) \/ (UNCHANGED part /\ (Go(w, "check") \/ Go(w, "send")))
    BY <1>10 DEF Notify, FindSubscribers, CheckOpen, CheckGone, Send, SendFails,
                 NextSubscriber
  <2> QED BY <2>1 DEF Rest, Go, Lone, TypeOK
<1>11. ASSUME NEW d \in Downloads, Download(d)
       PROVE  UNCHANGED <<upvars, diskvars, received, lost>>
  BY <1>11 DEF Download, Subscribe, Look, Disconnect, SendFile, PickGone, PickTorn, Picked
<1> QED BY <1>1, <1>2, <1>3, <1>4, <1>5, <1>6, <1>7, <1>8, <1>9, <1>10, <1>11
        DEF Next, Upload, vars, RemoveFails, IoError

\* Waiting clients, and those that chose a file which is gone by now, have been
\* sent everything, but for those that are still to be notified.
UpToDate(u) ==
  /\ \A d \in Downloads : st[d] # "none" => d \in subs
  /\ faults = 0 /\ ~ cut /\ at[u] \in {"idle", "check", "send"} =>
       \A d \in Downloads :
         /\ at[u] # "idle" => d \notin calls[u]
         /\ st[d] = "wait" \/ (st[d] = "open" /\ pick[d] \notin dir)
         => seen[d] = received

\* The one file of a directory at rest has every bit received.
LEMMA FileHasAll ==
  ASSUME NEW w, Uploads = {w}, IInv, Lone(w), faults = 0,
         at[w] \in {"idle", "find", "check", "send"}
  PROVE  /\ \A f \in dir : content[f] = received /\ dir = {f} /\ whole = {f}
         /\ received # {} => dir # {}
<1> USE DEF IInv
<1>1. dir = whole /\ lost = {} /\ \A f, g \in dir : f = g
  BY DEF Lone
<1>2. ASSUME NEW b \in received PROVE OnDisk(b)
  BY <1>1 DEF Accounted, InHand
<1>3. ASSUME NEW f \in dir PROVE content[f] = received
  <2>1. content[f] \subseteq received
    BY DEF TypeOK
  <2>2. \A b \in received : b \in content[f]
    BY <1>1, <1>2 DEF OnDisk
  <2> QED BY <2>1, <2>2
<1>4. received # {} => dir # {}
  BY <1>1, <1>2 DEF OnDisk
<1> QED BY <1>1, <1>3, <1>4

LEMMA UpToDateStep ==
  ASSUME NEW w, Uploads = {w}, IInv, Lone(w), UpToDate(w), [Next]_vars, IInv', Lone(w)'
  PROVE  UpToDate(w)'
<1> USE DEF IInv
<1>1. CASE UNCHANGED vars
  BY <1>1 DEF vars, UpToDate
<1>2. CASE Crash
  BY <1>2 DEF Crash, Die, Fault, UpToDate, TypeOK
<1>3. CASE Upload(w)
  <2>1. CASE \E f \in Files : ReadTorn(w, f)
    <3>1. PICK f \in Files : ReadTorn(w, f)
      BY <2>1
    <3>2. faults # 0
      BY <3>1 DEF ReadTorn, NextListed, Lone
    <3> QED BY <3>1, <3>2 DEF ReadTorn, Die, UpToDate
  <2>2. CASE ~ \E f \in Files : ReadTorn(w, f)
    <3>1. UNCHANGED downvars
      BY <1>3, <2>2
         DEF Upload, Receive, Save, List, ListNothing, MergeNext, Merge, OpenFails,
             Remove, RemoveFails, AfterRemove, Create, WriteMerged, IoError
    <3>2. faults' = 0 => at'[w] \notin {"idle", "check", "send"}
      <4>1. CASE Receive(w) \/ Save(w) \/ List(w) \/ Create(w) \/ WriteMerged(w)
        BY <4>1 DEF Receive, Save, List, Create, WriteMerged, Go, TypeOK
      <4>2. CASE Remove(w) \/ RemoveFails(w)
        BY <4>2 DEF Remove, RemoveFails, AfterRemove, Go, TypeOK
      <4>3. ASSUME NEW f \in Files, MergeNext(w, f), faults' = 0
            PROVE  at'[w] \notin {"idle", "check", "send"}
        <5>1. Merge(w, f)
          BY <2>2, <4>3 DEF MergeNext, OpenFails, NextListed, Lone
        <5> QED BY <5>1 DEF Merge, Go, TypeOK
      <4>4. CASE ListNothing(w)
        BY <4>4 DEF ListNothing, Lone, histvars
      <4>5. CASE IoError(w)
        BY <4>5 DEF IoError, Fault, TypeOK
      <4> QED BY <1>3, <4>1, <4>2, <4>3, <4>4, <4>5 DEF Upload
    <3> QED BY <3>1, <3>2 DEF UpToDate
  <2> QED BY <2>1, <2>2
<1>4. CASE Notify(w)
  <2>1. CASE FindSubscribers(w)
    BY <2>1 DEF FindSubscribers, Rest, Go, UpToDate, TypeOK
  <2>2. ASSUME NEW d \in Downloads, CheckOpen(w, d) PROVE UpToDate(w)'
    BY <2>2 DEF CheckOpen, Go, UpToDate, TypeOK
  <2>3. ASSUME NEW d \in Downloads, d \in calls[w], at[w] \in {"check", "send"},
               NextSubscriber(w, d), UNCHANGED <<diskvars, subs, st, pick, histvars>>,
               \A e \in Downloads \ {d} : seen'[e] = seen[e],
               faults = 0 => st[d] = "gone" \/ seen'[d] = received
        PROVE  UpToDate(w)'
    <3>1. \/ calls[w] = {d} /\ at'[w] = "idle"
          \/ calls'[w] = calls[w] \ {d} /\ at'[w] = "check"
      BY <2>3 DEF NextSubscriber, Rest, Go, TypeOK
    <3> QED BY <2>3, <3>1 DEF UpToDate
  <2>4. ASSUME NEW d \in Downloads, CheckGone(w, d) PROVE UpToDate(w)'
    BY <2>3, <2>4 DEF CheckGone
  <2>5. CASE Send(w)
    <3> DEFINE e == dest[w]
    <3>1. e \in calls[w] /\ e \in Downloads
      BY <2>5 DEF Send, Ownership, TypeOK
    <3>2. faults = 0 => part[w] = received
      BY <2>5 DEF Send, Lone
    <3>3. /\ \A x \in Downloads \ {e} : seen'[x] = seen[x]
          /\ seen'[e] = seen[e] \cup part[w] /\ seen[e] \subseteq received
      BY <2>5, <3>1 DEF Send, TypeOK
    <3>4. faults = 0 => seen'[e] = received
      BY <3>2, <3>3
    <3> HIDE DEF e
    <3> QED BY <2>3, <2>5, <3>1, <3>3, <3>4 DEF Send, e
  <2>6. CASE SendFails(w)
    BY <2>6 DEF SendFails, UpToDate
  <2> QED BY <1>4, <2>1, <2>2, <2>4, <2>5, <2>6 DEF Notify
<1>5. ASSUME NEW d \in Downloads, Download(d) PROVE UpToDate(w)'
  <2>1. /\ UNCHANGED <<upvars, diskvars, histvars>>
        /\ \A e \in Downloads \ {d} :
             st'[e] = st[e] /\ pick'[e] = pick[e] /\ seen'[e] = seen[e]
        /\ subs \subseteq subs' /\ (st'[d] # "none" => d \in subs')
    BY <1>5 DEF Download, Subscribe, Look, SendFile, PickGone, PickTorn, Picked,
                Disconnect, UpToDate, TypeOK
  <2>2. ASSUME faults = 0, ~ cut, at[w] \in {"idle", "check", "send"},
               at[w] # "idle" => d \notin calls[w],
               st'[d] = "wait" \/ (st'[d] = "open" /\ pick'[d] \notin dir)
        PROVE  seen'[d] = received
    <3>1. CASE Look(d)
      <4>1. dir = {} /\ seen' = seen
        BY <2>2, <3>1 DEF Look, TypeOK
      <4>2. received = {}
        BY <2>2, <4>1, FileHasAll
      <4> QED BY <4>1, <4>2 DEF TypeOK
    <3>2. CASE SendFile(d)
      <4>1. pick[d] \in dir /\ seen'[d] = seen[d] \cup content[pick[d]]
        BY <3>2 DEF SendFile, TypeOK
      <4>2. content[pick[d]] = received /\ seen[d] \subseteq received
        BY <2>2, <4>1, FileHasAll DEF TypeOK
      <4> QED BY <4>1, <4>2
    <3>3. CASE PickGone(d)
      BY <2>2, <3>3 DEF PickGone, Picked, UpToDate
    <3>4. CASE Subscribe(d) \/ Disconnect(d) \/ PickTorn(d)
      BY <2>2, <3>4 DEF Subscribe, Disconnect, PickTorn, Picked, TypeOK
    <3> QED BY <1>5, <3>1, <3>2, <3>3, <3>4 DEF Download
  <2> QED BY <2>1, <2>2 DEF UpToDate
<1> QED BY <1>1, <1>2, <1>3, <1>4, <1>5 DEF Next

LoneInv(u) == IInv /\ Lone(u) /\ UpToDate(u)

LEMMA LoneAlways ==
  ASSUME NEW w, Uploads = {w}
  PROVE  Spec => []LoneInv(w)
<1>1. Init => LoneInv(w)
  BY IInvInit DEF Init, LoneInv, Lone, UpToDate
<1>2. LoneInv(w) /\ [Next]_vars => LoneInv(w)'
  BY IInvNext, LoneStep, UpToDateStep DEF LoneInv
<1> QED BY <1>1, <1>2, PTL DEF Spec

\* With one upload stream, the merges of processPartition leave a single file
\* with every bit that was received, as long as nothing fails.
THEOREM LoneMergeHasAll ==
  ASSUME NEW w, Uploads = {w}
  PROVE  Spec => []OneFileHasAll
<1>1. LoneInv(w) => OneFileHasAll
  <2> SUFFICES ASSUME LoneInv(w), faults = 0, AllAtRest, received # {}
               PROVE  \E f \in Files : dir = {f} /\ whole = {f} /\ content[f] = received
    BY DEF OneFileHasAll
  <2>1. PICK f \in dir : TRUE
    BY FileHasAll DEF LoneInv, AllAtRest
  <2> QED BY <2>1, FileHasAll DEF LoneInv, AllAtRest, IInv, TypeOK
<1> QED BY <1>1, LoneAlways, PTL

\* With one upload stream, a client that waits has been sent every bit received,
\* whenever it subscribed: AddSubscriber comes before the directory is read.
THEOREM LoneWaitingIsUpToDate ==
  ASSUME NEW w, Uploads = {w}
  PROVE  Spec => []WaitingIsUpToDate
<1>1. LoneInv(w) => WaitingIsUpToDate
  BY DEF LoneInv, UpToDate, WaitingIsUpToDate, AllAtRest
<1> QED BY <1>1, LoneAlways, PTL
=============================================================================
