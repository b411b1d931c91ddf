----------------------------- MODULE DomainData -----------------------------
(***************************************************************************)
(* The partition of one name on a data node: the directory of its files,   *)
(* the upload streams that bring parts of it (utils.ReceiveDomainData with *)
(* classifyDomainData of example/data_node as its callback) and the        *)
(* download streams that want to hear of it                                *)
(* (onDownloadDomainDataReqReceived with utils.DomainDataSubscribers).     *)
(*                                                                         *)
(* A received part is saved in a file of its own.  Then every file of the  *)
(* directory is read, merged into the part in memory and removed, and a    *)
(* new file takes the result.  Each stream has its goroutine and nothing   *)
(* keeps two of them from merging the same directory at a time.            *)
(*                                                                         *)
(* A partition is the set of its bits.  All parts have the same length,    *)
(* as those of utils.RandomBitmap have.                                    *)
(***************************************************************************)
EXTENDS Naturals, FiniteSets

CONSTANTS
  Uploads,      \* upload streams
  Downloads,    \* download streams that ask for this name
  Bits,         \* bits of the partition
  Parts,        \* partitions that clients upload
  Nobody,       \* no subscriber
  MaxFiles,     \* bound on the files ever created
  MaxFaults     \* bound on the crashes and the system calls that fail

ASSUME BoundsAreNat == MaxFiles \in Nat /\ MaxFaults \in Nat
ASSUME PartsAreBits == Parts \subseteq SUBSET Bits
ASSUME NobodyIsNoStream == Nobody \notin Downloads

\* The random names of os.CreateTemp, in the order in which os.ReadDir lists them.
Files == 1..MaxFiles
NoFile == 0

VARIABLES
  \* the goroutine of each upload stream
  at,           \* what it does next
  part,         \* the partition in its memory
  file,         \* the file that it writes or has just merged
  todo,         \* listed files that it has still to merge
  calls,        \* subscribers that it has still to notify
  dest,         \* the subscriber that it is about to write to
  \* the disk
  dir,          \* files in the directory
  whole,        \* those that have been written
  content,      \* what was written
  used,         \* names given so far
  \* subscriptions
  subs,         \* streams in domainDataSubs
  st,           \* what each download stream does next
  pick,         \* the file that it is about to send
  seen,         \* bits its client has been sent
  \* history
  received,     \* bits of all the parts received
  lost,         \* bits that a failing or dying handler had in hand
  cut,          \* a round of notifications has ended early
  faults

upvars == <<at, part, file, todo, calls, dest>>
diskvars == <<dir, whole, content, used>>
downvars == <<subs, st, pick, seen>>
histvars == <<received, lost, cut, faults>>
vars == <<upvars, diskvars, downvars, histvars>>

Init ==
  /\ at = [u \in Uploads |-> "idle"]
  /\ part = [u \in Uploads |-> {}]
  /\ file = [u \in Uploads |-> NoFile]
  /\ todo = [u \in Uploads |-> {}]
  /\ calls = [u \in Uploads |-> {}]
  /\ dest = [u \in Uploads |-> Nobody]
  /\ dir = {} /\ whole = {} /\ used = {}
  /\ content = [f \in Files |-> {}]
  /\ subs = {}
  /\ st = [d \in Downloads |-> "none"]
  /\ pick = [d \in Downloads |-> NoFile]
  /\ seen = [d \in Downloads |-> {}]
  /\ received = {} /\ lost = {}
  /\ cut = FALSE /\ faults = 0

-----------------------------------------------------------------------------
Go(u, label) == at' = [at EXCEPT ![u] = label]

\* The part is dealt with, well or not.  The next one may come, on this stream
\* or on a new one.
Rest(u) ==
  /\ Go(u, "idle")
  /\ part' = [part EXCEPT ![u] = {}]
  /\ file' = [file EXCEPT ![u] = NoFile]
  /\ todo' = [todo EXCEPT ![u] = {}]
  /\ calls' = [calls EXCEPT ![u] = {}]
  /\ dest' = [dest EXCEPT ![u] = Nobody]

\* os.CreateTemp: an empty file.
CreateTemp(u) ==
  \E f \in Files \ used :
    /\ used' = used \cup {f}
    /\ dir' = dir \cup {f}
    /\ file' = [file EXCEPT ![u] = f]
    /\ UNCHANGED <<whole, content>>

\* The partition in memory is in the file.
Fill(u) ==
  /\ whole' = whole \cup {file[u]}
  /\ content' = [content EXCEPT ![file[u]] = part[u]]
  /\ UNCHANGED <<dir, used>>

\* os.Remove; a file that is gone already is no error.
RemoveFile(f) ==
  /\ dir' = dir \ {f}
  /\ whole' = whole \ {f}
  /\ content' = [content EXCEPT ![f] = {}]
  /\ UNCHANGED used

\* The process dies: memory and connections go, the disk stays.
Die ==
  /\ at' = [u \in Uploads |-> "idle"]
  /\ part' = [u \in Uploads |-> {}]
  /\ file' = [u \in Uploads |-> NoFile]
  /\ todo' = [u \in Uploads |-> {}]
  /\ calls' = [u \in Uploads |-> {}]
  /\ dest' = [u \in Uploads |-> Nobody]
  /\ subs' = {}
  /\ st' = [d \in Downloads |-> "none"]
  /\ pick' = [d \in Downloads |-> NoFile]
  /\ seen' = [d \in Downloads |-> {}]
  /\ lost' = lost \cup UNION {part[u] : u \in Uploads}
  /\ UNCHANGED <<diskvars, received, cut>>

Fault == faults < MaxFaults /\ faults' = faults + 1

Crash == Fault /\ Die

-----------------------------------------------------------------------------
\* ReceiveDomainData: a part arrives.
Receive(u) ==
  /\ at[u] = "idle"
  /\ \E p \in Parts :
       /\ part' = [part EXCEPT ![u] = p]
       /\ received' = received \cup p
  /\ CreateTemp(u)
  /\ Go(u, "save")
  /\ UNCHANGED <<todo, calls, dest, downvars, lost, cut, faults>>

\* Size and message are written, one after the other.
Save(u) ==
  /\ at[u] = "save"
  /\ Fill(u)
  /\ Go(u, "list")
  /\ UNCHANGED <<part, file, todo, calls, dest, downvars, histvars>>

\* processPartition: os.ReadDir.
List(u) ==
  /\ at[u] = "list"
  /\ dir # {}
  /\ todo' = [todo EXCEPT ![u] = dir]
  /\ Go(u, "merge")
  /\ UNCHANGED <<part, file, calls, dest, diskvars, downvars, histvars>>

\* Another stream has taken everything, this part included.
ListNothing(u) ==
  /\ at[u] = "list"
  /\ dir = {}
  /\ Rest(u)
  /\ UNCHANGED <<diskvars, downvars, histvars>>

NextListed(u, f) ==
  /\ at[u] = "merge"
  /\ f \in todo[u]
  /\ \A g \in todo[u] : f <= g

\* Mutant: the result of mergePartitions is dropped.
MergeNothing(u, f) ==
  /\ NextListed(u, f)
  /\ f \in whole
  /\ file' = [file EXCEPT ![u] = f]
  /\ Go(u, "remove")
  /\ UNCHANGED <<part, todo, calls, dest, diskvars, downvars, histvars>>

\* Open, read and mergePartitions.
Merge(u, f) ==
  /\ NextListed(u, f)
  /\ f \in whole
  /\ part' = [part EXCEPT ![u] = @ \cup content[f]]
  /\ file' = [file EXCEPT ![u] = f]
  /\ Go(u, "remove")
  /\ UNCHANGED <<todo, calls, dest, diskvars, downvars, histvars>>

\* os.Open fails, another stream has removed the file: what is in memory goes.
OpenFails(u, f) ==
  /\ NextListed(u, f)
  /\ f \notin dir
  /\ lost' = lost \cup part[u]
  /\ Rest(u)
  /\ UNCHANGED <<diskvars, downvars, received, cut, faults>>

\* Mutant: a file that holds no partition is removed like the others.
RemoveTorn(u, f) ==
  /\ NextListed(u, f)
  /\ f \in dir \ whole
  /\ file' = [file EXCEPT ![u] = f]
  /\ Go(u, "remove")
  /\ UNCHANGED <<part, todo, calls, dest, diskvars, downvars, histvars>>

\* The file is there and not written yet, or never will be: reading it as a
\* size-prefixed message panics.
ReadTorn(u, f) ==
  /\ NextListed(u, f)
  /\ f \in dir \ whole
  /\ Die
  /\ UNCHANGED faults

AfterRemove(u) ==
  /\ todo' = [todo EXCEPT ![u] = @ \ {file[u]}]
  /\ Go(u, IF todo[u] = {file[u]} THEN "create" ELSE "merge")
  /\ UNCHANGED <<part, file, calls, dest, downvars, received, lost, cut>>

\* Mutant: merged files are kept.
KeepMerged(u) ==
  /\ at[u] = "remove"
  /\ AfterRemove(u)
  /\ UNCHANGED <<diskvars, faults>>

Remove(u) ==
  /\ at[u] = "remove"
  /\ RemoveFile(file[u])
  /\ AfterRemove(u)
  /\ UNCHANGED faults

\* The error of os.Remove is not looked at.
RemoveFails(u) ==
  /\ at[u] = "remove"
  /\ AfterRemove(u)
  /\ Fault
  /\ UNCHANGED diskvars

Create(u) ==
  /\ at[u] = "create"
  /\ CreateTemp(u)
  /\ Go(u, "write")
  /\ UNCHANGED <<part, todo, calls, dest, downvars, histvars>>

WriteMerged(u) ==
  /\ at[u] = "write"
  /\ Fill(u)
  /\ Go(u, "find")
  /\ UNCHANGED <<part, file, todo, calls, dest, downvars, histvars>>

\* A system call fails and processPartition or ReceiveDomainData returns.
IoError(u) ==
  /\ at[u] \in {"save", "list", "merge", "create", "write"}
  /\ Fault
  /\ lost' = lost \cup part[u]
  /\ Rest(u)
  /\ UNCHANGED <<diskvars, downvars, received, cut>>

-----------------------------------------------------------------------------
\* FindSubscribers.
FindSubscribers(u) ==
  /\ at[u] = "find"
  /\ \/ subs = {} /\ Rest(u)
     \/ /\ subs # {}
        /\ calls' = [calls EXCEPT ![u] = subs]
        /\ Go(u, "check")
        /\ UNCHANGED <<part, file, todo, dest>>
  /\ UNCHANGED <<diskvars, downvars, histvars>>

\* The last subscriber is dealt with, or the next one is looked at.
NextSubscriber(u, d) ==
  \/ calls[u] = {d} /\ Rest(u)
  \/ /\ calls[u] # {d}
     /\ calls' = [calls EXCEPT ![u] = @ \ {d}]
     /\ dest' = [dest EXCEPT ![u] = Nobody]
     /\ Go(u, "check")
     /\ UNCHANGED <<part, file, todo>>

\* IsClosed speaks of the connection.
CheckOpen(u, d) ==
  /\ at[u] = "check"
  /\ d \in calls[u]
  /\ st[d] # "gone"
  /\ dest' = [dest EXCEPT ![u] = d]
  /\ Go(u, "send")
  /\ UNCHANGED <<part, file, todo, calls, diskvars, downvars, histvars>>

\* Mutant: return for continue.
ReturnOnGone(u, d) ==
  /\ at[u] = "check"
  /\ d \in calls[u]
  /\ st[d] = "gone"
  /\ Rest(u)
  /\ UNCHANGED <<diskvars, downvars, histvars>>

\* RemoveSubscriber looks under the path, the stream is under its pattern:
\* nothing is removed.
CheckGone(u, d) ==
  /\ at[u] = "check"
  /\ d \in calls[u]
  /\ st[d] = "gone"
  /\ NextSubscriber(u, d)
  /\ UNCHANGED <<diskvars, downvars, histvars>>

Send(u) ==
  /\ at[u] = "send"
  /\ st[dest[u]] \notin {"closed", "gone"}
  /\ seen' = [seen EXCEPT ![dest[u]] = @ \cup part[u]]
  /\ NextSubscriber(u, dest[u])
  /\ UNCHANGED <<diskvars, subs, st, pick, histvars>>

\* The stream, or by now the connection, is closed: the others hear nothing.
SendFails(u) ==
  /\ at[u] = "send"
  /\ st[dest[u]] \in {"closed", "gone"}
  /\ cut' = TRUE
  /\ Rest(u)
  /\ UNCHANGED <<diskvars, downvars, received, lost, faults>>

-----------------------------------------------------------------------------
\* onDownloadDomainDataReqReceived: AddSubscriber comes first.
Subscribe(d) ==
  /\ st[d] = "none"
  /\ subs' = subs \cup {d}
  /\ st' = [st EXCEPT ![d] = "list"]
  /\ UNCHANGED <<pick, seen, upvars, diskvars, histvars>>

\* os.ReadDir; files[0] is the one to send.
Look(d) ==
  /\ st[d] = "list"
  /\ \/ /\ dir = {}
        /\ st' = [st EXCEPT ![d] = "wait"]
        /\ UNCHANGED pick
     \/ \E f \in dir :
          /\ \A g \in dir : f <= g
          /\ pick' = [pick EXCEPT ![d] = f]
          /\ st' = [st EXCEPT ![d] = "open"]
  /\ UNCHANGED <<subs, seen, upvars, diskvars, histvars>>

Picked(d, next) ==
  /\ st[d] = "open"
  /\ pick' = [pick EXCEPT ![d] = NoFile]
  /\ st' = [st EXCEPT ![d] = next]
  /\ UNCHANGED <<subs, upvars, diskvars, histvars>>

SendFile(d) ==
  /\ pick[d] \in whole
  /\ Picked(d, "wait")
  /\ seen' = [seen EXCEPT ![d] = @ \cup content[pick[d]]]

\* The file is gone: continue.
PickGone(d) ==
  /\ pick[d] \notin dir
  /\ Picked(d, "wait")
  /\ UNCHANGED seen

\* The file has no size or no message: the handler returns and closes the
\* stream, which stays among the subscribers.
PickTorn(d) ==
  /\ pick[d] \in dir \ whole
  /\ Picked(d, "closed")
  /\ UNCHANGED seen

\* The client's connection closes.
Disconnect(d) ==
  /\ st[d] \notin {"none", "gone"}
  /\ st' = [st EXCEPT ![d] = "gone"]
  /\ pick' = [pick EXCEPT ![d] = NoFile]
  /\ seen' = [seen EXCEPT ![d] = {}]
  /\ UNCHANGED <<subs, upvars, diskvars, histvars>>

-----------------------------------------------------------------------------
MergeNext(u, f) == Merge(u, f) \/ OpenFails(u, f) \/ ReadTorn(u, f)

Upload(u) ==
  \/ Receive(u) \/ Save(u) \/ List(u) \/ ListNothing(u)
  \/ \E f \in Files : MergeNext(u, f)
  \/ Remove(u) \/ RemoveFails(u) \/ Create(u) \/ WriteMerged(u) \/ IoError(u)

Notify(u) ==
  \/ FindSubscribers(u) \/ Send(u) \/ SendFails(u)
  \/ \E d \in Downloads : CheckOpen(u, d) \/ CheckGone(u, d)

Download(d) ==
  \/ Subscribe(d) \/ Look(d) \/ Disconnect(d)
  \/ SendFile(d) \/ PickGone(d) \/ PickTorn(d)

Next ==
  \/ Crash
  \/ \E u \in Uploads : Upload(u) \/ Notify(u)
  \/ \E d \in Downloads : Download(d)

Spec == Init /\ [][Next]_vars

-----------------------------------------------------------------------------
Labels == {"idle", "save", "list", "merge", "remove", "create", "write",
           "find", "check", "send"}

\* Before the part is saved, and from the first merge to the end of the write,
\* there may be bits that memory alone has.
Holding == {"save", "merge", "remove", "create", "write"}

\* Every variable holds what its declaration promises, and no merge, file or
\* client ever has a bit that was not uploaded.
TypeOK ==
  /\ at \in [Uploads -> Labels]
  /\ part \in [Uploads -> SUBSET received]
  /\ file \in [Uploads -> Files \cup {NoFile}]
  /\ todo \in [Uploads -> SUBSET used]
  /\ calls \in [Uploads -> SUBSET subs]
  /\ dest \in [Uploads -> Downloads \cup {Nobody}]
  /\ used \subseteq Files /\ dir \subseteq used /\ whole \subseteq dir
  /\ content \in [Files -> SUBSET received]
  /\ subs \subseteq Downloads
  /\ st \in [Downloads -> {"none", "list", "open", "wait", "closed", "gone"}]
  /\ pick \in [Downloads -> Files \cup {NoFile}]
  /\ seen \in [Downloads -> SUBSET received]
  /\ received \subseteq Bits /\ lost \subseteq received
  /\ cut \in BOOLEAN /\ faults \in 0..MaxFaults

OnDisk(b) == \E f \in whole : b \in content[f]

InHand(b) == \E u \in Uploads : at[u] \in Holding /\ b \in part[u]

\* Whatever merges overlap: a bit that was received is in a written file, or in
\* the memory of a handler that will write it, unless a handler failed or the
\* process died with it in hand.
Accounted == \A b \in received : OnDisk(b) \/ InHand(b) \/ b \in lost

AllAtRest == \A u \in Uploads : at[u] = "idle"

\* A single upload stream: between two parts, and as long as nothing has
\* failed, one file has everything that was received.
OneFileHasAll ==
  faults = 0 /\ AllAtRest /\ received # {} =>
    \E f \in Files : dir = {f} /\ whole = {f} /\ content[f] = received

\* A single upload stream: between two parts a client that is waiting has been
\* sent everything, unless a round of notifications was cut short.
WaitingIsUpToDate ==
  faults = 0 /\ ~ cut /\ AllAtRest =>
    \A d \in Downloads : st[d] = "wait" => seen[d] = received

Orphan(f) ==
  f \in dir \ whole /\ \A u \in Uploads : at[u] \in {"save", "write"} => file[u] # f

\* A file that its writer left unwritten is there for good: no handler, later
\* merge or restart completes or removes it.
OrphansStay == [][\A f \in Files : Orphan(f) => Orphan(f)']_vars
=============================================================================
