---------------------------- MODULE PeerIdentity ----------------------------
(***************************************************************************)
(* node.InitPeerIdentity (node/peer.go): the key pair behind a path is     *)
(* loaded from <path>/peer.key or, when that file does not exist, made and *)
(* saved there.  The same function gives a node its identity (one call per *)
(* process, from NewNode) and a domain its identity (one call per          *)
(* CREATE_DOMAIN stream, each in a goroutine of its own, all of them on    *)
(* the same path when the domain has the same name).                       *)
(*                                                                         *)
(* A caller is a goroutine that executes the function; every system call   *)
(* on the shared file is a step of its own, and the process may die        *)
(* between any two of them.  The death of the process ends every caller;   *)
(* the new process calls the function again.                               *)
(***************************************************************************)
EXTENDS Naturals

CONSTANTS
  Callers,      \* goroutines that may execute InitPeerIdentity on this path
  Keys,         \* key pairs crypto.GenerateKeyPair can produce, each at most once
  NoKey,        \* a caller that holds no key
  Absent,       \* peer.key does not exist
  Unreadable,   \* peer.key exists, its content is not a marshalled key
  MaxCrashes    \* bound on the crashes of the process

ASSUME SentinelsAreNoKeys ==
  /\ {NoKey, Absent, Unreadable} \cap Keys = {}
  /\ Absent # Unreadable
ASSUME MaxCrashesIsNat == MaxCrashes \in Nat

VARIABLES
  keyFile,      \* content of <path>/peer.key
  pidFiles,     \* marker files <path>/<peer id>
  pc,           \* where each caller is
  priv,         \* local variable priv of each caller
  generated,    \* keys produced so far
  issued,       \* history: keys returned to some caller, in any process
  raced,        \* history: two callers found the file missing at a time
  crashes

vars == <<keyFile, pidFiles, pc, priv, generated, issued, raced, crashes>>

Init ==
  /\ keyFile = Absent
  /\ pidFiles = {}
  /\ pc = [c \in Callers |-> "idle"]
  /\ priv = [c \in Callers |-> NoKey]
  /\ generated = {}
  /\ issued = {}
  /\ raced = FALSE
  /\ crashes = 0

-----------------------------------------------------------------------------
Go(c, label) == pc' = [pc EXCEPT ![c] = label]

\* The call returns k; the goroutine may call again later.
Return(c, k) ==
  /\ Go(c, "idle")
  /\ priv' = [priv EXCEPT ![c] = NoKey]
  /\ issued' = issued \cup {k}

\* Every goroutine ends with the process; the files stay.
Die ==
  /\ pc' = [c \in Callers |-> "idle"]
  /\ priv' = [c \in Callers |-> NoKey]
  /\ UNCHANGED <<keyFile, pidFiles, generated, issued, raced>>

\* os.Open reports ErrNotExist: a fresh key is generated, in memory only.
Generate(c) ==
  /\ \E k \in Keys \ generated :
       /\ priv' = [priv EXCEPT ![c] = k]
       /\ generated' = generated \cup {k}
  /\ Go(c, "create")
  /\ raced' = (raced \/ \E d \in Callers : pc[d] = "create")
  /\ UNCHANGED <<keyFile, pidFiles, issued, crashes>>

\* Mutant: a file that holds no key is taken for a missing one.
OpenMissingOrTorn(c) ==
  /\ pc[c] = "idle"
  /\ keyFile \in {Absent, Unreadable}
  /\ Generate(c)

OpenMissing(c) ==
  /\ pc[c] = "idle"
  /\ keyFile = Absent
  /\ Generate(c)

\* os.Open finds the file; what it holds is read later.
OpenPresent(c) ==
  /\ pc[c] = "idle"
  /\ keyFile # Absent
  /\ Go(c, "read")
  /\ UNCHANGED <<keyFile, pidFiles, priv, generated, issued, raced, crashes>>

\* Mutant: the directory is made, the key file is not.
CreateNothing(c) ==
  /\ pc[c] = "create"
  /\ Go(c, "mark")
  /\ UNCHANGED <<keyFile, pidFiles, priv, generated, issued, raced, crashes>>

\* os.Create truncates: until the write the file is there and empty.
Create(c) ==
  /\ pc[c] = "create"
  /\ keyFile' = Unreadable
  /\ Go(c, "write")
  /\ UNCHANGED <<pidFiles, priv, generated, issued, raced, crashes>>

Write(c) ==
  /\ pc[c] = "write"
  /\ keyFile' = priv[c]
  /\ Go(c, "mark")
  /\ UNCHANGED <<pidFiles, priv, generated, issued, raced, crashes>>

\* The empty file named after the peer id, then the return of the new key.
Mark(c) ==
  /\ pc[c] = "mark"
  /\ pidFiles' = pidFiles \cup {priv[c]}
  /\ Return(c, priv[c])
  /\ UNCHANGED <<keyFile, generated, raced, crashes>>

\* Mutant: a key without its marker file is refused, and the call retried.
ReadMarkedKey(c) ==
  /\ pc[c] = "read"
  /\ keyFile \in Keys
  /\ IF keyFile \in pidFiles
       THEN Return(c, keyFile)
       ELSE Go(c, "idle") /\ UNCHANGED <<priv, issued>>
  /\ UNCHANGED <<keyFile, pidFiles, generated, raced, crashes>>

ReadKey(c) ==
  /\ pc[c] = "read"
  /\ keyFile \in Keys
  /\ Return(c, keyFile)
  /\ UNCHANGED <<keyFile, pidFiles, generated, raced, crashes>>

\* Mutant: the error of UnmarshalPrivateKey is not looked at, and nil returned.
ReturnNil(c) ==
  /\ pc[c] = "read"
  /\ keyFile = Unreadable
  /\ Return(c, NoKey)
  /\ UNCHANGED <<keyFile, pidFiles, generated, raced, crashes>>

\* UnmarshalPrivateKey fails: the panic takes the process down.
ReadUnreadable(c) ==
  /\ pc[c] = "read"
  /\ keyFile = Unreadable
  /\ Die
  /\ UNCHANGED crashes

\* The process is killed between two steps of whoever is at work.
Crash ==
  /\ crashes < MaxCrashes
  /\ Die
  /\ crashes' = crashes + 1

Work(c) ==
  \/ OpenMissing(c) \/ OpenPresent(c)
  \/ Create(c) \/ Write(c) \/ Mark(c)
  \/ ReadKey(c) \/ ReadUnreadable(c)

Next == Crash \/ \E c \in Callers : Work(c)

Spec == Init /\ [][Next]_vars

\* A runnable goroutine is scheduled; a process that died is started again.
Scheduled(c) == WF_vars(Work(c))
FairSpec == Spec /\ \A c \in Callers : Scheduled(c)

-----------------------------------------------------------------------------
Labels == {"idle", "create", "write", "mark", "read"}

\* Every variable holds what its declaration promises; a caller holds a key
\* pair exactly while InitPeerIdentity is between its generation and its return,
\* and what is returned is a key pair.
TypeOK ==
  /\ keyFile \in generated \cup {Absent, Unreadable}
  /\ pidFiles \subseteq generated
  /\ pc \in [Callers -> Labels]
  /\ priv \in [Callers -> Keys \cup {NoKey}]
  /\ \A c \in Callers : pc[c] \in {"create", "write", "mark"} <=> priv[c] # NoKey
  /\ \A c \in Callers : priv[c] \in generated \cup {NoKey}
  /\ generated \subseteq Keys
  /\ issued \subseteq generated
  /\ raced \in BOOLEAN
  /\ crashes \in 0..MaxCrashes

\* An identity that InitPeerIdentity has returned is the one on disk, so that
\* the next call (the node after a restart, the domain after a second CREATE)
\* comes back with the same identity.
IssuedIsSaved == \A k \in issued : keyFile = k

\* The only thing that can come between: two callers that found the file missing
\* at a time.  Readers beside a writer, crashes and later calls do no harm.
UnracedIsSaved == ~ raced => IssuedIsSaved

\* The file exists and nobody is on its way to truncate or write it.
Settled == keyFile # Absent /\ \A c \in Callers : pc[c] \notin {"create", "write"}

\* Once the key file is settled no later call changes it: the saved identity is
\* permanent.  (A file torn by a crash is settled too, and just as permanent.)
SettledIsFinal == [][Settled => Settled' /\ keyFile' = keyFile]_vars

Issues(k) == Settled /\ keyFile = k ~> k \in issued

\* A key that was saved completely is handed out, even when the process that
\* saved it dies before it returns it.
SavedIsIssued == \A k \in Keys : Issues(k)
=============================================================================
