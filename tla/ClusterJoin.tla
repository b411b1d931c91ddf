---------------------------- MODULE ClusterJoin -----------------------------
(***************************************************************************)
(* JOIN_DOMAIN_CLUSTER (utils/domain_cluster.go): a discovery node that    *)
(* creates a domain calls the members of its cluster one after the other   *)
(* (InitializeDomainCluster); each member's handler (EnableDomainCluster)  *)
(* saves the secret of the domain, lists the domain and saves its          *)
(* meta.json.                                                              *)
(*                                                                         *)
(* A member keeps both files under the NAME of the domain.  A domain's id  *)
(* is the identity its creator keeps under that name: another one at       *)
(* another discovery node.  The requests are those for one name, which the *)
(* orchestrator page always sends.                                         *)
(***************************************************************************)
EXTENDS Naturals

CONSTANTS
  Requests,     \* the CREATE_DOMAIN requests for the name
  Members,      \* the nodes of the cluster, others and writer
  Ids,          \* the ids the discovery nodes keep under the name
  MaxFaults,    \* bound on crashes, lost streams and failing calls
  Absent, Torn, \* contents of a file: none, created and not written
  Mixed         \* one content over the rest of a longer one

ASSUME FilesDiffer ==
  /\ {Absent, Torn, Mixed} \cap (Ids \cup Requests) = {}
  /\ Absent # Torn /\ Absent # Mixed /\ Torn # Mixed
ASSUME FaultsAreCounted == MaxFaults \in Nat

VARIABLES
  id,           \* the id of each request's domain
  todo,         \* members the creator of a request has still to call
  at,           \* where a request's handler is at each member
  secret,       \* domains/<name>/secret on each member's disk
  meta,         \* domains/<name>/meta.json: the request whose domain it holds
  domainList,   \* the domains in the memory of each member
  lone,         \* history: joins that began with no other under way, none since
  faults

vars == <<id, todo, at, secret, meta, domainList, lone, faults>>
files == <<secret, meta, domainList, lone>>

\* Positions of a handler, and of one that is over or will never run.
Inside == {"write", "list", "meta", "encode"}
Over == {"done", "failed"}

Init ==
  /\ id \in [Requests -> Ids]
  /\ todo = [r \in Requests |-> Members]
  /\ at = [r \in Requests |-> [m \in Members |-> "none"]]
  /\ secret = [m \in Members |-> Absent]
  /\ meta = [m \in Members |-> Absent]
  /\ domainList = [m \in Members |-> {}]
  /\ lone = {}
  /\ faults = 0

Goto(r, m, pos) == at' = [at EXCEPT ![r] = [@ EXCEPT ![m] = pos]]

Fault == faults < MaxFaults /\ faults' = faults + 1

-----------------------------------------------------------------------------
\* The creator: NewStream and Encode for one member after the other.

Call(r, m) ==
  /\ m \in todo[r]
  /\ todo' = [todo EXCEPT ![r] = @ \ {m}]
  /\ Goto(r, m, "create")
  /\ UNCHANGED <<id, files, faults>>

\* Mutant: return where the code has continue.
CallFailsAll(r, m) ==
  /\ m \in todo[r]
  /\ Fault
  /\ todo' = [todo EXCEPT ![r] = {}]
  /\ Goto(r, m, "failed")
  /\ UNCHANGED <<id, files>>

\* The member cannot be reached, or the stream breaks before it has the domain.
CallFails(r, m) ==
  /\ m \in todo[r]
  /\ Fault
  /\ todo' = [todo EXCEPT ![r] = @ \ {m}]
  /\ Goto(r, m, "failed")
  /\ UNCHANGED <<id, files>>

\* The creator's process ends: nobody calls the rest.
Abandon(r) ==
  /\ todo[r] # {}
  /\ Fault
  /\ todo' = [todo EXCEPT ![r] = {}]
  /\ at' = [at EXCEPT ![r] = [m \in Members |-> IF m \in todo[r] THEN "failed" ELSE @[m]]]
  /\ UNCHANGED <<id, files>>

-----------------------------------------------------------------------------
\* The handler on a member.

\* A join that starts while another is under way, and every join before it, is
\* no longer alone.
Begin(r, m) ==
  lone' = {j \in lone : j[2] # m} \cup
            IF \E q \in Requests : at[q][m] \in Inside THEN {} ELSE {<<r, m>>}

\* Mutant: the domain is listed before its secret is there.
CreateSecretListed(r, m) ==
  /\ at[r][m] = "create"
  /\ Goto(r, m, "write")
  /\ secret' = [secret EXCEPT ![m] = Torn]
  /\ domainList' = [domainList EXCEPT ![m] = @ \cup {id[r]}]
  /\ Begin(r, m)
  /\ UNCHANGED <<id, todo, meta, faults>>

\* Mutant: a secret that is there is taken for the domain's, as InitPeerIdentity does.
CreateMissingSecret(r, m) ==
  /\ at[r][m] = "create"
  /\ Goto(r, m, IF secret[m] = Absent THEN "write" ELSE "list")
  /\ secret' = [secret EXCEPT ![m] = IF @ = Absent THEN Torn ELSE @]
  /\ Begin(r, m)
  /\ UNCHANGED <<id, todo, meta, domainList, faults>>

\* os.Create: the secret of another domain of that name is gone.
CreateSecret(r, m) ==
  /\ at[r][m] = "create"
  /\ Goto(r, m, "write")
  /\ secret' = [secret EXCEPT ![m] = Torn]
  /\ Begin(r, m)
  /\ UNCHANGED <<id, todo, meta, domainList, faults>>

\* All secrets have one length.
WriteSecret(r, m) ==
  /\ at[r][m] = "write"
  /\ Goto(r, m, "list")
  /\ secret' = [secret EXCEPT ![m] = id[r]]
  /\ UNCHANGED <<id, todo, meta, domainList, lone, faults>>

\* The key is in the peer store, the domain's topic joined.
List(r, m) ==
  /\ at[r][m] = "list"
  /\ Goto(r, m, "meta")
  /\ domainList' = [domainList EXCEPT ![m] = @ \cup {id[r]}]
  /\ UNCHANGED <<id, todo, secret, meta, lone, faults>>

CreateMeta(r, m) ==
  /\ at[r][m] = "meta"
  /\ Goto(r, m, "encode")
  /\ meta' = [meta EXCEPT ![m] = Torn]
  /\ UNCHANGED <<id, todo, secret, domainList, lone, faults>>

\* Mutant: the file is created, the error of Encode not looked at.
EncodeNothing(r, m) ==
  /\ at[r][m] = "encode"
  /\ Goto(r, m, "done")
  /\ UNCHANGED <<id, todo, files, faults>>

\* The two clusters differ in length: a shorter one leaves the end of the longer.
Encode(r, m) ==
  /\ at[r][m] = "encode"
  /\ Goto(r, m, "done")
  /\ \E new \in {r} \cup IF meta[m] \in {Torn, r} THEN {} ELSE {Mixed} :
       meta' = [meta EXCEPT ![m] = new]
  /\ UNCHANGED <<id, todo, secret, domainList, lone, faults>>

\* An early return.
Fail(r, m) ==
  /\ at[r][m] \in Inside \cup {"create"}
  /\ Fault
  /\ Goto(r, m, "failed")
  /\ UNCHANGED <<id, todo, files>>

-----------------------------------------------------------------------------
\* The process of a member ends and starts again.  Nothing reads the disk.
Restart(m) ==
  /\ at' = [r \in Requests |->
             [at[r] EXCEPT ![m] = IF @ \in Inside \cup {"create"} THEN "failed" ELSE @]]
  /\ domainList' = [domainList EXCEPT ![m] = {}]
  /\ UNCHANGED <<id, todo, secret, meta, lone>>

Crash(m) == Fault /\ Restart(m)

\* domainList has no lock.
MapFault(m) ==
  /\ \E q, r \in Requests : q # r /\ at[q][m] = "list" /\ at[r][m] = "list"
  /\ Restart(m)
  /\ UNCHANGED faults

-----------------------------------------------------------------------------
Creator(r, m) == Call(r, m) \/ CallFails(r, m)
Handler(r, m) ==
  \/ CreateSecret(r, m) \/ WriteSecret(r, m) \/ List(r, m)
  \/ CreateMeta(r, m) \/ Encode(r, m)

Next ==
  \/ \E r \in Requests : Abandon(r)
  \/ \E r \in Requests, m \in Members : Creator(r, m) \/ Handler(r, m) \/ Fail(r, m)
  \/ \E m \in Members : Crash(m) \/ MapFault(m)

Spec == Init /\ [][Next]_vars

\* Goroutines are scheduled; nothing has to fail.
Scheduled(r, m) == WF_vars(Creator(r, m)) /\ WF_vars(Handler(r, m))
FairSpec == Spec /\ \A r \in Requests, m \in Members : Scheduled(r, m)

-----------------------------------------------------------------------------
\* Each variable holds what its declaration promises, and a member lists the
\* domains only whose handler has come that far.
TypeOK ==
  /\ id \in [Requests -> Ids]
  /\ todo \in [Requests -> SUBSET Members]
  /\ at \in [Requests -> [Members -> Inside \cup Over \cup {"none", "create"}]]
  /\ secret \in [Members -> Ids \cup {Absent, Torn}]
  /\ meta \in [Members -> Requests \cup {Absent, Torn, Mixed}]
  /\ domainList \in [Members -> SUBSET Ids]
  /\ \A m \in Members : \A i \in domainList[m] : \E r \in Requests :
       id[r] = i /\ at[r][m] \in {"meta", "encode"} \cup Over
  /\ lone \subseteq Requests \X Members
  /\ faults \in 0..MaxFaults

\* A join that ran alone, with none since, leaves secret and meta.json of its domain,
\* whatever crashes and overlapping joins had left there before.
LoneJoinIsWhole ==
  \A r \in Requests, m \in Members :
    <<r, m>> \in lone /\ at[r][m] = "done" => secret[m] = id[r] /\ meta[m] = r

\* A file is torn only while a handler is about to write it or where one was cut
\* short, and mixed only where two handlers wrote it.
DamageHasACause ==
  \A m \in Members :
    /\ secret[m] = Torn => \E r \in Requests : at[r][m] \in {"write", "failed"}
    /\ meta[m] = Torn => \E r \in Requests : at[r][m] \in {"encode", "failed"}
    /\ meta[m] = Mixed => \E q, r \in Requests :
         q # r /\ {at[q][m], at[r][m]} \subseteq {"encode"} \cup Over

Joins(r, m) == <>(at[r][m] \in Over)

\* Every member is called and its handler comes to an end, whichever of the others
\* cannot be reached, unless a fault at that member or of the creator prevents it.
MembersJoin == \A r \in Requests, m \in Members : Joins(r, m)
=============================================================================
