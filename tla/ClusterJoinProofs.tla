------------------------- MODULE ClusterJoinProofs --------------------------
(***************************************************************************)
(* For any requests, members and ids and any number of faults: the typing  *)
(* of ClusterJoin, what damaged files come from (DamageHasACause), and     *)
(* that a join that runs alone is whole (LoneJoinIsWhole).  Under the      *)
(* fairness of creators and handlers: all joins end (MembersJoin).         *)
(*                                                                         *)
(* Lone says what such a join has on disk at each of its steps; Written    *)
(* what a meta.json says of the handlers: who wrote it is done.            *)
(***************************************************************************)
EXTENDS ClusterJoin, TLAPS

Positions == Inside \cup Over \cup {"none", "create"}

\* Behind the point where the domain is listed.
Listing == {"meta", "encode"} \cup Over

Written ==
  \A m \in Members, r \in Requests :
    /\ at[r][m] = "encode" => meta[m] # Absent
    /\ meta[m] = r => at[r][m] = "done"

Lone ==
  \A r \in Requests, m \in Members : <<r, m>> \in lone =>
    /\ at[r][m] \in Inside \cup Over
    /\ \A q \in Requests \ {r} : at[q][m] \notin Inside
    /\ at[r][m] \in {"list", "meta", "encode", "done"} => secret[m] = id[r]
    /\ at[r][m] = "encode" => meta[m] = Torn
    /\ at[r][m] = "done" => meta[m] = r

\* The members still to be called are those without a handler: the creator has
\* forgotten nobody.
Uncalled == \A r \in Requests, m \in Members : m \in todo[r] <=> at[r][m] = "none"

IInv == TypeOK /\ DamageHasACause /\ Written /\ Lone /\ Uncalled

-----------------------------------------------------------------------------
LEMMA GotoEffect ==
  ASSUME at \in [Requests -> [Members -> Positions]],
         NEW r \in Requests, NEW m \in Members, NEW pos \in Positions, Goto(r, m, pos)
  PROVE  /\ at' \in [Requests -> [Members -> Positions]]
         /\ at'[r][m] = pos
         /\ \A q \in Requests, n \in Members : q # r \/ n # m => at'[q][n] = at[q][n]
BY DEF Goto

LEMMA IInvInit == Init => IInv
<1> SUFFICES ASSUME Init PROVE IInv
  OBVIOUS
<1>1. TypeOK
  BY FaultsAreCounted DEF Init, TypeOK, Inside, Over
<1>2. DamageHasACause
  BY FilesDiffer DEF Init, DamageHasACause
<1>3. Written /\ Lone /\ Uncalled
  BY FilesDiffer DEF Init, Written, Lone, Uncalled
<1> QED BY <1>1, <1>2, <1>3 DEF IInv

-----------------------------------------------------------------------------
\* What the creator and the faults do to the handlers: one that is not over is cut
\* short or never runs, one that has not begun begins.  The disk stays.
LEMMA HandlersOnly ==
  ASSUME IInv, todo' \in [Requests -> SUBSET Members], faults' \in 0..MaxFaults,
         domainList' \in [Members -> SUBSET Ids],
         \A m \in Members : domainList'[m] \subseteq domainList[m],
         \A r \in Requests : todo'[r] \subseteq todo[r],
         UNCHANGED <<id, secret, meta, lone>>,
         at' \in [Requests -> [Members -> Positions]],
         \A r \in Requests, m \in Members :
           \/ at'[r][m] = at[r][m] /\ (m \in todo[r] => m \in todo'[r])
           \/ at[r][m] \notin Over /\ at'[r][m] = "failed" /\ m \notin todo'[r]
           \/ at[r][m] = "none" /\ at'[r][m] = "create" /\ m \notin todo'[r]
  PROVE  IInv'
<1> USE DEF IInv
<1>1. TypeOK'
  BY DEF TypeOK, Positions, Inside, Over
<1>2. DamageHasACause'
  BY DEF DamageHasACause, Inside, Over
<1>3. Written'
  BY DEF Written, Over
<1>4. Lone'
  <2> SUFFICES ASSUME NEW r \in Requests, NEW m \in Members, <<r, m>> \in lone
               PROVE  /\ at'[r][m] \in Inside \cup Over
                      /\ \A q \in Requests \ {r} : at'[q][m] \notin Inside
                      /\ at'[r][m] \in {"list", "meta", "encode", "done"} => secret[m] = id[r]
                      /\ at'[r][m] = "encode" => meta[m] = Torn
                      /\ at'[r][m] = "done" => meta[m] = r
    BY DEF Lone
  <2> USE DEF Lone, Inside, Over
  <2>1. at'[r][m] \in Inside \cup Over
    OBVIOUS
  <2>2. ASSUME NEW q \in Requests \ {r} PROVE at'[q][m] \notin Inside
    OBVIOUS
  <2>3. at'[r][m] # "failed" => at'[r][m] = at[r][m]
    OBVIOUS
  <2> QED BY <2>1, <2>2, <2>3
<1>5. Uncalled'
  BY DEF Uncalled
<1> QED BY <1>1, <1>2, <1>3, <1>4, <1>5

LEMMA CreatorStep ==
  ASSUME IInv, NEW r \in Requests, NEW m \in Members, Creator(r, m) \/ Fail(r, m)
  PROVE  IInv'
<1> USE DEF Positions, Inside, Over, files
<1>1. at \in [Requests -> [Members -> Positions]] /\ todo \in [Requests -> SUBSET Members]
      /\ domainList \in [Members -> SUBSET Ids] /\ faults \in 0..MaxFaults /\ Uncalled
  BY DEF IInv, TypeOK
<1>2. CASE Call(r, m)
  <2>1. at[r][m] = "none"
    BY <1>1, <1>2 DEF Call, Uncalled
  <2> QED BY <1>1, <1>2, <2>1, HandlersOnly, GotoEffect DEF Call
<1>3. CASE CallFails(r, m)
  <2>1. at[r][m] = "none"
    BY <1>1, <1>3 DEF CallFails, Uncalled
  <2> QED BY <1>1, <1>3, <2>1, HandlersOnly, GotoEffect, FaultsAreCounted DEF CallFails, Fault
<1>4. CASE Fail(r, m)
  <2>1. m \notin todo[r]
    BY <1>1, <1>4 DEF Fail, Uncalled
  <2> QED BY <1>1, <1>4, <2>1, HandlersOnly, GotoEffect, FaultsAreCounted DEF Fail, Fault
<1> QED BY <1>2, <1>3, <1>4 DEF Creator

LEMMA AbandonStep == ASSUME IInv, NEW r \in Requests, Abandon(r) PROVE IInv'
<1> USE DEF Positions, Inside, Over, files, Abandon
<1>1. at \in [Requests -> [Members -> Positions]] /\ todo \in [Requests -> SUBSET Members]
      /\ domainList \in [Members -> SUBSET Ids] /\ faults \in 0..MaxFaults /\ Uncalled
  BY DEF IInv, TypeOK
<1>2. at' \in [Requests -> [Members -> Positions]]
  BY <1>1
<1>3. \A q \in Requests, m \in Members :
        at'[q][m] = IF q = r /\ m \in todo[r] THEN "failed" ELSE at[q][m]
  BY <1>1
<1>4. todo' \in [Requests -> SUBSET Members] /\ faults' \in 0..MaxFaults
  BY <1>1, FaultsAreCounted DEF Fault
<1>5. \A q \in Requests, m \in Members :
        \/ at'[q][m] = at[q][m] /\ (m \in todo[q] => m \in todo'[q])
        \/ at[q][m] \notin Over /\ at'[q][m] = "failed" /\ m \notin todo'[q]
  BY <1>1, <1>3 DEF Uncalled
<1> QED BY <1>1, <1>2, <1>4, <1>5, HandlersOnly

LEMMA RestartStep == ASSUME IInv, NEW m \in Members, Crash(m) \/ MapFault(m) PROVE IInv'
<1> USE DEF Positions, Inside, Over
<1>1. at \in [Requests -> [Members -> Positions]] /\ todo \in [Requests -> SUBSET Members]
      /\ domainList \in [Members -> SUBSET Ids] /\ faults \in 0..MaxFaults /\ Uncalled
  BY DEF IInv, TypeOK
<1>2. Restart(m) /\ faults' \in 0..MaxFaults
  BY <1>1, FaultsAreCounted DEF Crash, MapFault, Fault
<1>3. at' \in [Requests -> [Members -> Positions]]
  BY <1>1, <1>2 DEF Restart
<1>4. \A q \in Requests, n \in Members : at'[q][n] # at[q][n] =>
        at[q][n] \notin Over /\ at'[q][n] = "failed" /\ n \notin todo'[q]
  BY <1>1, <1>2 DEF Restart, Uncalled
<1> QED BY <1>1, <1>2, <1>3, <1>4, HandlersOnly DEF Restart

-----------------------------------------------------------------------------
LEMMA CreateSecretStep ==
  ASSUME IInv, NEW r \in Requests, NEW m \in Members, CreateSecret(r, m) PROVE IInv'
<1> USE DEF IInv, Positions, Inside, Over, CreateSecret
<1>1. /\ at' \in [Requests -> [Members -> Positions]] /\ at'[r][m] = "write"
      /\ \A q \in Requests, n \in Members : q # r \/ n # m => at'[q][n] = at[q][n]
  BY GotoEffect DEF TypeOK
<1>2. secret'[m] = Torn /\ \A n \in Members \ {m} : secret'[n] = secret[n]
  BY DEF TypeOK
<1>3. TypeOK'
  BY <1>1 DEF TypeOK, Begin
<1>4. DamageHasACause'
  BY <1>1, <1>2 DEF DamageHasACause
<1>5. Written' /\ Uncalled'
  BY <1>1 DEF Written, Uncalled
<1>6. Lone'
  <2> SUFFICES ASSUME NEW q \in Requests, NEW n \in Members, <<q, n>> \in lone'
               PROVE  /\ at'[q][n] \in Inside \cup Over
                      /\ \A p \in Requests \ {q} : at'[p][n] \notin Inside
                      /\ at'[q][n] \in {"list", "meta", "encode", "done"} => secret'[n] = id[q]
                      /\ at'[q][n] = "encode" => meta[n] = Torn
                      /\ at'[q][n] = "done" => meta[n] = q
    BY DEF Lone
  <2>1. CASE n = m
    <3>1. q = r /\ \A p \in Requests : at[p][m] \notin Inside
      BY <2>1 DEF Begin
    <3> QED BY <1>1, <2>1, <3>1
  <2>2. CASE n # m
    <3>1. <<q, n>> \in lone
      BY <2>2 DEF Begin
    <3> QED BY <1>1, <1>2, <2>2, <3>1 DEF Lone
  <2> QED BY <2>1, <2>2
<1> QED BY <1>3, <1>4, <1>5, <1>6

\* The steps behind: the handler goes on, no join begins.
LEMMA InsideStep ==
  ASSUME IInv, NEW r \in Requests, NEW m \in Members,
         WriteSecret(r, m) \/ List(r, m) \/ CreateMeta(r, m) \/ Encode(r, m)
  PROVE  IInv'
<1> USE DEF IInv
<1>0. PICK pos \in {"list", "meta", "encode", "done"} : Goto(r, m, pos)
  BY DEF WriteSecret, List, CreateMeta, Encode
<1>1. /\ at' \in [Requests -> [Members -> Positions]] /\ at'[r][m] = pos
      /\ \A q \in Requests, n \in Members : q # r \/ n # m => at'[q][n] = at[q][n]
  BY <1>0, GotoEffect DEF TypeOK, Positions, Inside, Over
<1>2. at[r][m] \in Inside /\ UNCHANGED <<id, todo, lone, faults>>
  BY DEF WriteSecret, List, CreateMeta, Encode, Inside
<1>3. /\ WriteSecret(r, m) => pos = "list" /\ at[r][m] = "write" /\ UNCHANGED <<meta, domainList>>
                              /\ secret' = [secret EXCEPT ![m] = id[r]]
      /\ List(r, m) => pos = "meta" /\ at[r][m] = "list" /\ UNCHANGED <<secret, meta>>
                              /\ domainList' = [domainList EXCEPT ![m] = @ \cup {id[r]}]
      /\ CreateMeta(r, m) => pos = "encode" /\ at[r][m] = "meta" /\ UNCHANGED <<secret, domainList>>
                              /\ meta' = [meta EXCEPT ![m] = Torn]
      /\ Encode(r, m) => pos = "done" /\ at[r][m] = "encode" /\ UNCHANGED <<secret, domainList>>
                              /\ \E new \in {r, Mixed} : meta' = [meta EXCEPT ![m] = new]
  BY <1>0, <1>1, GotoEffect DEF WriteSecret, List, CreateMeta, Encode, TypeOK, Goto
<1>5. Uncalled'
  BY <1>1, <1>2 DEF Uncalled, Inside
<1> USE DEF Positions, Inside, Over
<1>4. ASSUME NEW n \in Members, NEW i \in domainList'[n]
      PROVE  \E q \in Requests : id[q] = i /\ at'[q][n] \in {"meta", "encode", "done", "failed"}
  <2>1. CASE i \in domainList[n]
    <3>1. PICK q \in Requests : id[q] = i /\ at[q][n] \in {"meta", "encode", "done", "failed"}
      BY <2>1 DEF TypeOK
    <3> QED BY <1>1, <1>3, <3>1
  <2>2. CASE i \notin domainList[n]
    <3>1. List(r, m) /\ n = m /\ i = id[r]
      BY <1>3, <1>4, <2>2 DEF TypeOK
    <3> QED BY <1>1, <1>3, <3>1
  <2> QED BY <2>1, <2>2
<1>6. CASE WriteSecret(r, m)
  <2>0. secret'[m] = id[r] /\ \A n \in Members \ {m} : secret'[n] = secret[n]
    BY <1>3, <1>6 DEF TypeOK
  <2>1. TypeOK'
    BY <1>1, <1>2, <1>3, <1>4, <1>6 DEF TypeOK
  <2>2. DamageHasACause'
    <3>1. secret'[m] # Torn
      BY <2>0, FilesDiffer DEF TypeOK
    <3> QED BY <1>1, <1>3, <1>6, <2>0, <3>1 DEF DamageHasACause
  <2>3. Written'
    BY <1>1, <1>3, <1>6 DEF Written
  <2>4. Lone'
    BY <1>1, <1>2, <1>3, <1>6, <2>0 DEF Lone
  <2> QED BY <1>5, <2>1, <2>2, <2>3, <2>4
<1>7. CASE List(r, m)
  <2>1. TypeOK'
    BY <1>1, <1>2, <1>3, <1>4, <1>7 DEF TypeOK
  <2>2. DamageHasACause'
    BY <1>1, <1>3, <1>7 DEF DamageHasACause
  <2>3. Written'
    BY <1>1, <1>3, <1>7 DEF Written
  <2>4. Lone'
    BY <1>1, <1>2, <1>3, <1>7 DEF Lone
  <2> QED BY <1>5, <2>1, <2>2, <2>3, <2>4
<1>8. CASE CreateMeta(r, m)
  <2>0. meta'[m] = Torn /\ \A n \in Members \ {m} : meta'[n] = meta[n]
    BY <1>3, <1>8 DEF TypeOK
  <2>1. TypeOK'
    BY <1>1, <1>2, <1>3, <1>4, <1>8 DEF TypeOK
  <2>2. DamageHasACause'
    BY <1>1, <1>3, <1>8, <2>0, FilesDiffer DEF DamageHasACause
  <2>3. Written'
    BY <1>1, <1>3, <1>8, <2>0, FilesDiffer DEF Written
  <2>4. Lone'
    BY <1>1, <1>2, <1>3, <1>8, <2>0 DEF Lone
  <2> QED BY <1>5, <2>1, <2>2, <2>3, <2>4
<1>9. CASE Encode(r, m)
  <2>0. /\ meta'[m] \in {r, Mixed} /\ \A n \in Members \ {m} : meta'[n] = meta[n]
        /\ meta'[m] = Mixed => meta[m] \notin {Torn, r}
    <3>1. PICK new \in {r} \cup IF meta[m] \in {Torn, r} THEN {} ELSE {Mixed} :
                 meta' = [meta EXCEPT ![m] = new]
      BY <1>9 DEF Encode
    <3>2. new \in {r, Mixed} /\ (meta[m] \in {Torn, r} => new = r)
      BY <3>1
    <3> QED BY <3>1, <3>2, FilesDiffer DEF TypeOK
  <2>1. TypeOK'
    BY <1>1, <1>2, <1>3, <1>4, <1>9 DEF TypeOK
  <2>2. DamageHasACause'
    <3>1. meta'[m] # Torn
      BY <2>0, FilesDiffer
    <3>2. CASE meta'[m] = Mixed
      <4>1. CASE meta[m] = Mixed
        BY <1>1, <1>3, <1>9, <2>0, <3>1, <4>1 DEF DamageHasACause
      <4>2. CASE meta[m] # Mixed
        <5>1. PICK q \in Requests : q # r /\ at[q][m] = "done"
          BY <1>3, <1>9, <2>0, <3>2, <4>2 DEF TypeOK, Written
        <5> QED BY <1>1, <1>3, <1>9, <2>0, <3>1, <5>1 DEF DamageHasACause
      <4> QED BY <4>1, <4>2
    <3>3. CASE meta'[m] # Mixed
      BY <1>1, <1>3, <1>9, <2>0, <3>1, <3>3 DEF DamageHasACause
    <3> QED BY <3>2, <3>3
  <2>3. Written'
    BY <1>1, <1>3, <1>9, <2>0, FilesDiffer DEF Written
  <2>4. Lone'
    BY <1>1, <1>2, <1>3, <1>9, <2>0 DEF Lone
  <2> QED BY <1>5, <2>1, <2>2, <2>3, <2>4
<1> QED BY <1>6, <1>7, <1>8, <1>9

LEMMA IInvNext == IInv /\ [Next]_vars => IInv'
<1>1. ASSUME IInv, UNCHANGED vars PROVE IInv'
  BY <1>1 DEF vars, IInv, TypeOK, DamageHasACause, Written, Lone, Uncalled
<1> QED BY <1>1, AbandonStep, CreatorStep, RestartStep, CreateSecretStep, InsideStep
        DEF Next, Handler

LEMMA IInvAlways == Spec => []IInv
BY IInvInit, IInvNext, PTL DEF Spec

-----------------------------------------------------------------------------
\* InitializeDomainCluster and the handlers of EnableDomainCluster keep their types;
\* domainList has domains whose secret the member was given.
THEOREM TypeCorrect == Spec => []TypeOK
<1>1. IInv => TypeOK
  BY DEF IInv
<1> QED BY <1>1, IInvAlways, PTL

\* However joins overlap and processes die: a join that runs alone leaves the two
\* files of its domain on the member, and they stay until the next one begins.
THEOREM LoneJoinRepairs == Spec => []LoneJoinIsWhole
<1>1. IInv => LoneJoinIsWhole
  BY DEF IInv, Lone, LoneJoinIsWhole
<1> QED BY <1>1, IInvAlways, PTL

\* A file that cannot be read comes from a join that was cut short, or from two
\* that overlapped.
THEOREM DamageIsExplained == Spec => []DamageHasACause
<1>1. IInv => DamageHasACause
  BY DEF IInv
<1> QED BY <1>1, IInvAlways, PTL

-----------------------------------------------------------------------------
\* Where a handler goes from here, if no fault stops it.
Onward == [none |-> "create", create |-> "write", write |-> "list",
           list |-> "meta", meta |-> "encode", encode |-> "done"]

\* Fairness speaks of ENABLED, for which the provers have no rule.  These are the
\* two facts about it that the proof of MembersJoin needs: a goroutine that stands
\* at a step can take it.
GuardsEnable ==
  \A r \in Requests, m \in Members :
    /\ m \in todo[r] => ENABLED <<Creator(r, m)>>_vars
    /\ at[r][m] \in Inside \cup {"create"} => ENABLED <<Handler(r, m)>>_vars

\* A handler stays, goes to the next step or is over, whatever the others do.
LEMMA StayOrOnward ==
  ASSUME IInv, [Next]_vars, NEW r \in Requests, NEW m \in Members, at[r][m] \in DOMAIN Onward
  PROVE  at'[r][m] \in {at[r][m], Onward[at[r][m]]} \cup Over
<1> USE DEF Positions, Inside, Over, Onward
<1>1. at \in [Requests -> [Members -> Positions]] /\ Uncalled
  BY DEF IInv, TypeOK
<1>2. CASE UNCHANGED vars
  BY <1>2 DEF vars
<1>3. ASSUME NEW q \in Requests, NEW n \in Members, Creator(q, n) \/ Fail(q, n) PROVE
        at'[r][m] \in {at[r][m], Onward[at[r][m]]} \cup Over
  BY <1>1, <1>3, GotoEffect DEF Creator, Call, CallFails, Fail, Uncalled
<1>4. ASSUME NEW q \in Requests, NEW n \in Members, Handler(q, n) PROVE
        at'[r][m] \in {at[r][m], Onward[at[r][m]]} \cup Over
  BY <1>1, <1>4, GotoEffect
     DEF Handler, CreateSecret, WriteSecret, List, CreateMeta, Encode
<1>5. ASSUME NEW q \in Requests, Abandon(q) PROVE at'[r][m] \in {at[r][m]} \cup Over
  BY <1>1, <1>5 DEF Abandon
<1>6. ASSUME NEW n \in Members, Crash(n) \/ MapFault(n) PROVE at'[r][m] \in {at[r][m]} \cup Over
  BY <1>1, <1>6 DEF Crash, MapFault, Restart
<1> QED BY <1>2, <1>3, <1>4, <1>5, <1>6 DEF Next

\* Its own steps take it on.
LEMMA OwnStep ==
  ASSUME IInv, NEW r \in Requests, NEW m \in Members, Creator(r, m) \/ Handler(r, m)
  PROVE  at'[r][m] # at[r][m]
<1>1. at \in [Requests -> [Members -> Positions]] /\ Uncalled
  BY DEF IInv, TypeOK, Positions
<1>2. CASE Creator(r, m)
  BY <1>1, <1>2, GotoEffect DEF Creator, Call, CallFails, Uncalled, Positions, Over
<1>3. CASE Handler(r, m)
  BY <1>1, <1>3, GotoEffect
     DEF Handler, CreateSecret, WriteSecret, List, CreateMeta, Encode, Positions, Inside, Over
<1> QED BY <1>2, <1>3

Stands(r, m, pos) == at[r][m] = pos
Ended(r, m) == at[r][m] \in Over

\* For any number of requests and members: under the fairness of FairSpec each member
\* is called and its handler ends.
THEOREM MembersDoJoin == FairSpec /\ []GuardsEnable => MembersJoin
<1>1. ASSUME NEW r \in Requests, NEW m \in Members
      PROVE  FairSpec /\ []GuardsEnable => Joins(r, m)
  <2> DEFINE Waits == Stands(r, m, "none")
             A == Creator(r, m)
             B == Handler(r, m)
  <2>1. Init => Waits
    BY DEF Init, Stands
  <2>2. IInv /\ [Next]_vars => (Waits => (Waits \/ Stands(r, m, "create") \/ Ended(r, m))')
    BY StayOrOnward DEF Stands, Ended, Onward
  <2>3. IInv /\ Waits /\ <<A>>_vars => ~ Waits'
    BY OwnStep DEF Stands
  <2>4. IInv /\ GuardsEnable /\ Waits => ENABLED <<A>>_vars
    BY DEF IInv, Uncalled, GuardsEnable, Stands
  <2>5. IInv /\ [Next]_vars =>
          /\ Stands(r, m, "create") => (Stands(r, m, "create") \/ Stands(r, m, "write") \/ Ended(r, m))'
          /\ Stands(r, m, "write") => (Stands(r, m, "write") \/ Stands(r, m, "list") \/ Ended(r, m))'
          /\ Stands(r, m, "list") => (Stands(r, m, "list") \/ Stands(r, m, "meta") \/ Ended(r, m))'
          /\ Stands(r, m, "meta") => (Stands(r, m, "meta") \/ Stands(r, m, "encode") \/ Ended(r, m))'
          /\ Stands(r, m, "encode") => (Stands(r, m, "encode") \/ Ended(r, m))'
    BY StayOrOnward DEF Stands, Ended, Onward, Over
  <2>6. IInv /\ <<B>>_vars =>
          /\ Stands(r, m, "create") => ~ Stands(r, m, "create")'
          /\ Stands(r, m, "write") => ~ Stands(r, m, "write")'
          /\ Stands(r, m, "list") => ~ Stands(r, m, "list")'
          /\ Stands(r, m, "meta") => ~ Stands(r, m, "meta")'
          /\ Stands(r, m, "encode") => ~ Stands(r, m, "encode")'
    BY OwnStep DEF Stands
  <2>7. /\ GuardsEnable
        /\ \/ Stands(r, m, "create") \/ Stands(r, m, "write") \/ Stands(r, m, "list")
           \/ Stands(r, m, "meta") \/ Stands(r, m, "encode")
        => ENABLED <<B>>_vars
    BY DEF GuardsEnable, Stands, Inside
  <2>8. FairSpec => Spec /\ Scheduled(r, m)
    BY DEF FairSpec
  <2>9. FairSpec => WF_vars(A) /\ WF_vars(B) /\ []IInv /\ [][Next]_vars
    BY <2>8, IInvAlways, PTL DEF Scheduled, Spec
  <2>10. FairSpec => Waits
    BY <2>1, <2>8, PTL DEF Spec
  <2>11. Joins(r, m) <=> <>Ended(r, m)
    BY PTL DEF Joins, Ended
  <2> QED BY <2>2, <2>3, <2>4, <2>5, <2>6, <2>7, <2>9, <2>10, <2>11, PTL
<1> QED BY <1>1 DEF MembersJoin
=============================================================================
