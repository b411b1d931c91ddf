------------------------- MODULE PeerIdentityProofs -------------------------
(***************************************************************************)
(* What PeerIdentity promises for any number of callers, keys and crashes: *)
(* typing and the permanence of a settled key file.  And what it promises  *)
(* only where no two callers find the file missing at a time: the key that *)
(* a call returns is the one on disk.  Under the fairness of the callers:  *)
(* a key that is saved will be returned.                                   *)
(***************************************************************************)
EXTENDS PeerIdentity, TLAPS

USE DEF Labels

-----------------------------------------------------------------------------
\* InitPeerIdentity keeps its files and its local variables in their types,
\* whatever the callers, the interleaving and the crashes.
LEMMA TypeInit == Init => TypeOK
<1> SUFFICES ASSUME Init PROVE TypeOK
  OBVIOUS
<1>1. raced \in BOOLEAN
  BY DEF Init
<1> QED BY <1>1, MaxCrashesIsNat DEF Init, TypeOK

LEMMA TypeNext == TypeOK /\ [Next]_vars => TypeOK'
<1> SUFFICES ASSUME TypeOK, [Next]_vars PROVE TypeOK'
  OBVIOUS
<1> USE SentinelsAreNoKeys DEF TypeOK, Go
<1>1. CASE Crash
  BY <1>1, MaxCrashesIsNat DEF Crash, Die
<1>2. ASSUME NEW c \in Callers, Work(c) PROVE TypeOK'
  <2>1. CASE OpenMissing(c)
    BY <2>1 DEF OpenMissing, Generate
  <2>2. CASE OpenPresent(c)
    BY <2>2 DEF OpenPresent
  <2>3. CASE Create(c)
    BY <2>3 DEF Create
  <2>4. CASE Write(c)
    BY <2>4 DEF Write
  <2>5. CASE Mark(c)
    BY <2>5 DEF Mark, Return
  <2>6. CASE ReadKey(c)
    BY <2>6 DEF ReadKey, Return
  <2>7. CASE ReadUnreadable(c)
    BY <2>7 DEF ReadUnreadable, Die
  <2> QED BY <1>2, <2>1, <2>2, <2>3, <2>4, <2>5, <2>6, <2>7 DEF Work
<1>3. CASE UNCHANGED vars
  BY <1>3 DEF vars
<1> QED BY <1>1, <1>2, <1>3 DEF Next

THEOREM TypeCorrect == Spec => []TypeOK
  BY TypeInit, TypeNext, PTL DEF Spec

-----------------------------------------------------------------------------
LEMMA SettledStays ==
  ASSUME TypeOK, [Next]_vars, Settled
  PROVE  Settled' /\ keyFile' = keyFile
<1> USE SentinelsAreNoKeys DEF TypeOK, Settled, Go
<1>1. CASE Crash
  BY <1>1 DEF Crash, Die
<1>2. ASSUME NEW c \in Callers, Work(c) PROVE Settled' /\ keyFile' = keyFile
  <2>1. ~ (OpenMissing(c) \/ Create(c) \/ Write(c))
    BY DEF OpenMissing, Create, Write
  <2>2. CASE OpenPresent(c)
    BY <2>2 DEF OpenPresent
  <2>3. CASE Mark(c)
    BY <2>3 DEF Mark, Return
  <2>4. CASE ReadKey(c)
    BY <2>4 DEF ReadKey, Return
  <2>5. CASE ReadUnreadable(c)
    BY <2>5 DEF ReadUnreadable, Die
  <2> QED BY <1>2, <2>1, <2>2, <2>3, <2>4, <2>5 DEF Work
<1>3. CASE UNCHANGED vars
  BY <1>3 DEF vars
<1> QED BY <1>1, <1>2, <1>3 DEF Next

\* A settled key file, good or torn, is never changed again by any later call
\* of InitPeerIdentity in this process or in a later one.
THEOREM SettledForever == Spec => SettledIsFinal
<1>1. TypeOK /\ [Next]_vars => [Settled => Settled' /\ keyFile' = keyFile]_vars
  BY SettledStays
<1> QED BY <1>1, TypeCorrect, PTL DEF Spec, SettledIsFinal

-----------------------------------------------------------------------------
\* At most one caller is between the generation of a key and its write; nothing
\* has been issued by then, and from the write on the file holds that key.
OneWriter ==
  \A c, d \in Callers : {pc[c], pc[d]} \subseteq {"create", "write"} => c = d

KeyInHand ==
  \A c \in Callers :
    /\ pc[c] = "create" => keyFile = Absent
    /\ pc[c] = "write" => keyFile = Unreadable
    /\ pc[c] = "mark" => keyFile = priv[c]

Unraced == ~ raced => OneWriter /\ KeyInHand /\ IssuedIsSaved

SavedBeforeIssued == TypeOK /\ Unraced

LEMMA SavedBeforeIssuedNext ==
  SavedBeforeIssued /\ [Next]_vars => SavedBeforeIssued'
<1> SUFFICES ASSUME TypeOK, OneWriter, KeyInHand, IssuedIsSaved, [Next]_vars, ~ raced'
             PROVE  OneWriter' /\ KeyInHand' /\ IssuedIsSaved'
  <2>1. raced => raced' \/ ~ [Next]_vars
    BY DEF Next, vars, Crash, Die, Work, OpenMissing, Generate, OpenPresent, Create, Write,
           Mark, ReadKey, ReadUnreadable
  <2> QED BY <2>1, TypeNext DEF SavedBeforeIssued, Unraced
<1> USE SentinelsAreNoKeys DEF TypeOK, OneWriter, KeyInHand, IssuedIsSaved, Go
<1>1. CASE Crash
  BY <1>1 DEF Crash, Die
<1>2. ASSUME NEW c \in Callers, Work(c) PROVE OneWriter' /\ KeyInHand' /\ IssuedIsSaved'
  <2>1. CASE OpenMissing(c)
    BY <2>1 DEF OpenMissing, Generate
  <2>2. CASE OpenPresent(c)
    BY <2>2 DEF OpenPresent
  <2>3. CASE Create(c)
    BY <2>3 DEF Create
  <2>4. CASE Write(c)
    BY <2>4 DEF Write
  <2>5. CASE Mark(c)
    BY <2>5 DEF Mark, Return
  <2>6. CASE ReadKey(c)
    BY <2>6 DEF ReadKey, Return
  <2>7. CASE ReadUnreadable(c)
    BY <2>7 DEF ReadUnreadable, Die
  <2> QED BY <1>2, <2>1, <2>2, <2>3, <2>4, <2>5, <2>6, <2>7 DEF Work
<1>3. CASE UNCHANGED vars
  BY <1>3 DEF vars
<1> QED BY <1>1, <1>2, <1>3 DEF Next

LEMMA SavedBeforeIssuedAlways == Spec => []SavedBeforeIssued
<1>1. Init => SavedBeforeIssued
  BY TypeInit DEF Init, SavedBeforeIssued, Unraced, OneWriter, KeyInHand, IssuedIsSaved
<1> QED BY <1>1, SavedBeforeIssuedNext, PTL DEF Spec

\* An identity that InitPeerIdentity has returned, in any run of the process, is
\* the one on disk, unless two callers found the file missing at a time.
THEOREM UnracedIdentityIsSaved == Spec => []UnracedIsSaved
<1>1. SavedBeforeIssued => UnracedIsSaved
  BY DEF SavedBeforeIssued, Unraced, UnracedIsSaved
<1> QED BY <1>1, SavedBeforeIssuedAlways, PTL

-----------------------------------------------------------------------------
\* The node's own identity: NewNode is the only caller on its path.
Alone == \A c, d \in Callers : c = d

\* A node keeps its peer id over crashes and restarts.
THEOREM LoneIdentityIsSaved ==
  ASSUME Alone
  PROVE  Spec => []IssuedIsSaved
<1>1. Init => ~ raced
  BY DEF Init
<1>2. ~ raced /\ [Next]_vars => ~ raced'
  BY DEF Alone, Next, vars, Crash, Die, Work, OpenMissing, Generate, OpenPresent, Create,
         Write, Mark, ReadKey, ReadUnreadable
<1>3. ~ raced /\ UnracedIsSaved => IssuedIsSaved
  BY DEF UnracedIsSaved
<1> QED BY <1>1, <1>2, <1>3, UnracedIdentityIsSaved, PTL DEF Spec

-----------------------------------------------------------------------------
\* Fairness speaks of ENABLED, for which the provers have no rule.  This is the fact
\* about it that the proof of SavedIsIssued needs: no step in the way of a key that
\* is on disk waits for anything.
GuardsEnable ==
  \A c \in Callers :
    \/ pc[c] = "idle" /\ keyFile # Absent
    \/ pc[c] = "mark"
    \/ pc[c] = "read" /\ keyFile \in Keys
    => ENABLED <<Work(c)>>_vars

\* What MaxCrashes is there for, without the number: the process is killed for the
\* last time.
KillsEnd == <>[][UNCHANGED crashes]_vars

On(c, k, label) == Settled /\ keyFile = k /\ pc[c] = label
Out(k) == k \in issued

LEMMA OwnPace ==
  ASSUME TypeOK, NEW c \in Callers, NEW k \in Keys, Settled, keyFile = k, [Next]_vars
  PROVE  /\ pc[c] = "mark" => pc'[c] \in {"mark", "idle"}
         /\ pc[c] = "idle" => pc'[c] \in {"idle", "read"}
         /\ pc[c] = "read" /\ UNCHANGED crashes => pc'[c] = "read" \/ k \in issued'
         /\ Work(c) /\ pc[c] = "read" => k \in issued'
         /\ Work(c) => pc'[c] # pc[c]
<1> USE SentinelsAreNoKeys DEF TypeOK, Settled, Go
<1>1. CASE Crash
  <2>1. crashes' # crashes
    BY <1>1 DEF Crash
  <2>2. pc'[c] = "idle"
    BY <1>1 DEF Crash, Die
  <2>3. ~ Work(c)
    BY <2>1 DEF Work, OpenMissing, Generate, OpenPresent, Create, Write, Mark, ReadKey,
                ReadUnreadable
  <2> QED BY <2>1, <2>2, <2>3
<1>2. ASSUME NEW d \in Callers, Work(d)
      PROVE  IF d # c THEN pc'[c] = pc[c]
             ELSE \/ pc[c] = "mark" /\ pc'[c] = "idle"
                  \/ pc[c] = "idle" /\ pc'[c] = "read"
                  \/ pc[c] = "read" /\ pc'[c] = "idle" /\ k \in issued'
  <2>1. ~ (OpenMissing(d) \/ Create(d) \/ Write(d) \/ ReadUnreadable(d))
    BY DEF OpenMissing, Create, Write, ReadUnreadable
  <2>2. CASE OpenPresent(d)
    BY <2>2 DEF OpenPresent
  <2>3. CASE Mark(d)
    BY <2>3 DEF Mark, Return
  <2>4. CASE ReadKey(d)
    BY <2>4 DEF ReadKey, Return
  <2> QED BY <1>2, <2>1, <2>2, <2>3, <2>4 DEF Work
<1>3. CASE UNCHANGED vars
  <2>1. ASSUME Work(c) PROVE FALSE
    BY <1>2, <1>3, <2>1 DEF vars
  <2> QED BY <1>3, <2>1 DEF vars
<1>4. CASE \E d \in Callers : Work(d)
  <2>1. PICK d \in Callers : Work(d)
    BY <1>4
  <2>2. CASE d = c
    BY <1>2, <2>1, <2>2
  <2>3. CASE d # c
    <3>1. pc'[c] = pc[c]
      BY <1>2, <2>1, <2>3
    <3>2. ~ Work(c)
      BY <1>2, <3>1
    <3> QED BY <3>1, <3>2
  <2> QED BY <2>2, <2>3
<1> QED BY <1>1, <1>3, <1>4 DEF Next

LEMMA CallerIssues ==
  ASSUME NEW c \in Callers, NEW k \in Keys
  PROVE  FairSpec /\ []GuardsEnable /\ KillsEnd => Issues(k)
<1>1. TypeOK /\ Settled /\ keyFile = k => On(c, k, "mark") \/ On(c, k, "idle") \/ On(c, k, "read")
  BY DEF TypeOK, Settled, On
<1>2. TypeOK /\ [Next]_vars =>
        /\ On(c, k, "mark") => (On(c, k, "mark") \/ On(c, k, "idle"))'
        /\ On(c, k, "idle") => (On(c, k, "idle") \/ On(c, k, "read"))'
        /\ On(c, k, "read") => (On(c, k, "read") \/ On(c, k, "idle") \/ Out(k))'
  <2> SUFFICES ASSUME TypeOK, [Next]_vars, Settled, keyFile = k
               PROVE  /\ pc[c] = "mark" => pc'[c] \in {"mark", "idle"}
                      /\ pc[c] = "idle" => pc'[c] \in {"idle", "read"}
                      /\ pc[c] = "read" => pc'[c] \in {"read", "idle"}
    BY SettledStays DEF On
  <2>1. pc[c] = "read" => pc'[c] \in {"read", "idle"}
    <3> SUFFICES ASSUME pc[c] = "read" PROVE pc'[c] \in {"read", "idle"}
      OBVIOUS
    <3> USE SentinelsAreNoKeys DEF TypeOK, Go
    <3>1. CASE Crash \/ UNCHANGED vars
      BY <3>1 DEF Crash, Die, vars
    <3>2. ASSUME NEW d \in Callers, Work(d) PROVE pc'[c] \in {"read", "idle"}
      BY <3>2 DEF Work, OpenMissing, Generate, OpenPresent, Create, Write, Mark, Return,
                  ReadKey, ReadUnreadable, Die
    <3> QED BY <3>1, <3>2 DEF Next
  <2> QED BY <2>1, OwnPace
<1>3. TypeOK /\ [Next]_vars /\ [UNCHANGED crashes]_vars =>
        (On(c, k, "read") => (On(c, k, "read") \/ Out(k))')
  <2>1. [UNCHANGED crashes]_vars => UNCHANGED crashes
    BY DEF vars
  <2> QED BY <2>1, OwnPace, SettledStays DEF On, Out
<1>4. TypeOK /\ [Next]_vars /\ <<Work(c)>>_vars =>
        /\ On(c, k, "mark") => ~ On(c, k, "mark")'
        /\ On(c, k, "idle") => ~ On(c, k, "idle")'
        /\ On(c, k, "read") => Out(k)'
  BY OwnPace DEF On, Out
<1>5. GuardsEnable /\ (On(c, k, "mark") \/ On(c, k, "idle") \/ On(c, k, "read"))
        => ENABLED <<Work(c)>>_vars
  BY DEF GuardsEnable, On, Settled
<1>6. FairSpec => Spec /\ Scheduled(c)
  BY DEF FairSpec
<1>7. FairSpec => WF_vars(Work(c)) /\ [][Next]_vars /\ []TypeOK
  BY <1>6, TypeCorrect, PTL DEF Spec, Scheduled
<1> QED BY <1>1, <1>2, <1>3, <1>4, <1>5, <1>7, PTL DEF KillsEnd, Issues, Out

\* For any number of callers and keys: once the process is no longer killed, an
\* identity that was saved is handed out.
THEOREM SavedWillBeIssued == FairSpec /\ []GuardsEnable /\ KillsEnd => SavedIsIssued
<1> DEFINE Nobody == Callers = {} /\ keyFile = Absent
<1>1. ASSUME NEW k \in Keys PROVE FairSpec /\ []GuardsEnable /\ KillsEnd => Issues(k)
  <2>1. FairSpec /\ Callers = {} => Issues(k)
    <3>1. Init /\ Callers = {} => Nobody
      BY DEF Init
    <3>2. Nobody /\ [Next]_vars => Nobody'
      BY DEF Next, Crash, Die, vars
    <3>3. Nobody => ~ (Settled /\ keyFile = k)
      BY DEF Settled
    <3>4. FairSpec => Spec
      BY DEF FairSpec
    <3> HIDE DEF Nobody
    <3> QED BY <3>1, <3>2, <3>3, <3>4, PTL DEF Spec, Issues
  <2>2. CASE Callers # {}
    BY <2>2, CallerIssues
  <2> QED BY <2>1, <2>2
<1> QED BY <1>1 DEF SavedIsIssued
=============================================================================
