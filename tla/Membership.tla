----------------------------- MODULE Membership -----------------------------
(***************************************************************************)
(* What Node.neighbors promises to the callers of FindNodes, without the   *)
(* topic, its event log, the subscription buffer, the goroutines and the   *)
(* lock: a peer enters the table only if it has announced itself, and it   *)
(* leaves the table only on account of a departure, each departure being   *)
(* good for one removal.                                                   *)
(***************************************************************************)
CONSTANTS Peers, Self

VARIABLES
  announced,    \* peers that have published their NodeInfo at least once
  departed,     \* peers with a departure that no removal answers yet
  known         \* the table

mvars == <<announced, departed, known>>

MInit ==
  /\ announced = {}
  /\ departed = {}
  /\ known = {}

MAnnounce(p) ==
  /\ announced' = announced \cup {p}
  /\ UNCHANGED <<departed, known>>

MDepart(p) ==
  /\ departed' = departed \cup {p}
  /\ UNCHANGED <<announced, known>>

\* The peer is back before anybody looked at its departure.
MDismiss(p) ==
  /\ departed' = departed \ {p}
  /\ UNCHANGED <<announced, known>>

MLearn(p) ==
  /\ p \in announced \ {Self}
  /\ known' = known \cup {p}
  /\ UNCHANGED <<announced, departed>>

MForget(p) ==
  /\ p \in departed
  /\ departed' = departed \ {p}
  /\ known' = known \ {p}
  /\ UNCHANGED announced

MNext ==
  \E p \in Peers :
    MAnnounce(p) \/ MDepart(p) \/ MDismiss(p) \/ MLearn(p) \/ MForget(p)

MSpec == MInit /\ [][MNext]_mvars
=============================================================================
