--------------------------- MODULE MessageChannel ---------------------------
(***************************************************************************)
(* What sender and reader of a stream promise, without bytes, sizes and    *)
(* windows: the callback is given messages that have been sent, each of    *)
(* them once and in their order, and none after the reader has returned.   *)
(***************************************************************************)
EXTENDS Naturals, Sequences

CONSTANT Messages     \* what the sender has to say

VARIABLES
  sent,         \* numbers of the messages that were sent to the last byte
  got,          \* what the callback was given
  returned      \* the reader has returned

cvars == <<sent, got, returned>>

CInit == sent = {} /\ got = <<>> /\ returned = FALSE

\* One write may complete several messages.
CSend(n) ==
  /\ sent \subseteq 1..n
  /\ sent' = 1..n
  /\ UNCHANGED <<got, returned>>

\* Some readers return with their first message.
CDeliver ==
  /\ ~ returned
  /\ Len(got) + 1 \in sent
  /\ got' = Append(got, Messages[Len(got) + 1])
  /\ returned' \in BOOLEAN
  /\ UNCHANGED sent

CReturn ==
  /\ ~ returned
  /\ returned' = TRUE
  /\ UNCHANGED <<sent, got>>

CNext == (\E n \in 1..Len(Messages) : CSend(n)) \/ CDeliver \/ CReturn

CSpec == CInit /\ [][CNext]_cvars
=============================================================================
