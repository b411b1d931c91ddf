------------------------- MODULE MessageStreamProofs -------------------------
(***************************************************************************)
(* For messages of any number and length, and a stream that cuts them into *)
(* any pieces: the reader stays in step with the sender, both implement    *)
(* MessageChannel, neither waits for the other, and all arrives.           *)
(***************************************************************************)
EXTENDS MessageStream, WellFoundedInduction, TLAPS

\* The message that the reader is in, or about to begin.
Current == Len(handled) + 1

\* Where the reader is in the current message.
InStep ==
  /\ WholeInOrder
  /\ phase # "end" => base = Start[Current] /\ result = "none"
  /\ phase = "size" => have < SizeLen /\ consumed = base + have
  /\ phase = "content" =>
       /\ Current <= N /\ need = Size[Current]
       /\ have < need /\ consumed = base + SizeLen + have
  /\ phase = "call" => Current <= N /\ consumed = base + SizeLen + Size[Current]
  /\ once => /\ phase # "end" => handled = <<>>
             /\ phase = "end" => consumed <= Start[2]

IInv == TypeOK /\ InStep /\ NilDropsSizeOnly

-----------------------------------------------------------------------------
\* Induction: a set of numbers that has an element has a least one.
LEMMA LeastElement ==
  ASSUME NEW T, T \subseteq Nat, T # {}
  PROVE  \E n \in T : \A m \in T : n <= m
<1> DEFINE R == OpToRel(<, Nat)
<1>1. IsWellFoundedOn(R, Nat)
  BY NatLessThanWellFounded
<1> HIDE DEF R
<1>2. PICK n \in T : \A m \in T : <<m, n>> \notin R
  BY <1>1, WFMin
<1>3. ASSUME NEW m \in T, m < n PROVE FALSE
  <2>1. <<m, n>> \in Nat \X Nat
    OBVIOUS
  <2>2. <<m, n>> \in R
    BY <1>3, <2>1 DEF R, OpToRel
  <2> QED BY <1>2, <2>2
<1> QED BY <1>2, <1>3

\* f says where the first n messages start.
Follows(f, n) ==
  f[1] = 0 /\ \A i \in 1..n : i < n => f[i + 1] = f[i] + SizeLen + Size[i]

\* Message after message, there is such a function.
LEMMA StartExists == \E f \in [1..(N + 1) -> Nat] : Follows(f, N + 1)
<1> DEFINE T == {n \in 1..(N + 1) : ~ \E f \in [1..n -> Nat] : Follows(f, n)}
<1>1. N \in Nat \ {0} /\ SizeLen \in Nat /\ Size \in [1..N -> Nat]
  BY LengthsArePositive
<1>2. ASSUME NEW n \in T, \A m \in T : n <= m PROVE FALSE
  <2>1. CASE n = 1
    <3>1. [i \in 1..n |-> 0] \in [1..n -> Nat] /\ Follows([i \in 1..n |-> 0], n)
      BY <2>1 DEF Follows
    <3> QED BY <3>1
  <2>2. CASE n # 1
    <3>1. n \in 1..(N + 1) /\ n - 1 \in 1..N /\ n - 1 \in 1..(N + 1) /\ n - 1 < n
      BY <1>1, <2>2
    <3>2. n - 1 \notin T
      <4> HIDE DEF T
      <4> QED BY <1>2, <3>1
    <3>3. PICK f \in [1..(n - 1) -> Nat] : Follows(f, n - 1)
      BY <3>1, <3>2
    <3> DEFINE g == [i \in 1..n |->
                       IF i = n THEN f[n - 1] + SizeLen + Size[n - 1] ELSE f[i]]
    <3>4. ASSUME NEW i \in 1..n PROVE g[i] \in Nat
      <4>1. CASE i = n
        <5>1. Size[n - 1] \in Nat /\ f[n - 1] \in Nat
          BY <1>1, <3>1
        <5> QED BY <1>1, <4>1, <5>1
      <4>2. CASE i # n
        <5>1. i \in 1..(n - 1)
          BY <3>1, <4>2
        <5> QED BY <4>2, <5>1
      <4> QED BY <4>1, <4>2
    <3>5. g[1] = 0
      BY <2>2, <3>1, <3>3 DEF Follows
    <3>6. ASSUME NEW i \in 1..n, i < n PROVE g[i + 1] = g[i] + SizeLen + Size[i]
      <4>1. CASE i + 1 = n
        BY <3>1, <3>6, <4>1
      <4>2. CASE i + 1 < n
        BY <3>1, <3>3, <3>6, <4>2 DEF Follows
      <4> QED BY <3>1, <3>6, <4>1, <4>2
    <3>7. g \in [1..n -> Nat] /\ Follows(g, n)
      BY <3>4, <3>5, <3>6 DEF Follows
    <3> QED BY <3>1, <3>7
  <2> QED BY <2>1, <2>2
<1>3. T = {}
  <2>1. T \subseteq Nat
    BY <1>1
  <2> HIDE DEF T
  <2> QED BY <1>2, <2>1, LeastElement
<1>4. N + 1 \notin T
  <2> HIDE DEF T
  <2> QED BY <1>3
<1>5. N + 1 \in 1..(N + 1)
  BY <1>1
<1> QED BY <1>4, <1>5

\* The recursive definition defines what it says.
LEMMA StartFollowsSizes ==
  /\ Start \in [1..(N + 1) -> Nat]
  /\ Start[1] = 0
  /\ \A i \in 1..N : Start[i + 1] = Start[i] + SizeLen + Size[i]
<1> DEFINE Def(f) == f = [i \in 1..(N + 1) |->
                            IF i = 1 THEN 0 ELSE f[i - 1] + SizeLen + Size[i - 1]]
<1>1. N \in Nat \ {0} /\ SizeLen \in Nat /\ Size \in [1..N -> Nat]
  BY LengthsArePositive
<1>2. PICK f \in [1..(N + 1) -> Nat] : Follows(f, N + 1)
  BY StartExists
<1>3. Def(f)
  <2> SUFFICES ASSUME NEW i \in 1..(N + 1), i # 1
               PROVE  f[i] = f[i - 1] + SizeLen + Size[i - 1]
    BY <1>2 DEF Follows
  <2>1. i - 1 \in 1..(N + 1) /\ i - 1 < N + 1 /\ (i - 1) + 1 = i
    BY <1>1
  <2> QED BY <1>2, <2>1 DEF Follows
<1>4. Start = CHOOSE g : Def(g)
  BY DEF Start
<1> HIDE DEF Def
<1>5. Def(Start)
  BY <1>3, <1>4
<1> USE DEF Def
<1>6. DOMAIN Start = 1..(N + 1) /\ Start[1] = 0
  BY <1>1, <1>5
<1>7. ASSUME NEW i \in 1..N PROVE Start[i + 1] = Start[i] + SizeLen + Size[i]
  <2>1. i + 1 \in 1..(N + 1) /\ i + 1 # 1 /\ (i + 1) - 1 = i
    BY <1>1
  <2> QED BY <1>5, <2>1
<1>8. ASSUME NEW i \in 1..(N + 1) PROVE Start[i] \in Nat
  <2> DEFINE T == {n \in 1..(N + 1) : Start[n] \notin Nat}
  <2>1. ASSUME NEW n \in T, \A m \in T : n <= m PROVE FALSE
    <3>1. n \in 1..(N + 1) /\ n # 1 /\ n - 1 \in 1..N /\ n - 1 \in 1..(N + 1) /\ n - 1 < n
      BY <1>1, <1>6
    <3>2. n - 1 \notin T
      <4> HIDE DEF T
      <4> QED BY <2>1, <3>1
    <3>3. Start[n - 1] \in Nat /\ Size[n - 1] \in Nat /\ (n - 1) + 1 = n
      BY <1>1, <3>1, <3>2
    <3>4. Start[n] = Start[n - 1] + SizeLen + Size[n - 1]
      BY <1>7, <3>1, <3>3
    <3> QED BY <1>1, <3>3, <3>4
  <2>2. T \subseteq Nat
    BY <1>1
  <2>3. T = {}
    <3> HIDE DEF T
    <3> QED BY <2>1, <2>2, LeastElement
  <2> QED BY <2>3
<1> QED BY <1>5, <1>6, <1>7, <1>8

\* A message starts behind those before it.
LEMMA StartsGrow ==
  ASSUME NEW i \in 1..(N + 1), NEW j \in 1..(N + 1), i < j
  PROVE  Start[i] < Start[j]
<1> DEFINE T == {n \in 1..(N + 1) : i < n /\ ~ (Start[i] < Start[n])}
<1>1. N \in Nat \ {0} /\ SizeLen \in Nat /\ Size \in [1..N -> Nat \ {0}]
  BY LengthsArePositive
<1>2. ASSUME NEW n \in T, \A m \in T : n <= m PROVE FALSE
  <2>1. n - 1 \in 1..N /\ n - 1 \in 1..(N + 1) /\ n - 1 < n /\ (n - 1) + 1 = n /\ i <= n - 1
    BY <1>1
  <2>2. n - 1 \notin T
    <3> HIDE DEF T
    <3> QED BY <1>2, <2>1
  <2>3. /\ Start[n] = Start[n - 1] + SizeLen + Size[n - 1] /\ Size[n - 1] \in Nat \ {0}
        /\ Start[n - 1] \in Nat /\ Start[i] \in Nat
    BY <1>1, <2>1, StartFollowsSizes
  <2>4. Start[i] <= Start[n - 1]
    <3>1. CASE i = n - 1
      BY <2>3, <3>1
    <3>2. CASE i < n - 1
      BY <2>1, <2>2, <2>3, <3>2
    <3> QED BY <1>1, <2>1, <3>1, <3>2
  <2> QED BY <1>1, <2>3, <2>4
<1>3. T \subseteq Nat
  BY <1>1
<1>4. T = {}
  <2> HIDE DEF T
  <2> QED BY <1>2, <1>3, LeastElement
<1> QED BY <1>4

\* What the assumptions say of the message that the reader is in.
LEMMA Bounds ==
  /\ N \in Nat \ {0} /\ SizeLen \in Nat \ {0} /\ Window \in Nat \ {0}
  /\ Onces \subseteq BOOLEAN
  /\ Total \in Nat \ {0} /\ Start[1] = 0 /\ Start[N + 1] = Total
<1>1. /\ N \in Nat \ {0} /\ SizeLen \in Nat \ {0} /\ Window \in Nat \ {0}
      /\ Onces \subseteq BOOLEAN
  BY LengthsArePositive
<1>2. 1 \in 1..(N + 1) /\ N + 1 \in 1..(N + 1) /\ 1 < N + 1
  BY <1>1
<1>3. Start[1] = 0 /\ Start[N + 1] \in Nat /\ Start[1] < Start[N + 1]
  BY <1>2, StartFollowsSizes, StartsGrow
<1>4. Total \in Nat \ {0}
  BY <1>3 DEF Total
<1> QED BY <1>1, <1>3, <1>4 DEF Total

LEMMA MessageBounds ==
  ASSUME NEW i \in 1..N
  PROVE  /\ Start[i] \in Nat /\ Size[i] \in Nat \ {0}
         /\ Start[i + 1] = Start[i] + SizeLen + Size[i]
         /\ Start[i + 1] \in Nat /\ Start[i + 1] <= Total
<1>1. i \in 1..(N + 1) /\ i + 1 \in 1..(N + 1) /\ N + 1 \in 1..(N + 1)
  BY Bounds
<1>2. Start[i] \in Nat /\ Start[i + 1] \in Nat /\ Start[N + 1] \in Nat
  BY <1>1, StartFollowsSizes
<1>3. Size[i] \in Nat \ {0}
  BY LengthsArePositive
<1>4. Start[i + 1] = Start[i] + SizeLen + Size[i]
  BY StartFollowsSizes
<1>5. Start[i + 1] <= Start[N + 1]
  <2>1. CASE i + 1 < N + 1
    BY <1>1, <1>2, <2>1, StartsGrow
  <2>2. CASE i + 1 = N + 1
    BY <1>2, <2>2
  <2> QED BY <1>1, <2>1, <2>2, Bounds
<1> QED BY <1>2, <1>3, <1>4, <1>5 DEF Total

\* A message starts behind all that came before.
LEMMA NoMoreThanTotal ==
  ASSUME NEW i \in 1..(N + 1) PROVE Start[i] \in Nat /\ Start[i] <= Total
<1>1. CASE i \in 1..N
  BY <1>1, MessageBounds, Bounds
<1>2. CASE i = N + 1
  BY <1>2, Bounds
<1> QED BY <1>1, <1>2, Bounds

LEMMA CurrentBounds ==
  ASSUME TypeOK, WholeInOrder
  PROVE  /\ Len(handled) \in Nat /\ Current \in 1..(N + 1)
         /\ Current <= N => Current \in 1..N
         /\ Start[Current] \in Nat /\ Start[Current] <= Total
<1>1. Len(handled) \in Nat
  BY DEF TypeOK
<1>2. Current \in 1..(N + 1) /\ (Current <= N => Current \in 1..N)
  BY <1>1, Bounds DEF WholeInOrder, Current
<1> QED BY <1>1, <1>2, NoMoreThanTotal

-----------------------------------------------------------------------------
LEMMA IInvInit == Init => IInv
<1> SUFFICES ASSUME Init PROVE IInv
  OBVIOUS
<1>1. Len(handled) = 0 /\ handled \in Seq(Nat)
  BY DEF Init
<1>2. TypeOK
  <2>1. written \in 0..Total /\ consumed \in 0..written /\ written <= consumed + Window
    BY Bounds DEF Init
  <2>2. phase \in {"size", "content", "call", "end"} /\ result \in {"none", "nil", "error"}
    BY DEF Init
  <2>3. closed \in BOOLEAN /\ broken \in BOOLEAN /\ disturbed \in BOOLEAN
        /\ have \in Nat /\ need \in Nat /\ base \in Nat
    BY DEF Init
  <2>4. once \in BOOLEAN
    BY Bounds DEF Init
  <2> QED BY <1>1, <2>1, <2>2, <2>3, <2>4 DEF TypeOK
<1>3. WholeInOrder
  BY <1>1, Bounds DEF WholeInOrder
<1>4. InStep
  BY <1>1, <1>3, Bounds DEF Init, InStep, Current
<1>5. NilDropsSizeOnly
  BY DEF Init, NilDropsSizeOnly
<1> QED BY <1>2, <1>4, <1>5 DEF IInv

\* The sender and the stream do not touch the reader.
LEMMA SendStep ==
  ASSUME IInv, UNCHANGED <<once, reader>>,
         written' \in 0..Total, written <= written', written' <= consumed + Window,
         closed' \in BOOLEAN, broken' \in BOOLEAN, disturbed' \in BOOLEAN,
         closed => closed' /\ written' = written
  PROVE  IInv'
<1>1. TypeOK'
  BY Bounds DEF IInv, TypeOK, reader
<1>2. WholeInOrder'
  BY DEF IInv, InStep, WholeInOrder, reader
<1>3. InStep'
  BY <1>2 DEF IInv, InStep, Current, reader
<1>4. NilDropsSizeOnly'
  BY DEF IInv, NilDropsSizeOnly, reader
<1> QED BY <1>1, <1>3, <1>4 DEF IInv

LEMMA ReadSizeStep ==
  ASSUME IInv, NEW k \in 1..Total, ReadSize(k)
  PROVE  IInv'
<1>1. /\ phase = "size" /\ consumed' = consumed + k /\ consumed + k <= written
      /\ UNCHANGED <<once, written, closed, broken, handled, result, disturbed, base>>
      /\ consumed = base + have /\ base = Start[Current] /\ have + k <= SizeLen
      /\ result = "none"
  BY DEF ReadSize, Take, Available, IInv, InStep, writer
<1>2. k \in Nat \ {0} /\ have \in Nat /\ base \in Nat /\ consumed \in Nat
      /\ written \in Nat /\ written <= Total
  BY Bounds DEF IInv, TypeOK
<1>3. Current \in 1..N
  <2>1. Current \in 1..(N + 1)
    BY CurrentBounds DEF IInv, InStep
  <2>2. ASSUME Current = N + 1 PROVE FALSE
    <3>1. base = Total
      BY <1>1, <2>2, Bounds
    <3> QED BY <1>1, <1>2, <3>1, Bounds
  <2> QED BY <2>1, <2>2, Bounds
<1>4. WholeInOrder'
  BY <1>1 DEF IInv, InStep, WholeInOrder
<1>5. Current' = Current
  BY <1>1 DEF Current
<1>6. NilDropsSizeOnly'
  BY <1>1 DEF NilDropsSizeOnly
<1>7. Size[Current] \in Nat \ {0} /\ Size[Current] \in 1..Total
  BY <1>3, MessageBounds, Bounds
<1>8. consumed' \in 0..written' /\ written' <= consumed' + Window
  <2>1. written <= consumed + Window
    BY DEF IInv, TypeOK
  <2> QED BY <1>1, <1>2, <2>1, Bounds
<1>9. once => handled' = <<>>
  BY <1>1 DEF IInv, InStep
<1>10. CASE have + k < SizeLen
  <2>1. have' = have + k /\ phase' = "size" /\ need' = need
    BY <1>1, <1>2, <1>10, Bounds DEF ReadSize
  <2>2. TypeOK'
    BY <1>1, <1>2, <1>8, <2>1 DEF IInv, TypeOK
  <2>3. InStep'
    BY <1>1, <1>2, <1>4, <1>5, <1>9, <1>10, <2>1, Bounds DEF InStep
  <2> QED BY <1>6, <2>2, <2>3 DEF IInv
<1>11. CASE have + k = SizeLen
  <2>1. phase' = "content" /\ have' = 0 /\ need' \in SizeAt(base)
    BY <1>11, <1>2, Bounds DEF ReadSize
  <2>2. need' = Size[Current]
    BY <1>1, <1>3, <2>1 DEF SizeAt
  <2>3. TypeOK'
    BY <1>1, <1>2, <1>7, <1>8, <2>1, <2>2 DEF IInv, TypeOK
  <2>4. consumed' = base + SizeLen
    BY <1>1, <1>2, <1>11, Bounds
  <2>5. /\ base' = Start[Current'] /\ result' = "none" /\ Current' <= N
        /\ need' = Size[Current'] /\ have' < need' /\ consumed' = base' + SizeLen + have'
    BY <1>1, <1>2, <1>3, <1>5, <1>7, <2>1, <2>2, <2>4, Bounds
  <2>6. once' = once
    BY <1>1
  <2>7. InStep'
    BY <1>4, <1>9, <2>1, <2>5, <2>6 DEF InStep
  <2> QED BY <1>6, <2>3, <2>7 DEF IInv
<1> QED BY <1>1, <1>2, <1>10, <1>11, Bounds

LEMMA ReadContentStep ==
  ASSUME IInv, NEW k \in 1..Total, ReadContent(k)
  PROVE  IInv'
<1>1. /\ phase = "content" /\ consumed' = consumed + k /\ consumed + k <= written
      /\ have' = have + k /\ have + k <= need
      /\ phase' = IF have + k = need THEN "call" ELSE "content"
      /\ UNCHANGED <<once, written, closed, broken, handled, result, disturbed, need, base>>
  BY DEF ReadContent, Take, Available, writer
<1>2. /\ Current <= N /\ need = Size[Current] /\ consumed = base + SizeLen + have
      /\ base = Start[Current] /\ result = "none"
  BY <1>1 DEF IInv, InStep
<1>3. k \in Nat \ {0} /\ have \in Nat /\ base \in Nat /\ consumed \in Nat
      /\ written \in Nat /\ written <= Total /\ need \in Nat
  BY Bounds DEF IInv, TypeOK
<1>4. consumed' \in 0..written' /\ written' <= consumed' + Window
  BY <1>1, <1>3, Bounds DEF IInv, TypeOK
<1>5. TypeOK'
  BY <1>1, <1>3, <1>4 DEF IInv, TypeOK
<1>6. WholeInOrder'
  BY <1>1 DEF IInv, InStep, WholeInOrder
<1>7. Current' = Current /\ (once => handled' = <<>>)
  BY <1>1 DEF Current, IInv, InStep
<1>8. InStep'
  <2>1. CASE have + k = need
    <3>1. consumed' = base + SizeLen + need
      BY <1>1, <1>2, <1>3, <2>1, Bounds
    <3> QED BY <1>1, <1>2, <1>6, <1>7, <2>1, <3>1 DEF InStep
  <2>2. CASE have + k # need
    <3>1. have' < need /\ consumed' = base + SizeLen + have'
      BY <1>1, <1>2, <1>3, <2>2, Bounds
    <3> QED BY <1>1, <1>2, <1>6, <1>7, <2>2, <3>1 DEF InStep
  <2> QED BY <2>1, <2>2
<1>9. NilDropsSizeOnly'
  BY <1>1, <1>2 DEF NilDropsSizeOnly
<1> QED BY <1>5, <1>8, <1>9 DEF IInv

LEMMA CallStep == ASSUME IInv, Call PROVE IInv'
<1>1. /\ phase = "call" /\ handled' = Append(handled, base)
      /\ UNCHANGED <<once, written, closed, broken, consumed, need, disturbed>>
      /\ base = Start[Current] /\ Current <= N /\ result = "none"
      /\ consumed = base + SizeLen + Size[Current]
      /\ once => handled = <<>>
  BY DEF Call, Return, IInv, InStep, writer
<1>2. handled \in Seq(Nat) /\ base \in Nat /\ consumed \in Nat
  BY Bounds DEF IInv, TypeOK
<1>3. /\ Len(handled') = Len(handled) + 1 /\ handled' \in Seq(Nat)
      /\ handled'[Len(handled) + 1] = base
      /\ \A i \in 1..Len(handled) : handled'[i] = handled[i]
      /\ Len(handled) \in Nat
  BY <1>1, <1>2
<1>4. Current \in 1..N
  BY <1>1, CurrentBounds DEF IInv, InStep
<1>5. WholeInOrder'
  BY <1>1, <1>3, <1>4, Bounds DEF IInv, InStep, WholeInOrder, Current
<1>6. consumed = Start[Current'] /\ Current' = Current + 1
  <2>1. Current' = Current + 1
    BY <1>3 DEF Current
  <2>2. Start[Current + 1] = Start[Current] + SizeLen + Size[Current]
    BY <1>4, MessageBounds
  <2> QED BY <1>1, <2>1, <2>2
<1>7. CASE once
  <2>1. phase' = "end" /\ result' = "nil" /\ have' = have /\ base' = base
    BY <1>7, Bounds DEF Call, Return
  <2>2. TypeOK'
    BY <1>1, <1>3, <2>1 DEF IInv, TypeOK
  <2>3. consumed = Start[2]
    <3>1. Len(handled) = 0
      BY <1>1, <1>7
    <3>2. Current' = 2
      BY <1>6, <3>1 DEF Current
    <3> QED BY <1>6, <3>2
  <2>4. consumed' <= Start[2]
    BY <1>1, <1>2, <2>3
  <2>5. InStep'
    BY <1>5, <1>7, <2>1, <2>4 DEF InStep
  <2>6. NilDropsSizeOnly'
    BY <1>1, <1>7 DEF NilDropsSizeOnly
  <2> QED BY <2>2, <2>5, <2>6 DEF IInv
<1>8. CASE ~ once
  <2>1. phase' = "size" /\ result' = "none" /\ have' = 0 /\ base' = consumed
    BY <1>1, <1>8 DEF Call
  <2>2. TypeOK'
    BY <1>1, <1>2, <1>3, <2>1 DEF IInv, TypeOK
  <2>3. InStep'
    BY <1>1, <1>2, <1>5, <1>6, <1>8, <2>1, Bounds DEF InStep
  <2>4. NilDropsSizeOnly'
    BY <2>1 DEF NilDropsSizeOnly
  <2> QED BY <2>2, <2>3, <2>4 DEF IInv
<1> QED BY <1>7, <1>8

\* A reader that ends, of whatever it ends.
LEMMA EndStep ==
  ASSUME IInv, EndOfStream \/ ReadFails \/ CallFails
  PROVE  IInv'
<1>1. /\ phase # "end" /\ phase' = "end" /\ result' \in {"nil", "error"}
      /\ UNCHANGED <<once, written, closed, broken, consumed, have, need, base, handled>>
      /\ disturbed' \in BOOLEAN
  BY DEF EndOfStream, ReadFails, CallFails, Return, Reading, writer, IInv, TypeOK
<1>2. TypeOK'
  BY <1>1 DEF IInv, TypeOK
<1>3. WholeInOrder'
  BY <1>1 DEF IInv, InStep, WholeInOrder
<1>4. /\ base = Start[Current] /\ Len(handled) \in Nat /\ Current \in 1..(N + 1)
      /\ base \in Nat /\ have \in Nat /\ Current = Len(handled) + 1
      /\ Current <= N => Current \in 1..N
  BY <1>1, CurrentBounds DEF IInv, InStep, TypeOK, Current
<1>5. once => consumed <= Start[2]
  <2> SUFFICES ASSUME once PROVE consumed <= Start[2]
    OBVIOUS
  <2>1. Current = 1
    <3>1. handled = <<>>
      BY <1>1 DEF IInv, InStep
    <3> QED BY <3>1 DEF Current
  <2>2. 1 \in 1..N /\ Start[2] = SizeLen + Size[1] /\ Size[1] \in Nat \ {0} /\ base = 0
    BY <1>4, <2>1, MessageBounds, Bounds
  <2>3. phase \in {"size", "content", "call"} /\ consumed \in Nat
    BY <1>1, Bounds DEF IInv, TypeOK
  <2> QED BY <1>4, <2>1, <2>2, <2>3, Bounds DEF IInv, InStep
<1>6. InStep'
  BY <1>1, <1>3, <1>5 DEF InStep
<1>7. NilDropsSizeOnly'
  <2> SUFFICES ASSUME result' = "nil", ~ once PROVE NilDropsSizeOnly'
    BY <1>1 DEF NilDropsSizeOnly
  <2>1. closed /\ consumed = written /\ have = 0 /\ phase \in {"size", "content"}
    BY DEF EndOfStream, ReadFails, CallFails, Return, Reading, AtEnd
  <2>2. written \in {base, base + SizeLen}
    BY <1>4, <2>1, Bounds DEF IInv, InStep
  <2>3. Len(handled) < N + 1
    BY <1>4, Bounds
  <2> QED BY <1>1, <1>4, <2>1, <2>2, <2>3 DEF NilDropsSizeOnly
<1> QED BY <1>2, <1>6, <1>7 DEF IInv

LEMMA IInvNext == IInv /\ [Next]_vars => IInv'
<1> SUFFICES ASSUME IInv, [Next]_vars PROVE IInv'
  OBVIOUS
<1>1. CASE UNCHANGED vars
  BY <1>1, SendStep, Bounds DEF vars, writer, IInv, TypeOK
<1>2. ASSUME NEW k \in 1..Total, Write(k) PROVE IInv'
  BY <1>2, SendStep, Bounds DEF Write, IInv, TypeOK
<1>3. CASE Close
  BY <1>3, SendStep, Bounds DEF Close, IInv, TypeOK
<1>4. CASE CloseEarly
  BY <1>4, SendStep, Bounds DEF CloseEarly, IInv, TypeOK
<1>5. CASE Reset
  BY <1>5, SendStep, Bounds DEF Reset, IInv, TypeOK, writer
<1> QED BY <1>1, <1>2, <1>3, <1>4, <1>5, ReadSizeStep, ReadContentStep, CallStep, EndStep
        DEF Next, Send, Receive

LEMMA IInvAlways == Spec => []IInv
  BY IInvInit, IInvNext, PTL DEF Spec

-----------------------------------------------------------------------------
\* Reader and sender keep their places on the stream.
THEOREM TypeCorrect == Spec => []TypeOK
<1>1. IInv => TypeOK
  BY DEF IInv
<1> QED BY <1>1, IInvAlways, PTL

\* io.ReadFull keeps the loops of frame.go, job.go and domain_data.go in step with
\* the messages, wherever the stream cuts them.
THEOREM MessagesWholeInOrder == Spec => []WholeInOrder
<1>1. IInv => WholeInOrder
  BY DEF IInv, InStep
<1> QED BY <1>1, IInvAlways, PTL

\* What a looping reader reports as the end of the stream is one, but for a size
\* that no content followed.
THEOREM NilIsAlmostAnEnd == Spec => []NilDropsSizeOnly
<1>1. IInv => NilDropsSizeOnly
  BY DEF IInv
<1> QED BY <1>1, IInvAlways, PTL

\* A reader that returns after one message takes nothing behind it.
THEOREM OnceIsOnce == Spec => []OnceTakesOne
<1>1. IInv => OnceTakesOne
  <2> SUFFICES ASSUME IInv, once PROVE consumed <= Start[2] /\ written <= Start[2] + Window
    BY DEF OnceTakesOne
  <2>1. Start[1 + 1] \in Nat /\ 1 + 1 = 2
    BY MessageBounds, Bounds
  <2>2. consumed <= Start[2]
    <3>1. CASE phase = "end"
      BY <3>1 DEF IInv, InStep
    <3>2. CASE phase # "end"
      <4>1. Current = 1 /\ Start[1] = 0 /\ base = 0
        BY <3>2, Bounds DEF IInv, InStep, Current
      <4>2. Start[2] = SizeLen + Size[1] /\ Size[1] \in Nat \ {0}
        BY <4>1, MessageBounds, Bounds
      <4> QED BY <3>2, <4>1, <4>2, Bounds DEF IInv, InStep, TypeOK
    <3> QED BY <3>1, <3>2
  <2> QED BY <2>1, <2>2, Bounds DEF IInv, TypeOK
<1> QED BY <1>1, IInvAlways, PTL

-----------------------------------------------------------------------------
\* What was written to the last byte are the first messages.
LEMMA CompleteIsPrefix ==
  ASSUME NEW w \in Nat, {i \in 1..N : Start[i + 1] <= w} # {}
  PROVE  \E n \in 1..N : {i \in 1..N : Start[i + 1] <= w} = 1..n
<1> DEFINE T == {i \in 1..N : w < Start[i + 1]}
<1>1. ASSUME NEW i \in 1..N PROVE Start[i + 1] \in Nat /\ i + 1 \in 1..(N + 1)
  BY <1>1, MessageBounds, Bounds
<1>2. CASE T = {}
  <2>1. {i \in 1..N : Start[i + 1] <= w} = 1..N
    BY <1>1, <1>2
  <2> QED BY <2>1, Bounds
<1>3. CASE T # {}
  <2>1. T \subseteq Nat
    BY Bounds
  <2>2. PICK m \in T : \A i \in T : m <= i
    <3> HIDE DEF T
    <3> QED BY <1>3, <2>1, LeastElement
  <2>3. m \in 1..N /\ w < Start[m + 1] /\ Start[m + 1] \in Nat
    BY <1>1, <2>2
  <2>4. ASSUME NEW i \in 1..N PROVE Start[i + 1] <= w <=> i < m
    <3>1. CASE i < m
      <4>1. i \notin T
        <5> HIDE DEF T
        <5> QED BY <2>2, <2>3, <3>1, Bounds
      <4> QED BY <1>1, <3>1, <4>1
    <3>2. CASE i = m
      BY <2>3, <3>2, Bounds
    <3>3. CASE m < i
      <4>1. i + 1 \in 1..(N + 1) /\ m + 1 \in 1..(N + 1) /\ m + 1 < i + 1
        BY <2>3, <3>3, Bounds
      <4>2. Start[m + 1] < Start[i + 1]
        BY <4>1, StartsGrow
      <4> QED BY <1>1, <2>3, <3>3, <4>2, Bounds
    <3> QED BY <2>3, <3>1, <3>2, <3>3, Bounds
  <2>5. {i \in 1..N : Start[i + 1] <= w} = 1..(m - 1)
    BY <2>3, <2>4, Bounds
  <2>6. m - 1 \in 1..N
    BY <2>3, <2>5, Bounds
  <2> QED BY <2>5, <2>6
<1> QED BY <1>2, <1>3

\* The sender's steps complete messages, or none.
LEMMA SendImplements ==
  ASSUME IInv, UNCHANGED <<once, reader>>,
         written' \in 0..Total, written <= written'
  PROVE  [Channel!CNext]_(Channel!cvars)
<1>1. UNCHANGED <<handled, phase>>
  BY DEF reader
<1>2. written \in Nat /\ written' \in Nat
  BY Bounds DEF IInv, TypeOK
<1>3. Complete \subseteq Complete'
  <2>1. ASSUME NEW i \in 1..N, Start[i + 1] <= written PROVE Start[i + 1] <= written'
    BY <1>2, <2>1, MessageBounds
  <2> QED BY <2>1 DEF Complete
<1>4. CASE Complete' = {}
  BY <1>1, <1>3, <1>4 DEF Channel!cvars
<1>5. CASE Complete' # {}
  <2>1. PICK n \in 1..N : Complete' = 1..n
    BY <1>2, <1>5, CompleteIsPrefix DEF Complete
  <2>2. Channel!CSend(n)
    BY <1>1, <1>3, <2>1 DEF Channel!CSend
  <2>3. n \in 1..Len([i \in 1..N |-> Start[i]])
    BY Bounds
  <2> QED BY <2>2, <2>3 DEF Channel!CNext
<1> QED BY <1>4, <1>5

LEMMA CallImplements == ASSUME IInv, Call PROVE Channel!CDeliver
<1>1. /\ phase = "call" /\ handled' = Append(handled, base) /\ written' = written
      /\ base = Start[Current] /\ Current <= N
      /\ consumed = base + SizeLen + Size[Current]
  BY DEF Call, Return, writer, IInv, InStep
<1>2. Current \in 1..N /\ Current = Len(handled) + 1
  BY <1>1, CurrentBounds DEF IInv, InStep, Current
<1>3. Start[Current + 1] <= written
  <2>1. Start[Current + 1] = consumed
    BY <1>1, <1>2, MessageBounds
  <2> QED BY <2>1, Bounds DEF IInv, TypeOK
<1>4. Len(handled) + 1 \in Complete /\ Complete' = Complete
  BY <1>1, <1>2, <1>3 DEF Complete
<1>5. [i \in 1..N |-> Start[i]][Len(handled) + 1] = base
  BY <1>1, <1>2
<1> QED BY <1>1, <1>4, <1>5 DEF Channel!CDeliver

\* Bytes that are read are nobody's message yet.
LEMMA ReadImplements ==
  ASSUME IInv, NEW k \in 1..Total, ReadSize(k) \/ ReadContent(k)
  PROVE  UNCHANGED Channel!cvars
<1>1. /\ phase \in {"size", "content"} /\ phase' \in {"size", "content", "call"}
      /\ UNCHANGED <<written, handled>>
  BY DEF ReadSize, ReadContent, Take, writer
<1> QED BY <1>1 DEF Channel!cvars, Complete

LEMMA EndImplements ==
  ASSUME IInv, EndOfStream \/ ReadFails \/ CallFails
  PROVE  Channel!CReturn
<1>1. phase # "end" /\ phase' = "end" /\ UNCHANGED <<written, handled>>
  BY DEF EndOfStream, ReadFails, CallFails, Return, Reading, writer
<1> QED BY <1>1 DEF Channel!CReturn, Complete

LEMMA NextImplements == IInv /\ [Next]_vars => [Channel!CNext]_(Channel!cvars)
<1> SUFFICES ASSUME IInv, [Next]_vars PROVE [Channel!CNext]_(Channel!cvars)
  OBVIOUS
<1>1. CASE UNCHANGED vars
  BY <1>1 DEF vars, writer, reader, Channel!cvars, Complete
<1>2. ASSUME NEW k \in 1..Total, Write(k) PROVE [Channel!CNext]_(Channel!cvars)
  BY <1>2, SendImplements, Bounds DEF Write, IInv, TypeOK
<1>3. CASE Close \/ CloseEarly \/ Reset
  BY <1>3, SendImplements, Bounds DEF Close, CloseEarly, Reset, writer, IInv, TypeOK
<1>4. CASE Call
  BY <1>4, CallImplements DEF Channel!CNext
<1>5. CASE EndOfStream \/ ReadFails \/ CallFails
  BY <1>5, EndImplements DEF Channel!CNext
<1> QED BY <1>1, <1>2, <1>3, <1>4, <1>5, ReadImplements DEF Next, Send, Receive

\* For any number and lengths of messages and any cut of the bytes: the stream and
\* its reader behave like a channel of messages.
THEOREM StreamIsAChannel == Spec => ImplementsChannel
<1>1. Init => Channel!CInit
  <2>1. ASSUME Init, NEW i \in 1..N PROVE ~ (Start[i + 1] <= written)
    <3>1. /\ Start[i] \in Nat /\ Size[i] \in Nat \ {0}
          /\ Start[i + 1] = Start[i] + SizeLen + Size[i]
      BY MessageBounds
    <3> QED BY <2>1, <3>1, Bounds DEF Init
  <2> QED BY <2>1 DEF Init, Channel!CInit, Complete
<1> QED BY <1>1, NextImplements, IInvAlways, PTL DEF Spec, ImplementsChannel, Channel!CSpec

-----------------------------------------------------------------------------
\* Who can go on: the sender when the stream has room, or nothing is left to send;
\* the reader when there is something to read, to handle or to find at its end.
CanSend == ~ closed /\ ~ broken /\ (written = Total \/ written < consumed + Window)
CanReceive == phase = "call" \/ (Reading /\ (broken \/ closed \/ consumed < written))

\* Fairness speaks of ENABLED, for which the provers have no rule.  This is the fact
\* about it that the proof of AllArrive needs: neither of the two waits for more.
GuardsEnable ==
  /\ CanSend => ENABLED <<Send>>_vars
  /\ CanReceive => ENABLED <<Receive>>_vars

\* What is not disturbed does not end before its time.
Calm ==
  ~ disturbed =>
    /\ ~ broken
    /\ closed => written = Total
    /\ ~ once /\ phase = "end" => Arrived

\* All the bytes are read: so are all the messages.
LEMMA AllReadIsAllHandled ==
  ASSUME IInv, Reading, consumed = Total
  PROVE  Arrived
<1>1. /\ base = Start[Current] /\ Len(handled) \in Nat /\ Current = Len(handled) + 1
      /\ Current \in 1..(N + 1) /\ (Current <= N => Current \in 1..N)
      /\ have \in Nat /\ base \in Nat
  BY CurrentBounds DEF IInv, InStep, TypeOK, Reading, Current
<1>2. CASE Current \in 1..N
  <2>1. /\ Size[Current] \in Nat \ {0} /\ base + SizeLen + Size[Current] <= Total
        /\ base + SizeLen + Size[Current] \in Nat
    BY <1>1, <1>2, MessageBounds
  <2>2. consumed < base + SizeLen + Size[Current]
    <3>1. CASE phase = "size"
      BY <1>1, <2>1, <3>1, Bounds DEF IInv, InStep
    <3>2. CASE phase = "content"
      BY <1>1, <2>1, <3>2, Bounds DEF IInv, InStep
    <3> QED BY <3>1, <3>2 DEF Reading
  <2> QED BY <2>1, <2>2, Bounds
<1>3. CASE Current = N + 1
  BY <1>1, <1>3, Bounds DEF Arrived
<1> QED BY <1>1, <1>2, <1>3, Bounds

LEMMA CalmNext == IInv /\ Calm /\ [Next]_vars => Calm'
<1> SUFFICES ASSUME IInv, Calm, [Next]_vars, ~ disturbed'
             PROVE  /\ ~ broken'
                    /\ closed' => written' = Total
                    /\ ~ once' /\ phase' = "end" => Arrived'
  BY DEF Calm
<1>1. CASE UNCHANGED vars
  BY <1>1 DEF vars, writer, reader, Calm, Arrived
<1>2. ASSUME NEW k \in 1..Total, Write(k)
      PROVE  ~ broken' /\ ~ closed' /\ (~ once' /\ phase' = "end" => Arrived')
  BY <1>2 DEF Write, reader, Calm, Arrived
<1>3. CASE Close
  BY <1>3 DEF Close, reader, Calm, Arrived
<1>4. CASE CloseEarly \/ Reset \/ CallFails
  BY <1>4 DEF CloseEarly, Reset, CallFails
<1>5. ASSUME NEW k \in 1..Total, ReadSize(k) \/ ReadContent(k)
      PROVE  UNCHANGED <<closed, written, broken, disturbed>> /\ phase' # "end"
  BY <1>5 DEF ReadSize, ReadContent, Take, writer
<1>6. CASE Call
  <2>1. UNCHANGED <<closed, written, broken, disturbed, once>> /\ (~ once => phase' = "size")
    BY <1>6 DEF Call, Return, writer
  <2> QED BY <2>1 DEF Calm
<1>7. CASE EndOfStream
  <2>1. /\ UNCHANGED <<closed, written, broken, disturbed, handled>>
        /\ Reading /\ closed /\ consumed = written
    BY <1>7 DEF EndOfStream, Return, AtEnd, writer
  <2>2. Arrived
    BY <2>1, AllReadIsAllHandled DEF Calm
  <2> QED BY <2>1, <2>2 DEF Calm, Arrived
<1>8. CASE ReadFails
  BY <1>8 DEF ReadFails, Calm
<1> QED BY <1>1, <1>2, <1>3, <1>4, <1>5, <1>6, <1>7, <1>8 DEF Next, Send, Receive, Calm

LEMMA CalmAlways == Spec => []Calm
<1>1. Init => Calm
  BY DEF Init, Calm
<1> QED BY <1>1, CalmNext, IInvAlways, PTL DEF Spec

\* However small the window and however long the messages, sender and reader never
\* wait for each other: until all is handled one of them can go on.
LEMMA OneCanGoOn ==
  IInv /\ Calm /\ ~ disturbed /\ ~ once /\ ~ Arrived => CanSend \/ CanReceive
<1> SUFFICES ASSUME IInv, Calm, ~ disturbed, ~ once, ~ Arrived, ~ CanReceive PROVE CanSend
  OBVIOUS
<1>1. /\ written \in 0..Total /\ consumed \in 0..written
      /\ phase \in {"size", "content", "call", "end"}
  BY DEF IInv, TypeOK
<1>2. Reading /\ ~ closed /\ consumed = written /\ ~ broken
  BY <1>1, Bounds DEF CanReceive, Reading, Calm
<1> QED BY <1>1, <1>2, Bounds DEF CanSend

\* However small the window and however long the messages, sender and reader never
\* wait for each other: until every message is handled one of them can go on.
THEOREM NeitherWaits == Spec => [](~ disturbed /\ ~ once /\ ~ Arrived => CanSend \/ CanReceive)
BY OneCanGoOn, IInvAlways, CalmAlways, PTL

-----------------------------------------------------------------------------
\* How far sender and reader have come.
Progress == written + consumed + Len(handled) + (IF closed THEN 1 ELSE 0)
Most == Total + Total + N + 1

At(n) == Progress >= n
Comes(n) == <>At(n)

LEMMA ProgressBound == IInv => Progress \in Nat /\ Progress <= Most
<1> SUFFICES ASSUME IInv PROVE Progress \in Nat /\ Progress <= Most
  OBVIOUS
<1>1. /\ written \in 0..Total /\ consumed \in 0..written
      /\ Len(handled) \in Nat /\ Len(handled) <= N
  BY DEF IInv, InStep, TypeOK, WholeInOrder
<1> QED BY <1>1, Bounds DEF Progress, Most

LEMMA ProgressLater == IInv /\ [Next]_vars => Progress' \in Nat
<1>1. IInv' => (Progress \in Nat)'
  BY ProgressBound, PTL
<1> QED BY <1>1, IInvNext

\* No step sets them back, and their own take them on.
LEMMA StepsGoOn ==
  ASSUME IInv, [Next]_vars
  PROVE  /\ Progress' >= Progress
         /\ Send => Progress' > Progress
         /\ Receive => Progress' > Progress \/ phase' = "end"
<1> DEFINE Forward == Progress' > Progress
<1>1. /\ written \in Nat /\ consumed \in Nat /\ Len(handled) \in Nat /\ handled \in Seq(Nat)
      /\ closed \in BOOLEAN /\ base \in Nat
  BY Bounds DEF IInv, TypeOK
<1>2. ASSUME NEW k \in 1..Total, Write(k) PROVE Forward
  <2>1. written' = written + k /\ UNCHANGED <<consumed, handled, closed>>
    BY <1>2 DEF Write, reader
  <2> QED BY <1>1, <2>1, Bounds DEF Progress
<1>3. ASSUME Close \/ CloseEarly PROVE Forward
  <2>1. ~ closed /\ closed' /\ UNCHANGED <<written, consumed, handled>>
    BY <1>3 DEF Close, CloseEarly, reader
  <2> QED BY <1>1, <2>1 DEF Progress
<1>4. ASSUME NEW k \in 1..Total, ReadSize(k) \/ ReadContent(k) PROVE Forward
  <2>1. consumed' = consumed + k /\ UNCHANGED <<written, handled, closed>>
    BY <1>4 DEF ReadSize, ReadContent, Take, writer
  <2> QED BY <1>1, <2>1, Bounds DEF Progress
<1>5. ASSUME Call PROVE Forward
  <2>1. handled' = Append(handled, base) /\ UNCHANGED <<written, consumed, closed>>
    BY <1>5 DEF Call, Return, writer
  <2>2. Len(handled') = Len(handled) + 1
    BY <1>1, <2>1
  <2> QED BY <1>1, <2>1, <2>2 DEF Progress
<1>6. ASSUME EndOfStream \/ ReadFails PROVE phase' = "end"
  BY <1>6 DEF EndOfStream, ReadFails, Return
<1>7. ASSUME EndOfStream \/ ReadFails \/ CallFails \/ Reset \/ UNCHANGED vars
      PROVE  Progress' = Progress
  BY <1>7 DEF EndOfStream, ReadFails, CallFails, Return, Reset, vars, writer, reader, Progress
<1>8. Progress \in Nat /\ Progress' \in Nat
  BY ProgressLater, ProgressBound
<1> HIDE DEF Forward
<1>9. Forward => Progress' >= Progress
  BY <1>8 DEF Forward
<1>10. Progress' >= Progress
  BY <1>2, <1>3, <1>4, <1>5, <1>7, <1>8, <1>9 DEF Next, Send, Receive
<1>11. (Send => Forward) /\ (Receive => Forward \/ phase' = "end")
  BY <1>2, <1>3, <1>4, <1>5, <1>6 DEF Send, Receive
<1> QED BY <1>10, <1>11 DEF Forward

\* A turn, once it has come, stays until it is taken.
LEMMA TurnStays ==
  ASSUME IInv, Calm, [Next]_vars, ~ disturbed'
  PROVE  /\ CanSend => CanSend' \/ Progress' > Progress
         /\ CanReceive => CanReceive' \/ Progress' > Progress \/ phase' = "end"
<1>1. /\ written \in Nat /\ consumed \in Nat /\ written <= Total
  BY Bounds DEF IInv, TypeOK
<1>2. Progress \in Nat /\ Progress' >= Progress
  BY ProgressBound, StepsGoOn
<1>3. ASSUME CanSend, ~ Send PROVE CanSend'
  <2>1. ASSUME NEW k \in 1..Total, ReadSize(k) \/ ReadContent(k) PROVE CanSend'
    BY <1>1, <1>3, <2>1, Bounds DEF ReadSize, ReadContent, Take, writer, CanSend
  <2>2. CASE Call \/ EndOfStream \/ ReadFails \/ UNCHANGED vars
    <3>1. UNCHANGED <<written, closed, broken, consumed>>
      BY <2>2 DEF Call, EndOfStream, ReadFails, Return, vars, writer, reader
    <3> QED BY <1>3, <3>1 DEF CanSend
  <2>3. ~ (CloseEarly \/ Reset \/ CallFails)
    BY DEF CloseEarly, Reset, CallFails
  <2> QED BY <1>3, <2>1, <2>2, <2>3 DEF Next, Receive
<1>4. ASSUME CanReceive, ~ Receive PROVE CanReceive'
  <2>1. ASSUME NEW k \in 1..Total, Write(k) PROVE CanReceive'
    BY <1>1, <1>4, <2>1, Bounds DEF Write, reader, CanReceive, Reading
  <2>2. CASE Close
    BY <1>4, <2>2 DEF Close, reader, CanReceive, Reading
  <2>3. CASE UNCHANGED vars
    BY <1>4, <2>3 DEF vars, writer, reader, CanReceive, Reading
  <2>4. ~ (CloseEarly \/ Reset \/ CallFails)
    BY DEF CloseEarly, Reset, CallFails
  <2> QED BY <1>4, <2>1, <2>2, <2>3, <2>4 DEF Next, Send
<1> QED BY <1>3, <1>4, StepsGoOn

-----------------------------------------------------------------------------
\* Induction once more: marks that start at 0 and are bounded have a last one.
LEMMA LastMark ==
  ASSUME NEW T \in SUBSET Nat, NEW most \in Nat, 0 \in T, \A n \in T : n <= most
  PROVE  \E n \in T : n + 1 \notin T
<1> SUFFICES ASSUME \A n \in T : n + 1 \in T PROVE FALSE
  OBVIOUS
<1> DEFINE Missing == {n \in Nat : n \notin T}
<1>1. most + 1 \in Missing
  OBVIOUS
<1>2. ASSUME NEW n \in Missing, \A m \in Missing : n <= m PROVE FALSE
  <2>1. n # 0 /\ n - 1 \in Nat /\ (n - 1) + 1 = n
    OBVIOUS
  <2>2. n - 1 \notin Missing
    <3>1. n \in Nat
      OBVIOUS
    <3> HIDE DEF Missing
    <3> QED BY <1>2, <2>1, <3>1
  <2> QED BY <2>1, <2>2
<1>3. Missing \subseteq Nat
  OBVIOUS
<1> HIDE DEF Missing
<1> QED BY <1>1, <1>2, <1>3, LeastElement

\* What disturbs nothing, and is not over.
Busy == ~ disturbed /\ ~ once /\ ~ Arrived

\* While messages are missing, sender and reader come from every mark to the next.
LEMMA MarkToMark ==
  ASSUME NEW n \in Nat
  PROVE  FairSpec /\ []GuardsEnable /\ []Busy /\ Comes(n) => Comes(n + 1)
<1>1. IInv /\ Calm /\ Busy => CanSend \/ CanReceive
  BY OneCanGoOn DEF Busy
<1>2. IInv /\ Calm /\ [Next]_vars /\ Calm' /\ Busy' /\ At(n) =>
        /\ At(n)'
        /\ Send \/ Receive => At(n + 1)'
        /\ CanSend => CanSend' \/ At(n + 1)'
        /\ CanReceive => CanReceive' \/ At(n + 1)'
  <2> SUFFICES ASSUME IInv, Calm, [Next]_vars, Calm', Busy', At(n)
               PROVE  /\ At(n)'
                      /\ Send \/ Receive => At(n + 1)'
                      /\ CanSend => CanSend' \/ At(n + 1)'
                      /\ CanReceive => CanReceive' \/ At(n + 1)'
    OBVIOUS
  <2>1. Progress \in Nat /\ Progress' \in Nat /\ Progress' >= Progress
    BY ProgressBound, ProgressLater, StepsGoOn
  <2>2. Progress' > Progress => At(n + 1)'
    BY <2>1 DEF At
  <2>3. phase' # "end" /\ ~ disturbed'
    BY DEF Calm, Busy
  <2> QED BY <2>1, <2>2, <2>3, StepsGoOn, TurnStays DEF At
<1>3. GuardsEnable => (CanSend => ENABLED <<Send>>_vars) /\ (CanReceive => ENABLED <<Receive>>_vars)
  BY DEF GuardsEnable
<1>4. <<Send>>_vars => Send
  OBVIOUS
<1>5. <<Receive>>_vars => Receive
  OBVIOUS
<1> HIDE DEF At, Busy
<1> QED BY <1>1, <1>2, <1>3, <1>4, <1>5, IInvAlways, CalmAlways, PTL DEF FairSpec, Spec, Comes

\* T has the marks that a behaviour comes to.  There is one such set for each
\* behaviour, although none can be written with a temporal formula inside of it.
Marks(T) == \A n \in Nat : n \in T <=> Comes(n)

\* For any messages, window and cut of the bytes: the looping reader handles all that
\* the sender sends, if nothing is cut short, reset or refused.
THEOREM AllDoArrive ==
  ASSUME NEW T \in SUBSET Nat
  PROVE  FairSpec /\ []GuardsEnable /\ Marks(T) => AllArrive
<1> DEFINE H == FairSpec /\ []GuardsEnable /\ []Busy
<1>1. H => Comes(0)
  <2>1. IInv => At(0)
    BY ProgressBound DEF At
  <2> QED BY <2>1, IInvAlways, PTL DEF FairSpec, Comes
<1>2. ASSUME NEW n \in Nat PROVE H => (Comes(n) => n <= Most)
  <2>1. ASSUME n > Most PROVE FairSpec => ~ Comes(n)
    <3>1. IInv => ~ At(n)
      BY <2>1, ProgressBound, Bounds DEF At, Most
    <3> QED BY <3>1, IInvAlways, PTL DEF FairSpec, Comes
  <2>2. n > Most \/ n <= Most
    BY Bounds DEF Most
  <2> QED BY <2>1, <2>2
<1>3. ASSUME NEW n \in Nat PROVE H => (Comes(n) => Comes(n + 1))
  BY MarkToMark, PTL
<1>4. Most \in Nat
  BY Bounds DEF Most
<1> HIDE DEF H
<1>5. H /\ Marks(T) => FALSE
  <2> SUFFICES ASSUME H, Marks(T) PROVE FALSE
    OBVIOUS
  <2>1. 0 \in T
    BY <1>1 DEF Marks
  <2>2. \A n \in T : n <= Most
    BY <1>2 DEF Marks
  <2>3. PICK n \in T : n + 1 \notin T
    BY <1>4, <2>1, <2>2, LastMark
  <2>4. n \in Nat /\ n + 1 \in Nat /\ Comes(n)
    BY DEF Marks
  <2> QED BY <1>3, <2>3, <2>4 DEF Marks
<1> USE DEF H
<1>6. Busy <=> (~ disturbed /\ ~ once) /\ ~ Arrived
  BY DEF Busy
<1> QED BY <1>5, <1>6, PTL DEF AllArrive
=============================================================================
