----------------------- MODULE ProviderResilienceProofs -----------------------
(***************************************************************************)
(* Proofs about ProviderResilience, for any calls, plans, identities,      *)
(* bounds and thresholds.                                                  *)
(*                                                                         *)
(* Slots and queues hold each other up: inFlight is the number of calls    *)
(* that own a slot, or ended with it, only if a released slot goes to a    *)
(* call that waits for it, and who waits is in the queue of its identity   *)
(* exactly once.  The probe of a half-open circuit is kept apart from all  *)
(* other permits by the generation: a permit that is not superseded        *)
(* belongs to the state the breaker is in.                                 *)
(***************************************************************************)
EXTENDS ProviderResilience, FiniteSetTheorems, SequenceTheorems, TLAPS

Listed(q, c) == \E k \in DOMAIN q : q[k] = c

Once(q) == \A j, k \in DOMAIN q : q[j] = q[k] => j = k

\* A call is in a queue exactly while it waits for that identity.
QueuesOK ==
    \A i \in Identities :
      /\ Once(queue[i])
      /\ \A c \in Calls :
           Listed(queue[i], c) <=> pc[c] = "queued" /\ Identity(c) = i

\* The places of a call that owns a slot, or that ended without giving it back.
Owning == {"granted", "calling", "lost"}

Holders(i) == {c \in Calls : pc[c] \in Owning /\ Identity(c) = i}

\* Whoever owns a slot is counted, and nobody queues for a free one.
OwnersOK ==
    \A i \in Identities :
      /\ IsFiniteSet(Holders(i))
      /\ slots[i] = Cardinality(Holders(i))
      /\ queue[i] # << >> => slots[i] = MaxConcurrency

\* The inductive invariant.
PolicyInv == ResilienceTypeOK /\ QueuesOK /\ OwnersOK /\ ProbeHasOwner


-----------------------------------------------------------------------------
(* Queues *)

\* Taking out the one entry of a call leaves all others.
LEMMA RemovedFromQueue ==
  ASSUME NEW q \in Seq(Calls), Once(q), NEW c \in Calls
  PROVE  /\ Removed(q, c) \in Seq(Calls)
         /\ Once(Removed(q, c))
         /\ \A d \in Calls : Listed(Removed(q, c), d) <=> Listed(q, d) /\ d # c
<1>1. CASE ~Listed(q, c)
  BY <1>1 DEF Removed, Listed
<1>2. CASE Listed(q, c)
  <2> DEFINE i == CHOOSE k \in DOMAIN q : q[k] = c
             a == SubSeq(q, 1, i - 1)
             b == SubSeq(q, i + 1, Len(q))
             t == a \o b
  <2>1. i \in 1 .. Len(q) /\ q[i] = c
    BY <1>2 DEF Listed
  <2>2. Removed(q, c) = t
    BY <1>2 DEF Listed, Removed, RemoveAt
  <2> HIDE DEF i
  <2>3. /\ a \in Seq(Calls) /\ Len(a) = i - 1
        /\ \A k \in 1 .. i - 1 : a[k] = q[k]
    BY <2>1, SubSeqProperties
  <2>4. /\ b \in Seq(Calls) /\ Len(b) = Len(q) - i
        /\ \A k \in 1 .. Len(q) - i : b[k] = q[i + k]
    BY <2>1, SubSeqProperties
  <2> HIDE DEF a, b
  <2>5. /\ t \in Seq(Calls) /\ Len(t) = Len(q) - 1
        /\ \A k \in 1 .. Len(q) - 1 : t[k] = IF k < i THEN q[k] ELSE q[k + 1]
    <3>1. /\ t \in Seq(Calls) /\ Len(t) = Len(a) + Len(b)
          /\ \A k \in 1 .. Len(a) + Len(b) :
               t[k] = IF k <= Len(a) THEN a[k] ELSE b[k - Len(a)]
      BY <2>3, <2>4, ConcatProperties
    <3>2. ASSUME NEW k \in 1 .. Len(q) - 1
          PROVE  t[k] = IF k < i THEN q[k] ELSE q[k + 1]
      BY <2>1, <2>3, <2>4, <3>1
    <3> QED BY <2>1, <2>3, <2>4, <3>1, <3>2
  <2> HIDE DEF t
  <2>6. Once(t)
    <3>1. ASSUME NEW j \in 1 .. Len(q) - 1, NEW k \in 1 .. Len(q) - 1,
                 t[j] = t[k]
          PROVE  j = k
      <4> DEFINE m(n) == IF n < i THEN n ELSE n + 1
      <4>1. \A n \in 1 .. Len(q) - 1 : m(n) \in DOMAIN q /\ t[n] = q[m(n)]
        BY <2>1, <2>5
      <4>2. m(j) = m(k)
        <5> HIDE DEF m
        <5> QED BY <3>1, <4>1 DEF Once
      <4> QED BY <2>1, <4>2
    <3> QED BY <2>5, <3>1 DEF Once
  <2>7. ASSUME NEW d \in Calls PROVE Listed(t, d) <=> Listed(q, d) /\ d # c
    <3>1. ASSUME Listed(t, d) PROVE Listed(q, d) /\ d # c
      BY <2>1, <2>5, <3>1 DEF Listed, Once
    <3>2. ASSUME Listed(q, d), d # c PROVE Listed(t, d)
      <4>1. PICK k \in 1 .. Len(q) : q[k] = d
        BY <3>2 DEF Listed
      <4>2. k # i
        BY <4>1, <3>2, <2>1
      <4>3. CASE k < i
        <5>1. k \in 1 .. Len(q) - 1 /\ t[k] = d
          BY <4>1, <4>3, <2>1, <2>5
        <5> QED BY <5>1, <2>5 DEF Listed
      <4>4. CASE k > i
        <5>1. k - 1 \in 1 .. Len(q) - 1 /\ t[k - 1] = d
          BY <4>1, <4>4, <2>1, <2>5
        <5> QED BY <5>1, <2>5 DEF Listed
      <4> QED BY <2>1, <4>1, <4>2, <4>3, <4>4
    <3> QED BY <3>1, <3>2
  <2> QED BY <2>2, <2>5, <2>6, <2>7
<1> QED BY <1>1, <1>2

\* A call that was not in the queue is, once, after it was pushed.
LEMMA PushedOnQueue ==
  ASSUME NEW q \in Seq(Calls), Once(q), NEW c \in Calls, ~Listed(q, c)
  PROVE  /\ Append(q, c) \in Seq(Calls)
         /\ Once(Append(q, c))
         /\ \A d \in Calls : Listed(Append(q, c), d) <=> Listed(q, d) \/ d = c
<1> DEFINE t == Append(q, c)
<1>1. /\ t \in Seq(Calls) /\ Len(t) = Len(q) + 1
      /\ \A k \in 1 .. Len(q) : t[k] = q[k]
      /\ t[Len(q) + 1] = c
  BY AppendProperties
<1> HIDE DEF t
<1>2. Len(q) \in Nat
  OBVIOUS
<1>3. Once(t)
  BY <1>1, <1>2 DEF Once, Listed
<1>4. ASSUME NEW d \in Calls PROVE Listed(t, d) <=> Listed(q, d) \/ d = c
  BY <1>1, <1>2 DEF Listed
<1> QED BY <1>1, <1>3, <1>4 DEF t

\* Shifting takes out the earliest one.
LEMMA ShiftedFromQueue ==
  ASSUME NEW q \in Seq(Calls), Once(q), q # << >>
  PROVE  /\ Head(q) \in Calls /\ Listed(q, Head(q))
         /\ Tail(q) \in Seq(Calls)
         /\ Once(Tail(q))
         /\ \A d \in Calls : Listed(Tail(q), d) <=> Listed(q, d) /\ d # Head(q)
<1> DEFINE t == Tail(q)
<1>1. /\ t \in Seq(Calls) /\ Len(t) = Len(q) - 1 /\ Len(q) \in Nat \ {0}
      /\ \A k \in 1 .. Len(q) - 1 : t[k] = q[k + 1]
      /\ Head(q) = q[1] /\ Head(q) \in Calls
  BY HeadTailProperties
<1> HIDE DEF t
<1>2. Listed(q, Head(q))
  BY <1>1 DEF Listed
<1>3. Once(t)
  <2>1. ASSUME NEW j \in 1 .. Len(q) - 1, NEW k \in 1 .. Len(q) - 1, t[j] = t[k]
        PROVE  j = k
    <3>1. /\ j + 1 \in DOMAIN q /\ k + 1 \in DOMAIN q
          /\ q[j + 1] = q[k + 1]
      BY <1>1, <2>1
    <3> QED BY <3>1 DEF Once
  <2> QED BY <1>1, <2>1 DEF Once
<1>4. ASSUME NEW d \in Calls PROVE Listed(t, d) <=> Listed(q, d) /\ d # Head(q)
  <2>1. ASSUME Listed(t, d) PROVE Listed(q, d) /\ d # Head(q)
    BY <1>1, <2>1, SMTT(30) DEF Listed, Once
  <2>2. ASSUME Listed(q, d), d # Head(q) PROVE Listed(t, d)
    <3>1. PICK k \in 1 .. Len(q) : q[k] = d
      BY <2>2 DEF Listed
    <3>2. k - 1 \in 1 .. Len(q) - 1 /\ t[k - 1] = d
      BY <1>1, <2>2, <3>1
    <3> QED BY <1>1, <3>2 DEF Listed
  <2> QED BY <2>1, <2>2
<1> QED BY <1>1, <1>2, <1>3, <1>4 DEF t

\* A queue that names nobody is empty.
LEMMA EmptyIsUnlisted ==
  ASSUME NEW q \in Seq(Calls)
  PROVE  q = << >> <=> \A d \in Calls : ~Listed(q, d)
<1>1. ASSUME q # << >> PROVE \E d \in Calls : Listed(q, d)
  <2>1. Len(q) \in Nat \ {0} /\ q[1] \in Calls
    BY <1>1
  <2> QED BY <2>1 DEF Listed
<1> QED BY <1>1 DEF Listed

-----------------------------------------------------------------------------
(* Slots *)

\* A step that moves nobody into or out of a slot or a queue.
LEMMA QuietStep ==
  ASSUME QueuesOK, OwnersOK, slots' = slots, queue' = queue,
         \A c \in Calls :
           /\ pc'[c] \in Owning <=> pc[c] \in Owning
           /\ pc'[c] = "queued" <=> pc[c] = "queued"
           /\ pc[c] \in Owning \cup {"queued"} => at'[c] = at[c]
  PROVE  QueuesOK' /\ OwnersOK'
<1>1. ASSUME NEW i \in Identities PROVE Holders(i)' = Holders(i)
  BY DEF Holders, Owning, Identity
<1>2. QueuesOK'
  BY DEF QueuesOK, Identity
<1>3. OwnersOK'
  BY <1>1 DEF OwnersOK
<1> QED BY <1>2, <1>3

\* A step that touches the slots and the queue of one identity.
LEMMA Recounted ==
  ASSUME OwnersOK, NEW i \in Identities,
         IsFiniteSet(Holders(i)'), slots'[i] = Cardinality(Holders(i)'),
         queue'[i] # << >> => slots'[i] = MaxConcurrency,
         \A j \in Identities \ {i} :
           /\ Holders(j)' = Holders(j)
           /\ slots'[j] = slots[j]
           /\ queue'[j] = queue[j]
  PROVE  OwnersOK'
<1>1. ASSUME NEW j \in Identities
      PROVE  /\ IsFiniteSet(Holders(j)')
             /\ slots'[j] = Cardinality(Holders(j)')
             /\ queue'[j] # << >> => slots'[j] = MaxConcurrency
  <2>1. CASE j = i
    BY <2>1
  <2>2. CASE j # i
    BY <2>2 DEF OwnersOK
  <2> QED BY <2>1, <2>2
<1> QED BY <1>1 DEF OwnersOK

\* A call that owns no slot leaves, and with it its place in the queue.
LEMMA LeaveAccounted ==
  ASSUME ResilienceTypeOK, QueuesOK, OwnersOK, NEW c \in Calls, Leave(c),
         pc[c] \notin Owning
  PROVE  QueuesOK' /\ OwnersOK'
<1>1. /\ pc'[c] = "done" /\ slots' = slots
      /\ \A d \in Calls \ {c} : pc'[d] = pc[d] /\ at'[d] = at[d]
  BY DEF Leave, Forgets, ResilienceTypeOK
<1>2. Identity(c) \in Identities
  BY ResilienceAssumption DEF Identity, ResilienceTypeOK
<1>3. /\ queue'[Identity(c)] = Removed(queue[Identity(c)], c)
      /\ \A i \in Identities \ {Identity(c)} : queue'[i] = queue[i]
  BY <1>2 DEF Leave, ResilienceTypeOK
<1>4. ASSUME NEW i \in Identities
      PROVE  /\ Once(queue'[i])
             /\ \A d \in Calls :
                  Listed(queue'[i], d) <=> Listed(queue[i], d) /\ d # c
  <2>1. queue[i] \in Seq(Calls) /\ Once(queue[i])
    BY DEF ResilienceTypeOK, QueuesOK
  <2>2. CASE i = Identity(c)
    BY <1>3, <2>1, <2>2, RemovedFromQueue, SMTT(30)
  <2>3. CASE i # Identity(c)
    <3>1. ~Listed(queue[i], c)
      BY <2>3 DEF QueuesOK
    <3> QED BY <1>3, <2>1, <2>3, <3>1
  <2> QED BY <2>2, <2>3
<1>5. QueuesOK'
  BY <1>1, <1>4 DEF QueuesOK, Identity
<1>6. ASSUME NEW i \in Identities PROVE Holders(i)' = Holders(i)
  BY <1>1 DEF Holders, Owning, Identity
<1>7. ASSUME NEW i \in Identities, queue'[i] # << >> PROVE queue[i] # << >>
  <2>1. queue[i] \in Seq(Calls) /\ Once(queue[i])
    BY DEF ResilienceTypeOK, QueuesOK
  <2>2. queue'[i] \in Seq(Calls)
    BY <1>3, <2>1, RemovedFromQueue, ZenonT(60)
  <2>3. PICK d \in Calls : Listed(queue'[i], d)
    BY <1>7, <2>2, EmptyIsUnlisted
  <2> QED BY <1>4, <2>1, <2>3, EmptyIsUnlisted
<1>8. OwnersOK'
  BY <1>1, <1>6, <1>7 DEF OwnersOK
<1> QED BY <1>5, <1>8

\* acquire takes a free slot, or queues behind MaxConcurrency owners.
LEMMA EnterAccounted ==
  ASSUME ResilienceTypeOK, QueuesOK, OwnersOK, NEW c \in Calls, Enter(c),
         ~aborted[c]
  PROVE  QueuesOK' /\ OwnersOK' /\ slots' \in [Identities -> 0 .. MaxConcurrency]
<1>0. Identity(c) \in Identities
  BY ResilienceAssumption DEF Identity, ResilienceTypeOK
<1> PICK i \in Identities : i = Identity(c)
  BY <1>0
<1>1. i = Identity(c) /\ pc[c] = "head" /\ at' = at
  BY DEF Enter, callVars
<1>2. slots \in [Identities -> 0 .. MaxConcurrency] /\ MaxConcurrency \in Nat
  BY ResilienceAssumption DEF ResilienceTypeOK
<1>3. CASE slots[i] < MaxConcurrency
  <2>1. /\ slots' = [slots EXCEPT ![i] = @ + 1] /\ queue' = queue
        /\ pc'[c] = "granted" /\ \A d \in Calls \ {c} : pc'[d] = pc[d]
    BY <1>3 DEF Enter, ResilienceTypeOK
  <2>2. QueuesOK'
    BY <1>1, <2>1 DEF QueuesOK, Identity
  <2>3. queue[i] = << >>
    BY <1>1, <1>2, <1>3 DEF OwnersOK
  <2>4. Holders(i)' = Holders(i) \cup {c} /\ c \notin Holders(i)
    BY <1>1, <2>1 DEF Holders, Owning, Identity
  <2>5. \A j \in Identities \ {i} : Holders(j)' = Holders(j)
    BY <1>1, <2>1 DEF Holders, Owning, Identity
  <2>6. /\ IsFiniteSet(Holders(i)) /\ slots[i] = Cardinality(Holders(i))
    BY <1>1 DEF OwnersOK
  <2>7. IsFiniteSet(Holders(i)') /\ Cardinality(Holders(i)') = slots[i] + 1
    BY <2>4, <2>6, FS_AddElement
  <2>8. /\ slots'[i] = slots[i] + 1
        /\ \A j \in Identities \ {i} : slots'[j] = slots[j]
        /\ slots' \in [Identities -> 0 .. MaxConcurrency]
    BY <1>1, <1>2, <1>3, <2>1
  <2>9. OwnersOK'
    BY <2>1, <2>3, <2>5, <2>7, <2>8, Recounted
  <2> QED BY <2>2, <2>8, <2>9
<1>4. CASE ~(slots[i] < MaxConcurrency)
  <2>1. /\ queue' = [queue EXCEPT ![i] = Append(@, c)] /\ slots' = slots
        /\ pc'[c] = "queued" /\ \A d \in Calls \ {c} : pc'[d] = pc[d]
    BY <1>4 DEF Enter, ResilienceTypeOK
  <2>2. queue[i] \in Seq(Calls) /\ Once(queue[i]) /\ ~Listed(queue[i], c)
    BY <1>1 DEF ResilienceTypeOK, QueuesOK
  <2>3. /\ queue'[i] = Append(queue[i], c)
        /\ \A j \in Identities \ {i} : queue'[j] = queue[j]
    BY <1>1, <2>1 DEF ResilienceTypeOK
  <2>4. /\ Once(queue'[i])
        /\ \A d \in Calls : Listed(queue'[i], d) <=> Listed(queue[i], d) \/ d = c
    BY <2>2, <2>3, PushedOnQueue
  <2>5. QueuesOK'
    <3>1. ASSUME NEW j \in Identities
          PROVE  /\ Once(queue'[j])
                 /\ \A d \in Calls : Listed(queue'[j], d) <=>
                                        pc'[d] = "queued" /\ Identity(d)' = j
      <4>1. CASE j = i
        BY <1>1, <2>1, <2>4, <4>1 DEF QueuesOK, Identity
      <4>2. CASE j # i
        BY <1>1, <2>1, <2>3, <4>2 DEF QueuesOK, Identity
      <4> QED BY <4>1, <4>2
    <3> QED BY <3>1 DEF QueuesOK
  <2>6. \A j \in Identities : Holders(j)' = Holders(j)
    BY <1>1, <2>1 DEF Holders, Owning, Identity
  <2>7. slots[i] = MaxConcurrency
    BY <1>1, <1>2, <1>4
  <2>8. OwnersOK'
    BY <1>1, <2>1, <2>3, <2>6, <2>7, Recounted DEF OwnersOK
  <2> QED BY <1>2, <2>1, <2>5, <2>8
<1> QED BY <1>3, <1>4

\* A slot that is given back goes to the earliest waiter, or to the pool.
LEMMA GivenBack ==
  ASSUME ResilienceTypeOK, QueuesOK, OwnersOK, NEW c \in Calls,
         pc[c] \in Owning, Release(Identity(c)),
         NEW place \in Places \ (Owning \cup {"queued"}),
         NEW woken, \A d \in woken : pc[d] = "probing",
         pc' = Moved(c, place, Handed(Identity(c)), woken),
         \A d \in Calls \ {c} : at'[d] = at[d]
  PROVE  /\ QueuesOK' /\ OwnersOK'
         /\ slots' \in [Identities -> 0 .. MaxConcurrency]
         /\ queue' \in [Identities -> Seq(Calls)]
         /\ pc' \in [Calls -> Places]
<1>0. Identity(c) \in Identities
  BY ResilienceAssumption DEF Identity, ResilienceTypeOK
<1> PICK i \in Identities : i = Identity(c)
  BY <1>0
<1>1. /\ i = Identity(c) /\ c \in Holders(i) /\ place \notin Owning
      /\ place # "queued" /\ pc[c] # "queued" /\ pc[c] # "probing"
  BY ResilienceAssumption DEF Identity, ResilienceTypeOK, Holders, Owning
<1>2. /\ slots \in [Identities -> 0 .. MaxConcurrency] /\ MaxConcurrency \in Nat
      /\ queue \in [Identities -> Seq(Calls)]
  BY ResilienceAssumption DEF ResilienceTypeOK
<1>3. /\ IsFiniteSet(Holders(i)) /\ slots[i] = Cardinality(Holders(i))
      /\ IsFiniteSet(Holders(i) \ {c})
      /\ Cardinality(Holders(i) \ {c}) = slots[i] - 1
      /\ slots[i] > 0
  <2>1. IsFiniteSet(Holders(i)) /\ slots[i] = Cardinality(Holders(i))
    BY <1>1 DEF OwnersOK
  <2>2. slots[i] # 0
    BY <1>1, <2>1, FS_EmptySet
  <2>3. slots[i] \in 0 .. MaxConcurrency
    BY <1>2
  <2>4. /\ IsFiniteSet(Holders(i) \ {c})
        /\ Cardinality(Holders(i) \ {c}) = Cardinality(Holders(i)) - 1
    BY <1>1, <2>1, FS_RemoveElement
  <2> QED BY <1>2, <2>1, <2>2, <2>3, <2>4
<1>4. /\ pc'[c] = place /\ pc' \in [Calls -> Places]
      /\ \A d \in Calls \ {c} :
           pc'[d] = IF d \in Handed(i) THEN "granted"
                    ELSE IF d \in woken THEN "head" ELSE pc[d]
  BY DEF Moved, ResilienceTypeOK, Places
<1>a. \A d \in Calls \ {c} : Identity(d)' = Identity(d)
  BY DEF Identity
<1>b. \A d \in Calls : d \in woken => pc[d] = "probing"
  OBVIOUS
<1>c. ASSUME NEW d \in Calls \ {c}, d \notin Handed(i)
      PROVE  /\ pc'[d] \in Owning <=> pc[d] \in Owning
             /\ pc'[d] = "queued" <=> pc[d] = "queued"
  <2>1. CASE d \in woken
    BY <1>4, <1>b, <1>c, <2>1 DEF Owning
  <2>2. CASE d \notin woken
    BY <1>4, <1>c, <2>2
  <2> QED BY <2>1, <2>2
<1>5. CASE queue[i] = << >>
  <2>1. Handed(i) = {}
    BY <1>5 DEF Handed
  <2>2. /\ \A j \in Identities : queue'[j] = queue[j]
        /\ queue' \in [Identities -> Seq(Calls)]
        /\ slots' = [slots EXCEPT ![i] = @ - 1]
    BY <1>1, <1>2, <1>5 DEF Release
  <2>0. \A d \in Calls \ {c} : /\ pc'[d] \in Owning <=> pc[d] \in Owning
                               /\ pc'[d] = "queued" <=> pc[d] = "queued"
    BY <2>1, <1>c
  <2>3. QueuesOK'
    <3>1. ASSUME NEW j \in Identities, NEW d \in Calls
          PROVE  Listed(queue[j], d) <=> pc'[d] = "queued" /\ Identity(d)' = j
      BY <1>1, <1>4, <1>a, <2>0 DEF QueuesOK
    <3> QED BY <2>2, <3>1 DEF QueuesOK
  <2>4. Holders(i)' = Holders(i) \ {c}
    BY <1>1, <1>4, <1>a, <2>0 DEF Holders, Owning
  <2>5. \A j \in Identities \ {i} : Holders(j)' = Holders(j)
    BY <1>1, <1>4, <1>a, <2>0 DEF Holders, Owning
  <2>6. /\ slots'[i] = slots[i] - 1
        /\ \A j \in Identities \ {i} : slots'[j] = slots[j]
        /\ slots' \in [Identities -> 0 .. MaxConcurrency]
    BY <1>1, <1>2, <1>3, <2>2
  <2>7. OwnersOK'
    BY <1>3, <1>5, <2>2, <2>4, <2>5, <2>6, Recounted, ZenonT(60)
  <2> QED BY <1>4, <2>2, <2>3, <2>6, <2>7
<1>6. CASE queue[i] # << >>
  <2> DEFINE h == Head(queue[i])
  <2>1. queue[i] \in Seq(Calls) /\ Once(queue[i])
    BY <1>1, <1>2 DEF QueuesOK
  <2>2. /\ h \in Calls /\ Listed(queue[i], h)
        /\ Tail(queue[i]) \in Seq(Calls) /\ Once(Tail(queue[i]))
        /\ \A d \in Calls : Listed(Tail(queue[i]), d) <=>
                               Listed(queue[i], d) /\ d # h
    BY <1>6, <2>1, ShiftedFromQueue
  <2>3. pc[h] = "queued" /\ Identity(h) = i
    BY <1>1, <2>2 DEF QueuesOK
  <2>4. Handed(i) = {h}
    BY <1>6 DEF Handed
  <2> HIDE DEF h
  <2>5. /\ queue'[i] = Tail(queue[i])
        /\ \A j \in Identities \ {i} : queue'[j] = queue[j]
        /\ queue' \in [Identities -> Seq(Calls)]
        /\ slots' = slots
    BY <1>1, <1>2, <1>6, <2>2 DEF Release
  <2>a. h # c /\ pc'[h] = "granted"
    BY <1>1, <1>4, <2>2, <2>3, <2>4
  <2>b. \A d \in Calls \ {c, h} : /\ pc'[d] \in Owning <=> pc[d] \in Owning
                                  /\ pc'[d] = "queued" <=> pc[d] = "queued"
    BY <2>4, <1>c
  <2>6. QueuesOK'
    <3>1. ASSUME NEW j \in Identities
          PROVE  /\ Once(queue'[j])
                 /\ \A d \in Calls : Listed(queue'[j], d) <=>
                                        pc'[d] = "queued" /\ Identity(d)' = j
      <4>0. ASSUME NEW d \in Calls
            PROVE  /\ Listed(queue[j], d) <=> pc[d] = "queued" /\ Identity(d) = j
                   /\ pc'[d] = "queued" <=> pc[d] = "queued" /\ d # h
                   /\ d # c => Identity(d)' = Identity(d)
        BY <1>1, <1>4, <1>a, <2>a, <2>b DEF QueuesOK
      <4>1. CASE j = i
        BY <1>1, <2>2, <2>3, <2>5, <4>0, <4>1
      <4>2. CASE j # i
        <5>1. Once(queue'[j]) /\ queue'[j] = queue[j]
          BY <2>5, <4>2 DEF QueuesOK
        <5>2. \A d \in Calls : pc'[d] = "queued" => d # c
          BY <1>1, <1>4
        <5> QED BY <1>1, <2>3, <4>0, <4>2, <5>1, <5>2
      <4> QED BY <4>1, <4>2
    <3> QED BY <3>1 DEF QueuesOK
  <2>7. Holders(i)' = (Holders(i) \ {c}) \cup {h} /\ h \notin Holders(i)
    BY <1>1, <1>4, <1>a, <2>2, <2>3, <2>a, <2>b DEF Holders, Owning
  <2>8. \A j \in Identities \ {i} : Holders(j)' = Holders(j)
    BY <1>1, <1>4, <1>a, <2>3, <2>a, <2>b DEF Holders, Owning
  <2>9. IsFiniteSet(Holders(i)') /\ Cardinality(Holders(i)') = slots[i]
    <3>0. h \notin Holders(i) \ {c}
      BY <2>7
    <3>1. /\ IsFiniteSet((Holders(i) \ {c}) \cup {h})
          /\ Cardinality((Holders(i) \ {c}) \cup {h}) = Cardinality(Holders(i) \ {c}) + 1
      BY <1>3, <3>0, FS_AddElement
    <3>2. slots[i] \in 0 .. MaxConcurrency
      BY <1>2
    <3> QED BY <1>2, <1>3, <2>7, <3>1, <3>2
  <2>10. slots[i] = MaxConcurrency
    BY <1>1, <1>6 DEF OwnersOK
  <2>11. OwnersOK'
    BY <2>5, <2>8, <2>9, <2>10, Recounted
  <2> QED BY <1>2, <1>4, <2>5, <2>6, <2>11
<1> QED BY <1>5, <1>6

\* A new instance has no owner and no waiter.
LEMMA FreshAccounted ==
  ASSUME Reinstantiate PROVE QueuesOK' /\ OwnersOK'
<1>1. /\ \A c \in Calls : pc'[c] \in {"idle", "done"}
      /\ \A i \in Identities : queue'[i] = << >> /\ slots'[i] = 0
  BY DEF Reinstantiate
<1>2. \A i \in Identities : Holders(i)' = {}
  BY <1>1 DEF Holders, Owning
<1>3. OwnersOK'
  BY <1>1, <1>2, FS_EmptySet DEF OwnersOK
<1>4. QueuesOK'
  BY <1>1 DEF QueuesOK, Once, Listed
<1> QED BY <1>3, <1>4
-----------------------------------------------------------------------------
(* The breaker *)

Breakers == [state : {"closed", "open", "half_open"},
             failures : 0 .. FailureThreshold,
             cooled : BOOLEAN,
             probe : Calls \cup {"none"}]

\* ProbeHasOwner, of one identity.
ProbeOwned(i) ==
    LET p == breaker[i].probe IN
    p # "none" =>
      /\ breaker[i].state = "half_open"
      /\ \/ /\ pc[p] = "calling" /\ permit[p] = "half_open"
            /\ Identity(p) = i
         \/ pc[p] = "misreported"
         \/ pc[p] = "lost" /\ Identity(p) = i

Buckets == {"none", "eligible", "blocked"}

LEMMA InPlan ==
  ASSUME ResilienceTypeOK, NEW c \in Calls
  PROVE  Identity(c) \in Identities /\ breaker[Identity(c)] \in Breakers
BY ResilienceAssumption DEF Identity, ResilienceTypeOK, Breakers

\* A probe whose breaker a step leaves alone keeps its owner, if the owner
\* stays in flight under the same permit, ends misreported or stays lost.
LEMMA ProbeStays ==
  ASSUME ResilienceTypeOK, NEW j \in Identities, ProbeOwned(j),
         breaker'[j] = breaker[j],
         \A d \in Calls : d = breaker[j].probe =>
           /\ pc[d] = "calling" =>
                \/ pc'[d] = "misreported"
                \/ pc'[d] = "calling" /\ permit'[d] = permit[d] /\ at'[d] = at[d]
           /\ pc[d] = "misreported" => pc'[d] = "misreported"
           /\ pc[d] = "lost" => pc'[d] = "lost" /\ at'[d] = at[d]
  PROVE  ProbeOwned(j)'
<1>1. breaker[j].probe \in Calls \cup {"none"}
  BY DEF ResilienceTypeOK
<1> QED BY <1>1 DEF ProbeOwned, Identity

\* A verdict leaves a breaker a breaker.
LEMMA VerdictIsTyped ==
  ASSUME ResilienceTypeOK, NEW c \in Calls, NEW verdict
  PROVE  AfterVerdict(c, verdict) \in Breakers
<1> PICK b \in Breakers : b = breaker[Identity(c)]
  BY InPlan
<1>1. b.failures \in Nat /\ FailureThreshold \in Nat
  BY ResilienceAssumption DEF Breakers
<1>2. ClosedBreaker \in Breakers
  BY ResilienceAssumption DEF ClosedBreaker, Breakers
<1>3. Opened(b) \in Breakers
  BY DEF Opened, Breakers
<1>4. Failed(b) \in Breakers
  <2>1. CASE b.state = "half_open"
    BY <1>3, <2>1 DEF Failed
  <2>2. CASE b.state # "half_open" /\ b.failures + 1 >= FailureThreshold
    BY <1>1, <1>3, <2>2 DEF Failed, Breakers
  <2>3. CASE b.state # "half_open" /\ ~(b.failures + 1 >= FailureThreshold)
    <3>1. b.failures + 1 \in 0 .. FailureThreshold
      BY <1>1, <2>3
    <3>2. Failed(b) = [b EXCEPT !.failures = @ + 1]
      BY <2>3 DEF Failed
    <3> QED BY <3>1, <3>2 DEF Breakers
  <2> QED BY <2>1, <2>2, <2>3
<1> QED BY <1>2, <1>4 DEF AfterVerdict

\* A verdict on a valid permit leaves no probe reserved; any other one changes
\* nothing.
LEMMA VerdictEndsProbe ==
  ASSUME ResilienceTypeOK, NEW c \in Calls, ProbeOwned(Identity(c)),
         NEW verdict \in {"ok", "counted", "uncounted"}
  PROVE  \/ ~Valid(c) /\ AfterVerdict(c, verdict) = breaker[Identity(c)]
         \/ Valid(c) /\ AfterVerdict(c, verdict).probe = "none"
<1> PICK b \in Breakers : b = breaker[Identity(c)]
  BY InPlan
<1>1. CASE ~Valid(c)
  BY <1>1 DEF AfterVerdict
<1>2. CASE Valid(c)
  <2>1. b.state # "half_open" => b.probe = "none"
    BY DEF ProbeOwned
  <2>2. Opened(b).probe = "none" /\ ClosedBreaker.probe = "none"
    BY DEF Opened, Breakers, ClosedBreaker
  <2>3. Failed(b).probe = "none"
    BY <2>1, <2>2 DEF Failed, Opened, Breakers
  <2>4. CASE verdict = "uncounted"
    BY <1>2, <2>1, <2>2, <2>4 DEF AfterVerdict
  <2> QED BY <1>2, <2>2, <2>3, <2>4 DEF AfterVerdict
<1> QED BY <1>1, <1>2

\* Only the probe of a half-open breaker takes it out of that state.
LEMMA VerdictOfHalfOpen ==
  ASSUME ResilienceTypeOK, NEW c \in Calls, NEW verdict,
         breaker[Identity(c)].state = "half_open",
         AfterVerdict(c, verdict).state # "half_open"
  PROVE  breaker[Identity(c)].probe = c
BY DEF AfterVerdict, Valid

\* Calls in flight stay where they are while another one gives its slot back.
LEMMA OthersStay ==
  ASSUME ResilienceTypeOK, QueuesOK, NEW c \in Calls, NEW place,
         NEW woken, \A e \in woken : pc[e] = "probing",
         pc' = Moved(c, place, Handed(Identity(c)), woken),
         NEW d \in Calls \ {c}
  PROVE  /\ pc[d] \in {"calling", "misreported", "lost"} => pc'[d] = pc[d]
         /\ pc'[d] = "calling" => pc[d] = "calling"
<1> PICK i \in Identities : i = Identity(c)
  BY InPlan
<1>1. d \in Handed(i) => pc[d] = "queued"
  <2>1. CASE queue[i] = << >>
    BY <2>1 DEF Handed
  <2>2. CASE queue[i] # << >>
    <3>1. queue[i] \in Seq(Calls) /\ Once(queue[i])
      BY DEF ResilienceTypeOK, QueuesOK
    <3>2. Listed(queue[i], Head(queue[i])) /\ Head(queue[i]) \in Calls
      BY <2>2, <3>1, ShiftedFromQueue
    <3>3. pc[Head(queue[i])] = "queued"
      BY <3>2 DEF QueuesOK
    <3> QED BY <2>2, <3>3 DEF Handed
  <2> QED BY <2>1, <2>2
<1>2. pc'[d] = IF d \in Handed(i) THEN "granted"
               ELSE IF d \in woken THEN "head" ELSE pc[d]
  BY DEF Moved
<1> QED BY <1>1, <1>2

-----------------------------------------------------------------------------
(* The actions *)

\* ProbeHasOwner says it of each identity.
LEMMA ProbesOwned ==
  ProbeHasOwner <=> \A i \in Identities : ProbeOwned(i)
BY DEF ProbeHasOwner, ProbeOwned

LEMMA ForgetsTyped ==
  ASSUME ResilienceTypeOK, NEW c \in Calls, Forgets(c)
  PROVE  /\ at' \in [Calls -> Nat] /\ \A d \in Calls : at'[d] \in DOMAIN PlanOf[d]
         /\ attempt' \in [Calls -> 1 .. MaxAttempts]
         /\ aborted' \in [Calls -> BOOLEAN]
         /\ \A d \in Calls \ {c} : at'[d] = at[d]
<1>1. ASSUME NEW d \in Calls PROVE 1 \in DOMAIN PlanOf[d]
  BY ResilienceAssumption
<1>2. ASSUME NEW d \in Calls PROVE at'[d] = IF d = c THEN 1 ELSE at[d]
  BY DEF Forgets, ResilienceTypeOK
<1>3. ASSUME NEW d \in Calls PROVE at'[d] \in DOMAIN PlanOf[d]
  BY <1>1, <1>2 DEF ResilienceTypeOK
<1>4. /\ at' \in [Calls -> Nat] /\ attempt' \in [Calls -> 1 .. MaxAttempts]
      /\ aborted' \in [Calls -> BOOLEAN]
  BY ResilienceAssumption DEF Forgets, ResilienceTypeOK
<1> QED BY <1>2, <1>3, <1>4

\* A step that leaves the breakers, the permits and the calls in flight alone.
LEMMA ProbesUndisturbed ==
  ASSUME PolicyInv, breaker' = breaker, permit' = permit,
         \A d \in Calls :
           /\ pc[d] = "calling" => pc'[d] = "calling" /\ at'[d] = at[d]
           /\ pc[d] = "misreported" => pc'[d] = "misreported"
           /\ pc[d] = "lost" => pc'[d] = "lost" /\ at'[d] = at[d]
  PROVE  ProbeHasOwner'
<1>1. ASSUME NEW i \in Identities PROVE ProbeOwned(i)'
  <2>1. ProbeOwned(i) /\ ResilienceTypeOK
    BY ProbesOwned DEF PolicyInv
  <2> QED BY <2>1, ProbeStays
<1> QED BY <1>1 DEF ProbeHasOwner, ProbeOwned

LEMMA LeaveKeepsPolicy ==
  ASSUME PolicyInv, NEW c \in Calls, Leave(c), pc[c] \in Waits \cup {"head"}
  PROVE  PolicyInv'
<1>1. ResilienceTypeOK /\ QueuesOK /\ OwnersOK
  BY DEF PolicyInv
<1>2. QueuesOK' /\ OwnersOK'
  BY <1>1, LeaveAccounted DEF Waits, Owning
<1>3. queue' \in [Identities -> Seq(Calls)]
  <2>1. Removed(queue[Identity(c)], c) \in Seq(Calls)
    BY <1>1, InPlan, RemovedFromQueue DEF ResilienceTypeOK, QueuesOK
  <2> QED BY <1>1, <2>1, InPlan DEF Leave, ResilienceTypeOK
<1>4. ResilienceTypeOK'
  BY <1>1, <1>3, ForgetsTyped DEF Leave, ResilienceTypeOK, Places
<1>5. ProbeHasOwner'
  <2>1. \A d \in Calls \ {c} : pc'[d] = pc[d] /\ at'[d] = at[d]
    BY <1>1, ForgetsTyped DEF Leave, ResilienceTypeOK
  <2>2. breaker' = breaker /\ permit' = permit
    BY DEF Leave
  <2> QED BY <2>1, <2>2, ProbesUndisturbed DEF Waits
<1> QED BY <1>2, <1>4, <1>5 DEF PolicyInv

LEMMA StartKeepsPolicy ==
  ASSUME PolicyInv, NEW c \in Calls, Start(c) \/ Wake(c)
  PROVE  PolicyInv'
<1>1. ResilienceTypeOK /\ QueuesOK /\ OwnersOK
  BY DEF PolicyInv
<1>2. /\ pc[c] \in {"idle", "sleeping"} /\ pc' = [pc EXCEPT ![c] = "head"]
      /\ UNCHANGED <<at, attempt, permit, aborted, slots, queue, breaker, bucket>>
  BY DEF Start, Wake, callVars
<1>3. \A d \in Calls : pc'[d] = IF d = c THEN "head" ELSE pc[d]
  BY <1>1, <1>2 DEF ResilienceTypeOK
<1>4. ResilienceTypeOK'
  BY <1>1, <1>2 DEF ResilienceTypeOK, Places
<1>5. QueuesOK' /\ OwnersOK'
  BY <1>1, <1>2, <1>3, QuietStep DEF Owning
<1>6. ProbeHasOwner'
  BY <1>2, <1>3, ProbesUndisturbed
<1> QED BY <1>4, <1>5, <1>6 DEF PolicyInv

LEMMA AbortKeepsPolicy ==
  ASSUME PolicyInv, NEW c \in Calls, Abort(c)
  PROVE  PolicyInv'
<1>1. CASE pc[c] \in Waits
  BY <1>1, LeaveKeepsPolicy DEF Abort
<1>2. CASE pc[c] \notin Waits
  <2>1. /\ aborted' = [aborted EXCEPT ![c] = TRUE]
        /\ UNCHANGED <<pc, at, attempt, permit, slots, queue, breaker, bucket>>
    BY <1>2 DEF Abort
  <2>2. ResilienceTypeOK'
    BY <2>1 DEF PolicyInv, ResilienceTypeOK
  <2>3. QueuesOK' /\ OwnersOK'
    BY <2>1, QuietStep DEF PolicyInv
  <2>4. ProbeHasOwner'
    BY <2>1, ProbesUndisturbed
  <2> QED BY <2>2, <2>3, <2>4 DEF PolicyInv
<1> QED BY <1>1, <1>2

LEMMA EnterKeepsPolicy ==
  ASSUME PolicyInv, NEW c \in Calls, Enter(c)
  PROVE  PolicyInv'
<1>1. CASE aborted[c]
  BY <1>1, LeaveKeepsPolicy DEF Enter
<1>2. CASE ~aborted[c]
  <2>1. ResilienceTypeOK /\ QueuesOK /\ OwnersOK
    BY DEF PolicyInv
  <2>2. QueuesOK' /\ OwnersOK' /\ slots' \in [Identities -> 0 .. MaxConcurrency]
    BY <1>2, <2>1, EnterAccounted
  <2>3. /\ pc[c] = "head"
        /\ UNCHANGED <<at, attempt, permit, aborted, breaker, bucket>>
        /\ \E p \in {"granted", "queued"} : pc' = [pc EXCEPT ![c] = p]
        /\ \/ queue' = queue
           \/ queue' = [queue EXCEPT ![Identity(c)] = Append(@, c)]
    BY <1>2 DEF Enter, callVars
  <2>4. queue' \in [Identities -> Seq(Calls)]
    <3>1. /\ queue \in [Identities -> Seq(Calls)]
          /\ Identity(c) \in Identities
      BY <2>1, InPlan DEF ResilienceTypeOK
    <3>2. Append(queue[Identity(c)], c) \in Seq(Calls)
      BY <3>1, AppendProperties
    <3> QED BY <2>3, <3>1, <3>2
  <2>5. pc' \in [Calls -> Places]
    BY <2>1, <2>3 DEF ResilienceTypeOK, Places
  <2>6. ResilienceTypeOK'
    BY <2>1, <2>2, <2>3, <2>4, <2>5 DEF ResilienceTypeOK
  <2>7. \A d \in Calls \ {c} : pc'[d] = pc[d]
    BY <2>1, <2>3 DEF ResilienceTypeOK
  <2>8. ProbeHasOwner'
    <3>1. \A d \in Calls : /\ pc[d] \in {"calling", "misreported", "lost"} => pc'[d] = pc[d]
                           /\ at'[d] = at[d]
      BY <2>3, <2>7
    <3>2. breaker' = breaker /\ permit' = permit
      BY <2>3
    <3> QED BY <3>1, <3>2, ProbesUndisturbed
  <2> QED BY <2>2, <2>6, <2>8 DEF PolicyInv
<1> QED BY <1>1, <1>2

\* The slot is given back before a wait or an end; no verdict is known.
LEMMA GrantedAbortedKeepsPolicy ==
  ASSUME PolicyInv, NEW c \in Calls, GrantedAborted(c)
  PROVE  PolicyInv'
<1>1. ResilienceTypeOK /\ QueuesOK /\ OwnersOK
  BY DEF PolicyInv
<1>2. /\ pc[c] = "granted" /\ Forgets(c)
      /\ pc' = Moved(c, "done", Handed(Identity(c)), {}) /\ Release(Identity(c))
      /\ permit' = permit /\ breaker' = breaker /\ bucket' = bucket
  BY DEF GrantedAborted, GiveBack
<1>3. /\ QueuesOK' /\ OwnersOK'
      /\ slots' \in [Identities -> 0 .. MaxConcurrency]
      /\ queue' \in [Identities -> Seq(Calls)]
      /\ pc' \in [Calls -> Places]
  BY <1>1, <1>2, ForgetsTyped, GivenBack DEF Owning, Places
<1>4. ResilienceTypeOK'
  BY <1>1, <1>2, <1>3, ForgetsTyped DEF ResilienceTypeOK
<1>5. ProbeHasOwner'
  BY <1>1, <1>2, OthersStay, ForgetsTyped, ProbesUndisturbed
<1> QED BY <1>3, <1>4, <1>5 DEF PolicyInv

LEMMA DeniedKeepsPolicy ==
  ASSUME PolicyInv, NEW c \in Calls, Denied(c)
  PROVE  PolicyInv'
<1>1. ResilienceTypeOK /\ QueuesOK /\ OwnersOK
  BY DEF PolicyInv
<1>2. PICK place \in {"sleeping", "probing"} :
        /\ pc[c] = "granted"
        /\ pc' = Moved(c, place, Handed(Identity(c)), {}) /\ Release(Identity(c))
        /\ UNCHANGED <<at, attempt, permit, aborted, breaker, bucket>>
  BY DEF Denied, GiveBack, callVars
<1>3. /\ QueuesOK' /\ OwnersOK'
      /\ slots' \in [Identities -> 0 .. MaxConcurrency]
      /\ queue' \in [Identities -> Seq(Calls)]
      /\ pc' \in [Calls -> Places]
  BY <1>1, <1>2, GivenBack DEF Owning, Places
<1>4. ResilienceTypeOK'
  BY <1>1, <1>2, <1>3 DEF ResilienceTypeOK
<1>5. ProbeHasOwner'
  BY <1>1, <1>2, OthersStay, ProbesUndisturbed
<1> QED BY <1>3, <1>4, <1>5 DEF PolicyInv

\* A permit of identity i is superseded with its generation; no other is.
LEMMA SupersededPermits ==
  ASSUME ResilienceTypeOK, NEW i \in Identities
  PROVE  /\ Superseded(i) \in [Calls -> {"none", "closed", "half_open", "stale"}]
         /\ \A d \in Calls : Identity(d) # i => Superseded(i)[d] = permit[d]
BY DEF Superseded, ResilienceTypeOK

\* The bucket denies: whoever was admitted as the probe was not reserved.
LEMMA PacedKeepsPolicy ==
  ASSUME PolicyInv, NEW c \in Calls, Paced(c)
  PROVE  PolicyInv'
<1> PICK i \in Identities : i = Identity(c)
  BY InPlan DEF PolicyInv
<1>1. ResilienceTypeOK /\ QueuesOK /\ OwnersOK /\ ProbeHasOwner
  BY DEF PolicyInv
<1>2. /\ pc[c] = "granted"
      /\ pc' = Moved(c, "sleeping", Handed(Identity(c)), {}) /\ Release(Identity(c))
      /\ UNCHANGED <<at, attempt, aborted, bucket>>
  BY DEF Paced, Allowed, GiveBack
<1>3. /\ QueuesOK' /\ OwnersOK'
      /\ slots' \in [Identities -> 0 .. MaxConcurrency]
      /\ queue' \in [Identities -> Seq(Calls)]
      /\ pc' \in [Calls -> Places]
  BY <1>1, <1>2, GivenBack DEF Owning, Places
<1>4. \/ breaker' = breaker /\ permit' = permit
      \/ /\ breaker' = [breaker EXCEPT ![i] = HalfOpened(breaker[i], "none")]
         /\ permit' \in {permit, Superseded(i)}
  BY DEF Paced, LeftBehind
<1>5. HalfOpened(breaker[i], "none") \in Breakers /\ HalfOpened(breaker[i], "none").probe = "none"
  BY <1>1, InPlan DEF HalfOpened, Breakers
<1>6. ResilienceTypeOK'
  <2>1. breaker \in [Identities -> Breakers]
    BY <1>1 DEF ResilienceTypeOK, Breakers
  <2>2. breaker' \in [Identities -> Breakers]
    BY <1>4, <1>5, <2>1
  <2>3. permit' \in [Calls -> {"none", "closed", "half_open", "stale"}]
    BY <1>1, <1>4, SupersededPermits DEF ResilienceTypeOK
  <2> QED BY <1>1, <1>2, <1>3, <2>2, <2>3 DEF ResilienceTypeOK, Breakers
<1>7. \A d \in Calls : pc[d] \in {"calling", "misreported", "lost"} => pc'[d] = pc[d]
  BY <1>1, <1>2, OthersStay
<1>8. ProbeHasOwner'
  <2>1. CASE breaker' = breaker /\ permit' = permit
    BY <1>2, <1>7, <2>1, ProbesUndisturbed
  <2>2. CASE /\ breaker' = [breaker EXCEPT ![i] = HalfOpened(breaker[i], "none")]
             /\ permit' \in {permit, Superseded(i)}
    <3>1. breaker'[i].probe = "none"
      BY <1>1, <1>5, <2>2 DEF ResilienceTypeOK
    <3>2. ASSUME NEW j \in Identities, j # i PROVE ProbeOwned(j)'
      <4>1. ProbeOwned(j) /\ breaker'[j] = breaker[j]
        BY <1>1, <2>2, <3>2, ProbesOwned DEF ResilienceTypeOK
      <4>2. \A d \in Calls : Identity(d) = j => permit'[d] = permit[d]
        BY <1>1, <2>2, <3>2, SupersededPermits
      <4> QED
        <5>1. ASSUME NEW d \in Calls, d = breaker[j].probe, pc[d] = "calling"
              PROVE  Identity(d) = j
          BY <4>1, <5>1, ResilienceAssumption DEF ProbeOwned
        <5> QED BY <1>1, <1>2, <1>7, <4>1, <4>2, <5>1, ProbeStays
    <3> QED BY <3>1, <3>2 DEF ProbeHasOwner, ProbeOwned
  <2> QED BY <1>4, <2>1, <2>2
<1> QED BY <1>3, <1>6, <1>8 DEF PolicyInv

\* The bucket throws: the slot stays counted, for a call that has ended, and a
\* probe that was reserved stays reserved for it.
LEMMA PacerThrowsKeepsPolicy ==
  ASSUME PolicyInv, NEW c \in Calls, PacerThrows(c)
  PROVE  PolicyInv'
<1> PICK i \in Identities : i = Identity(c)
  BY InPlan DEF PolicyInv
<1>1. ResilienceTypeOK /\ QueuesOK /\ OwnersOK /\ ProbeHasOwner
  BY DEF PolicyInv
<1>2. /\ pc[c] = "granted" /\ pc' = [pc EXCEPT ![c] = "lost"]
      /\ attempt' = [attempt EXCEPT ![c] = 1]
      /\ UNCHANGED <<at, aborted, slots, queue, bucket>>
  BY DEF PacerThrows, Allowed
<1>3. \/ breaker' = breaker /\ permit' = permit
      \/ /\ breaker' = [breaker EXCEPT ![i] = HalfOpened(breaker[i], c)]
         /\ permit' \in {permit, Superseded(i)}
  BY DEF PacerThrows, LeftBehind
<1>4. HalfOpened(breaker[i], c) \in Breakers
  BY <1>1, InPlan DEF HalfOpened, Breakers
<1>5. /\ permit' \in [Calls -> {"none", "closed", "half_open", "stale"}]
      /\ \A d \in Calls : Identity(d) # i => permit'[d] = permit[d]
  BY <1>1, <1>3, SupersededPermits DEF ResilienceTypeOK
<1>6. ResilienceTypeOK'
  <2>1. breaker \in [Identities -> Breakers]
    BY <1>1 DEF ResilienceTypeOK, Breakers
  <2>2. breaker' \in [Identities -> Breakers]
    BY <1>3, <1>4, <2>1
  <2>3. pc' \in [Calls -> Places]
    BY <1>1, <1>2 DEF ResilienceTypeOK, Places
  <2>4. attempt' \in [Calls -> 1 .. MaxAttempts]
    BY <1>1, <1>2, ResilienceAssumption DEF ResilienceTypeOK
  <2> QED BY <1>1, <1>2, <1>5, <2>2, <2>3, <2>4 DEF ResilienceTypeOK, Breakers
<1>7. \A d \in Calls : pc'[d] = IF d = c THEN "lost" ELSE pc[d]
  BY <1>1, <1>2 DEF ResilienceTypeOK
<1>8. QueuesOK' /\ OwnersOK'
  BY <1>1, <1>2, <1>7, QuietStep DEF Owning
<1>9. ProbeHasOwner'
  <2>1. CASE breaker' = breaker /\ permit' = permit
    BY <1>2, <1>7, <2>1, ProbesUndisturbed
  <2>2. CASE /\ breaker' = [breaker EXCEPT ![i] = HalfOpened(breaker[i], c)]
             /\ permit' \in {permit, Superseded(i)}
    <3>1. ProbeOwned(i)'
      <4>1. breaker'[i] = HalfOpened(breaker[i], c)
        BY <1>1, <2>2 DEF ResilienceTypeOK
      <4>2. breaker'[i].probe = c /\ breaker'[i].state = "half_open"
        BY <1>1, <4>1, InPlan DEF HalfOpened, Breakers
      <4>3. Identity(c)' = i
        BY <1>2 DEF Identity
      <4> QED BY <1>7, <4>2, <4>3 DEF ProbeOwned
    <3>2. ASSUME NEW j \in Identities, j # i PROVE ProbeOwned(j)'
      <4>1. ProbeOwned(j) /\ breaker'[j] = breaker[j]
        BY <1>1, <2>2, <3>2, ProbesOwned DEF ResilienceTypeOK
      <4>2. ASSUME NEW d \in Calls, d = breaker[j].probe
            PROVE  d # c /\ (pc[d] = "calling" => Identity(d) = j)
        BY <1>2, <4>1, <4>2, ResilienceAssumption DEF ProbeOwned
      <4> QED BY <1>1, <1>2, <1>5, <1>7, <3>2, <4>1, <4>2, ProbeStays
    <3> QED BY <3>1, <3>2 DEF ProbeHasOwner, ProbeOwned
  <2> QED BY <1>3, <2>1, <2>2
<1> QED BY <1>6, <1>8, <1>9 DEF PolicyInv

\* The call that is admitted by a circuit that is not closed becomes its probe.
LEMMA DispatchKeepsPolicy ==
  ASSUME PolicyInv, NEW c \in Calls, Dispatch(c)
  PROVE  PolicyInv'
<1> PICK i \in Identities : i = Identity(c)
  BY InPlan DEF PolicyInv
<1>1. ResilienceTypeOK /\ QueuesOK /\ OwnersOK /\ ProbeHasOwner
  BY DEF PolicyInv
<1>2. /\ pc[c] = "granted" /\ pc' = [pc EXCEPT ![c] = "calling"]
      /\ bucket' \in [Identities -> Buckets]
      /\ UNCHANGED <<at, attempt, aborted, slots, queue>>
  BY <1>1 DEF Dispatch, Allowed, ResilienceTypeOK, Buckets
<1>3. \/ /\ breaker[i].state = "closed" /\ breaker' = [breaker EXCEPT ![i] = @]
         /\ permit' = [permit EXCEPT ![c] = "closed"]
      \/ /\ breaker' = [breaker EXCEPT ![i] = HalfOpened(breaker[i], c)]
         /\ \/ permit' = [permit EXCEPT ![c] = "half_open"]
            \/ permit' = [Superseded(i) EXCEPT ![c] = "half_open"]
  BY DEF Dispatch
<1>4. HalfOpened(breaker[i], c) \in Breakers
  BY <1>1, InPlan DEF HalfOpened, Breakers
<1>5. /\ permit' \in [Calls -> {"none", "closed", "half_open", "stale"}]
      /\ \A d \in Calls \ {c} : Identity(d) # i => permit'[d] = permit[d]
  <2>1. permit \in [Calls -> {"none", "closed", "half_open", "stale"}]
    BY <1>1 DEF ResilienceTypeOK
  <2> QED BY <1>1, <1>3, <2>1, SupersededPermits
<1>6. ResilienceTypeOK'
  <2>1. breaker \in [Identities -> Breakers]
    BY <1>1 DEF ResilienceTypeOK, Breakers
  <2>2. breaker' \in [Identities -> Breakers]
    BY <1>3, <1>4, <2>1
  <2>3. pc' \in [Calls -> Places] /\ bucket' \in [Identities -> Buckets]
    BY <1>1, <1>2 DEF ResilienceTypeOK, Places
  <2> QED BY <1>1, <1>2, <1>5, <2>2, <2>3 DEF ResilienceTypeOK, Breakers, Buckets
<1>7. \A d \in Calls : pc'[d] = IF d = c THEN "calling" ELSE pc[d]
  BY <1>1, <1>2 DEF ResilienceTypeOK
<1>8. QueuesOK' /\ OwnersOK'
  BY <1>1, <1>2, <1>7, QuietStep DEF Owning
<1>9. ProbeHasOwner'
  <2>1. ASSUME NEW j \in Identities, j # i PROVE ProbeOwned(j)'
    <3>1. ProbeOwned(j) /\ breaker'[j] = breaker[j]
      BY <1>1, <1>3, <2>1, ProbesOwned DEF ResilienceTypeOK
    <3>2. ASSUME NEW d \in Calls, d = breaker[j].probe
          PROVE  d # c /\ (pc[d] = "calling" => Identity(d) = j)
      BY <1>2, <3>1, <3>2, ResilienceAssumption DEF ProbeOwned
    <3> QED BY <1>1, <1>2, <1>5, <1>7, <2>1, <3>1, <3>2, ProbeStays
  <2>2. ProbeOwned(i)'
    <3>1. CASE /\ breaker[i].state = "closed" /\ breaker' = [breaker EXCEPT ![i] = @]
      <4>1. ProbeOwned(i) /\ breaker'[i].probe = breaker[i].probe
        BY <1>1, <3>1, ProbesOwned DEF ResilienceTypeOK
      <4> QED BY <3>1, <4>1 DEF ProbeOwned
    <3>2. CASE /\ breaker' = [breaker EXCEPT ![i] = HalfOpened(breaker[i], c)]
               /\ permit'[c] = "half_open"
      <4>1. breaker'[i] = HalfOpened(breaker[i], c)
        BY <1>1, <3>2 DEF ResilienceTypeOK
      <4>2. breaker'[i].probe = c /\ breaker'[i].state = "half_open"
        BY <1>1, <4>1, InPlan DEF HalfOpened, Breakers
      <4>3. Identity(c)' = i
        BY <1>2 DEF Identity
      <4> QED BY <1>7, <3>2, <4>2, <4>3 DEF ProbeOwned
    <3>3. permit \in [Calls -> {"none", "closed", "half_open", "stale"}]
      BY <1>1 DEF ResilienceTypeOK
    <3> QED BY <1>1, <1>3, <3>1, <3>2, <3>3, SupersededPermits
  <2> QED BY <2>1, <2>2 DEF ProbeHasOwner, ProbeOwned
<1> QED BY <1>6, <1>8, <1>9 DEF PolicyInv

\* The answer of a provider call, whatever becomes of the call afterwards.
LEMMA SettlesKeeps ==
  ASSUME PolicyInv, NEW c \in Calls, pc[c] = "calling",
         NEW verdict \in {"ok", "counted", "uncounted"},
         NEW place \in {"done", "sleeping", "head"},
         Settles(c, verdict, place),
         \A d \in Calls \ {c} : at'[d] = at[d]
  PROVE  /\ QueuesOK' /\ OwnersOK' /\ ProbeHasOwner'
         /\ slots' \in [Identities -> 0 .. MaxConcurrency]
         /\ queue' \in [Identities -> Seq(Calls)]
         /\ pc' \in [Calls -> Places]
         /\ permit' \in [Calls -> {"none", "closed", "half_open", "stale"}]
         /\ breaker' \in [Identities -> Breakers]
<1> PICK i \in Identities : i = Identity(c)
  BY InPlan DEF PolicyInv
<1>1. ResilienceTypeOK /\ QueuesOK /\ OwnersOK /\ ProbeHasOwner
  BY DEF PolicyInv
<1>2. /\ pc' = Moved(c, place, Handed(Identity(c)), Notified(c, verdict))
      /\ Release(Identity(c))
      /\ breaker' = [breaker EXCEPT ![i] = AfterVerdict(c, verdict)]
      /\ \/ permit' = [permit EXCEPT ![c] = "none"]
         \/ Valid(c) /\ permit' = [Superseded(i) EXCEPT ![c] = "none"]
  BY DEF Settles, NewGeneration
<1>3. \A d \in Notified(c, verdict) : pc[d] = "probing"
  BY DEF Notified
<1>4. /\ QueuesOK' /\ OwnersOK'
      /\ slots' \in [Identities -> 0 .. MaxConcurrency]
      /\ queue' \in [Identities -> Seq(Calls)]
      /\ pc' \in [Calls -> Places]
  BY <1>1, <1>2, <1>3, GivenBack DEF Owning, Places
<1>5. breaker \in [Identities -> Breakers]
  BY <1>1 DEF ResilienceTypeOK, Breakers
<1>6. breaker' \in [Identities -> Breakers]
  BY <1>1, <1>2, <1>5, VerdictIsTyped
<1>7. permit \in [Calls -> {"none", "closed", "half_open", "stale"}]
  BY <1>1 DEF ResilienceTypeOK
<1>8. permit' \in [Calls -> {"none", "closed", "half_open", "stale"}]
  BY <1>1, <1>2, <1>7, SupersededPermits
<1>9. \A d \in Calls \ {c} : pc[d] \in {"calling", "misreported", "lost"} => pc'[d] = pc[d]
  BY <1>1, <1>2, <1>3, OthersStay
<1>10. ASSUME NEW j \in Identities, j # i PROVE ProbeOwned(j)'
  <2>1. ProbeOwned(j) /\ breaker'[j] = breaker[j]
    BY <1>1, <1>2, <1>5, <1>10, ProbesOwned
  <2>2. ASSUME NEW d \in Calls, d = breaker[j].probe
        PROVE  d # c /\ (pc[d] = "calling" => permit'[d] = permit[d])
    <3>1. pc[d] = "calling" => Identity(d) = j
      BY <2>1, <2>2, ResilienceAssumption DEF ProbeOwned
    <3>2. d # c
      BY <1>10, <3>1
    <3>3. CASE permit' = [permit EXCEPT ![c] = "none"]
      BY <1>7, <3>2, <3>3
    <3>4. CASE permit' = [Superseded(i) EXCEPT ![c] = "none"]
      BY <1>1, <1>10, <3>1, <3>2, <3>4, SupersededPermits
    <3> QED BY <1>2, <3>2, <3>3, <3>4
  <2> QED BY <1>1, <1>9, <2>1, <2>2, ProbeStays
<1>11. ProbeOwned(i)'
  <2>1. ProbeOwned(i) /\ breaker'[i] = AfterVerdict(c, verdict)
    BY <1>1, <1>2, <1>5, ProbesOwned
  <2>2. CASE Valid(c)
    <3>1. breaker'[i].probe = "none"
      BY <1>1, <2>1, <2>2, VerdictEndsProbe
    <3> QED BY <3>1 DEF ProbeOwned
  <2>3. CASE ~Valid(c)
    <3>1. breaker'[i] = breaker[i]
      BY <1>1, <2>1, <2>3, VerdictEndsProbe
    <3>2. permit' = [permit EXCEPT ![c] = "none"]
      BY <1>2, <2>3
    <3>3. c # breaker[i].probe
      <4>1. SUFFICES ASSUME c = breaker[i].probe PROVE FALSE
        OBVIOUS
      <4>2. permit[c] = "half_open" /\ breaker[i].state = "half_open"
        BY <2>1, <4>1, ResilienceAssumption DEF ProbeOwned
      <4> QED BY <2>3, <4>1, <4>2 DEF Valid
    <3> QED BY <1>1, <1>7, <1>9, <2>1, <3>1, <3>2, <3>3, ProbeStays
  <2> QED BY <2>2, <2>3
<1>12. ProbeHasOwner'
  BY <1>10, <1>11 DEF ProbeHasOwner, ProbeOwned
<1> QED BY <1>4, <1>6, <1>8, <1>12

\* execute ends with the answer.
LEMMA EndedKeepsPolicy ==
  ASSUME PolicyInv, NEW c \in Calls, pc[c] = "calling",
         NEW verdict \in {"ok", "counted", "uncounted"}, Ended(c, verdict),
         bucket' \in [Identities -> Buckets]
  PROVE  PolicyInv'
<1>1. ResilienceTypeOK
  BY DEF PolicyInv
<1>2. Settles(c, verdict, "done") /\ Forgets(c)
  BY DEF Ended
<1>3. /\ QueuesOK' /\ OwnersOK' /\ ProbeHasOwner'
      /\ slots' \in [Identities -> 0 .. MaxConcurrency]
      /\ queue' \in [Identities -> Seq(Calls)]
      /\ pc' \in [Calls -> Places]
      /\ permit' \in [Calls -> {"none", "closed", "half_open", "stale"}]
      /\ breaker' \in [Identities -> Breakers]
  BY <1>1, <1>2, ForgetsTyped, SettlesKeeps
<1>4. ResilienceTypeOK'
  BY <1>1, <1>2, <1>3, ForgetsTyped DEF ResilienceTypeOK, Breakers, Buckets
<1> QED BY <1>3, <1>4 DEF PolicyInv

\* A retry of the identity, or the next one of the plan.
LEMMA GoesOnKeepsPolicy ==
  ASSUME PolicyInv, NEW c \in Calls, pc[c] = "calling",
         NEW verdict \in {"counted", "uncounted"},
         NEW place \in {"sleeping", "head"}, Settles(c, verdict, place),
         aborted' = aborted, bucket' \in [Identities -> Buckets],
         \/ /\ attempt[c] < MaxAttempts
            /\ attempt' = [attempt EXCEPT ![c] = @ + 1] /\ at' = at
         \/ /\ at[c] < Len(PlanOf[c])
            /\ at' = [at EXCEPT ![c] = @ + 1]
            /\ attempt' = [attempt EXCEPT ![c] = 1]
  PROVE  PolicyInv'
<1>1. ResilienceTypeOK
  BY DEF PolicyInv
<1>2. /\ at \in [Calls -> Nat] /\ attempt \in [Calls -> 1 .. MaxAttempts]
      /\ \A d \in Calls : at[d] \in DOMAIN PlanOf[d]
      /\ MaxAttempts \in Nat \ {0} /\ PlanOf[c] \in Seq(Identities)
  BY <1>1, ResilienceAssumption DEF ResilienceTypeOK
<1>3. /\ at' \in [Calls -> Nat] /\ attempt' \in [Calls -> 1 .. MaxAttempts]
      /\ \A d \in Calls \ {c} : at'[d] = at[d]
  <2>1. CASE /\ attempt[c] < MaxAttempts
             /\ attempt' = [attempt EXCEPT ![c] = @ + 1] /\ at' = at
    <3>1. attempt[c] + 1 \in 1 .. MaxAttempts
      BY <1>2, <2>1
    <3> QED BY <1>2, <2>1, <3>1
  <2>2. CASE /\ at' = [at EXCEPT ![c] = @ + 1]
             /\ attempt' = [attempt EXCEPT ![c] = 1]
    <3>1. 1 \in 1 .. MaxAttempts /\ at[c] + 1 \in Nat
      BY <1>2
    <3> QED BY <1>2, <2>2, <3>1
  <2> QED BY <2>1, <2>2
<1>4. at'[c] \in DOMAIN PlanOf[c]
  <2>1. at[c] \in 1 .. Len(PlanOf[c]) /\ Len(PlanOf[c]) \in Nat
    BY <1>2
  <2>2. at'[c] \in {at[c], at[c] + 1} /\ at'[c] <= Len(PlanOf[c])
    BY <1>2, <2>1
  <2> QED BY <1>2, <2>1, <2>2
<1>5. /\ QueuesOK' /\ OwnersOK' /\ ProbeHasOwner'
      /\ slots' \in [Identities -> 0 .. MaxConcurrency]
      /\ queue' \in [Identities -> Seq(Calls)]
      /\ pc' \in [Calls -> Places]
      /\ permit' \in [Calls -> {"none", "closed", "half_open", "stale"}]
      /\ breaker' \in [Identities -> Breakers]
  BY <1>3, SettlesKeeps
<1>6. \A d \in Calls : at'[d] \in DOMAIN PlanOf[d]
  BY <1>2, <1>3, <1>4
<1>7. ResilienceTypeOK'
  BY <1>1, <1>3, <1>5, <1>6 DEF ResilienceTypeOK, Breakers, Buckets
<1> QED BY <1>5, <1>7 DEF PolicyInv

LEMMA FailKeepsPolicy ==
  ASSUME PolicyInv, NEW c \in Calls, Fail(c)
  PROVE  PolicyInv'
<1>1. PICK retryable \in BOOLEAN, fallbackAllowed \in BOOLEAN :
        /\ Fails(c, retryable, fallbackAllowed)
        /\ \/ UNCHANGED bucket
           \/ bucket' = [bucket EXCEPT ![Identity(c)] = "blocked"]
  BY DEF Fail
<1> DEFINE verdict == IF retryable THEN "counted" ELSE "uncounted"
<1>2. verdict \in {"counted", "uncounted"} /\ pc[c] = "calling"
  BY <1>1 DEF Fails
<1>3. bucket' \in [Identities -> Buckets]
  BY <1>1 DEF PolicyInv, ResilienceTypeOK, Buckets
<1>4. \/ Ended(c, verdict)
      \/ /\ attempt[c] < MaxAttempts /\ Settles(c, verdict, "sleeping")
         /\ attempt' = [attempt EXCEPT ![c] = @ + 1] /\ at' = at /\ aborted' = aborted
      \/ /\ at[c] < Len(PlanOf[c]) /\ Settles(c, verdict, "head")
         /\ at' = [at EXCEPT ![c] = @ + 1] /\ aborted' = aborted
         /\ attempt' = [attempt EXCEPT ![c] = 1]
  BY <1>1 DEF Fails
<1> HIDE DEF verdict
<1> QED BY <1>2, <1>3, <1>4, EndedKeepsPolicy, GoesOnKeepsPolicy

LEMMA SucceedKeepsPolicy ==
  ASSUME PolicyInv, NEW c \in Calls, Succeed(c)
  PROVE  PolicyInv'
<1>1. pc[c] = "calling" /\ Ended(c, "ok") /\ bucket' = bucket
  BY DEF Succeed
<1>2. bucket' \in [Identities -> Buckets]
  BY <1>1 DEF PolicyInv, ResilienceTypeOK, Buckets
<1> QED BY <1>1, <1>2, EndedKeepsPolicy

\* The breaker never hears of this failure: its probe, if it was one, stays.
LEMMA FailUndeferrableKeepsPolicy ==
  ASSUME PolicyInv, NEW c \in Calls, FailUndeferrable(c)
  PROVE  PolicyInv'
<1>1. ResilienceTypeOK /\ QueuesOK /\ OwnersOK /\ ProbeHasOwner
  BY DEF PolicyInv
<1>2. /\ pc[c] = "calling" /\ Forgets(c)
      /\ pc' = Moved(c, "misreported", Handed(Identity(c)), {})
      /\ Release(Identity(c))
      /\ permit' = [permit EXCEPT ![c] = "none"]
      /\ breaker' = breaker /\ bucket' = bucket
  BY DEF FailUndeferrable, GiveBack
<1>3. /\ QueuesOK' /\ OwnersOK'
      /\ slots' \in [Identities -> 0 .. MaxConcurrency]
      /\ queue' \in [Identities -> Seq(Calls)]
      /\ pc' \in [Calls -> Places]
  BY <1>1, <1>2, ForgetsTyped, GivenBack DEF Owning, Places
<1>4. ResilienceTypeOK'
  <2>1. permit' \in [Calls -> {"none", "closed", "half_open", "stale"}]
    BY <1>1, <1>2 DEF ResilienceTypeOK
  <2> QED BY <1>1, <1>2, <1>3, <2>1, ForgetsTyped DEF ResilienceTypeOK
<1>5. \A d \in Calls \ {c} :
        /\ pc[d] \in {"calling", "misreported", "lost"} => pc'[d] = pc[d]
        /\ at'[d] = at[d] /\ permit'[d] = permit[d]
  <2>1. \A d \in Calls \ {c} : permit'[d] = permit[d]
    BY <1>1, <1>2 DEF ResilienceTypeOK
  <2>2. \A d \in Calls \ {c} : at'[d] = at[d]
    BY <1>1, <1>2, ForgetsTyped
  <2> QED BY <1>1, <1>2, <2>1, <2>2, OthersStay
<1>6. pc'[c] = "misreported"
  BY <1>2 DEF Moved
<1>7. ASSUME NEW j \in Identities PROVE ProbeOwned(j)'
  <2>1. ProbeOwned(j)
    BY <1>1, ProbesOwned
  <2> QED BY <1>1, <1>2, <1>5, <1>6, <2>1, ProbeStays
<1>8. ProbeHasOwner'
  BY <1>7 DEF ProbeHasOwner, ProbeOwned
<1> QED BY <1>3, <1>4, <1>8 DEF PolicyInv

\* Time passes for a breaker or a bucket.
LEMMA CooledKeepsPolicy ==
  ASSUME PolicyInv, NEW i \in Identities, Cooled(i)
  PROVE  PolicyInv'
<1>1. ResilienceTypeOK /\ QueuesOK /\ OwnersOK /\ ProbeHasOwner
  BY DEF PolicyInv
<1>2. /\ breaker[i].state = "open"
      /\ breaker' = [breaker EXCEPT ![i].cooled = TRUE]
      /\ UNCHANGED <<pc, at, attempt, permit, aborted, slots, queue, bucket>>
  BY DEF Cooled, callVars
<1>3. ResilienceTypeOK'
  BY <1>1, <1>2, ZenonT(60) DEF ResilienceTypeOK
<1>4. QueuesOK' /\ OwnersOK'
  BY <1>1, <1>2, QuietStep
<1>5. ASSUME NEW j \in Identities PROVE breaker'[j].probe = breaker[j].probe
                                        /\ breaker'[j].state = breaker[j].state
  BY <1>1, <1>2 DEF ResilienceTypeOK
<1>6. ProbeHasOwner'
  BY <1>1, <1>2, <1>5 DEF ProbeHasOwner, Identity
<1> QED BY <1>3, <1>4, <1>6 DEF PolicyInv

LEMMA EligibleKeepsPolicy ==
  ASSUME PolicyInv, NEW i \in Identities, Eligible(i)
  PROVE  PolicyInv'
<1>1. ResilienceTypeOK /\ QueuesOK /\ OwnersOK /\ ProbeHasOwner
  BY DEF PolicyInv
<1>2. /\ bucket' = [bucket EXCEPT ![i] = "eligible"]
      /\ UNCHANGED <<pc, at, attempt, permit, aborted, slots, queue, breaker>>
  BY DEF Eligible, callVars
<1>3. ResilienceTypeOK'
  BY <1>1, <1>2 DEF ResilienceTypeOK
<1>4. QueuesOK' /\ OwnersOK'
  BY <1>1, <1>2, QuietStep
<1>5. ProbeHasOwner'
  BY <1>2, ProbesUndisturbed
<1> QED BY <1>3, <1>4, <1>5 DEF PolicyInv

\* The restored breakers have no probe.
LEMMA ReinstantiateKeepsPolicy ==
  ASSUME PolicyInv, Reinstantiate
  PROVE  PolicyInv'
<1>1. ResilienceTypeOK /\ ProbeHasOwner
  BY DEF PolicyInv
<1>2. ASSUME NEW i \in Identities
      PROVE  breaker'[i] \in Breakers /\ breaker'[i].probe = "none"
  <2> PICK b \in Breakers : b = breaker[i]
    BY <1>1 DEF ResilienceTypeOK, Breakers
  <2>1. breaker'[i] = IF b.state = "half_open" THEN Opened(b) ELSE b
    BY DEF Reinstantiate
  <2>2. Opened(b) \in Breakers /\ Opened(b).probe = "none"
    BY DEF Opened, Breakers
  <2>3. b.state # "half_open" => b.probe = "none"
    BY <1>1 DEF ProbeHasOwner
  <2> QED BY <2>1, <2>2, <2>3
<1>3. ResilienceTypeOK'
  <2>1. \A d \in Calls : 1 \in DOMAIN PlanOf[d]
    BY ResilienceAssumption
  <2>2. /\ at' = [c \in Calls |-> 1] /\ attempt' = [c \in Calls |-> 1]
        /\ permit' = [c \in Calls |-> "none"] /\ aborted' = [c \in Calls |-> FALSE]
        /\ slots' = [i \in Identities |-> 0]
        /\ queue' = [i \in Identities |-> << >>] /\ bucket' = bucket
        /\ pc' \in [Calls -> Places]
    BY DEF Reinstantiate, Places
  <2>3. breaker' \in [Identities -> Breakers]
    BY <1>2 DEF Reinstantiate
  <2>4. slots' \in [Identities -> 0 .. MaxConcurrency]
        /\ attempt' \in [Calls -> 1 .. MaxAttempts]
    BY <2>2, ResilienceAssumption
  <2> QED BY <1>1, <2>1, <2>2, <2>3, <2>4 DEF ResilienceTypeOK, Breakers
<1>4. ProbeHasOwner'
  BY <1>2 DEF ProbeHasOwner
<1> QED BY <1>3, <1>4, FreshAccounted DEF PolicyInv

-----------------------------------------------------------------------------
(* The invariant *)

LEMMA PolicyInvInitially ==
  ASSUME Init PROVE PolicyInv
<1>1. \A c \in Calls : 1 \in DOMAIN PlanOf[c]
  BY ResilienceAssumption
<1>2. ClosedBreaker \in Breakers /\ ClosedBreaker.probe = "none"
  BY ResilienceAssumption DEF ClosedBreaker, Breakers
<1>3. ResilienceTypeOK
  BY <1>1, <1>2, ResilienceAssumption DEF Init, ResilienceTypeOK, Places, Breakers
<1>4. QueuesOK
  BY DEF Init, QueuesOK, Once, Listed
<1>5. OwnersOK
  <2>1. \A i \in Identities : Holders(i) = {}
    BY DEF Init, Holders, Owning
  <2> QED BY <2>1, FS_EmptySet DEF Init, OwnersOK
<1>6. ProbeHasOwner
  BY <1>2 DEF Init, ProbeHasOwner
<1> QED BY <1>3, <1>4, <1>5, <1>6 DEF PolicyInv

LEMMA PolicyInvInductive ==
  ASSUME PolicyInv, [Next]_vars PROVE PolicyInv'
<1>1. ASSUME NEW c \in Calls, PolicyStep(c) PROVE PolicyInv'
  <2>1. CASE Enter(c)
    BY <2>1, EnterKeepsPolicy
  <2>2. CASE GrantedAborted(c)
    BY <2>2, GrantedAbortedKeepsPolicy
  <2>3. CASE Denied(c)
    BY <2>3, DeniedKeepsPolicy
  <2>4. CASE Paced(c)
    BY <2>4, PacedKeepsPolicy
  <2>5. CASE Dispatch(c)
    BY <2>5, DispatchKeepsPolicy
  <2>6. CASE Wake(c)
    BY <2>6, StartKeepsPolicy
  <2>7. CASE PacerThrows(c)
    BY <2>7, PacerThrowsKeepsPolicy
  <2> QED BY <1>1, <2>1, <2>2, <2>3, <2>4, <2>5, <2>6, <2>7 DEF PolicyStep
<1>2. ASSUME NEW c \in Calls, Returns(c) PROVE PolicyInv'
  <2>1. CASE Succeed(c)
    BY <2>1, SucceedKeepsPolicy
  <2>2. CASE Fail(c)
    BY <2>2, FailKeepsPolicy
  <2>3. CASE FailUndeferrable(c)
    BY <2>3, FailUndeferrableKeepsPolicy
  <2> QED BY <1>2, <2>1, <2>2, <2>3 DEF Returns
<1>3. ASSUME NEW c \in Calls, Start(c) PROVE PolicyInv'
  BY <1>3, StartKeepsPolicy
<1>4. ASSUME NEW c \in Calls, Expire(c) PROVE PolicyInv'
  BY <1>4, LeaveKeepsPolicy DEF Expire
<1>5. ASSUME NEW c \in Calls, Abort(c) PROVE PolicyInv'
  BY <1>5, AbortKeepsPolicy
<1>6. ASSUME NEW i \in Identities, Cooled(i) PROVE PolicyInv'
  BY <1>6, CooledKeepsPolicy
<1>7. ASSUME NEW i \in Identities, Eligible(i) PROVE PolicyInv'
  BY <1>7, EligibleKeepsPolicy
<1>8. CASE Reinstantiate
  BY <1>8, ReinstantiateKeepsPolicy
<1>9. CASE UNCHANGED vars
  <2>1. UNCHANGED <<pc, at, attempt, permit, aborted, slots, queue, breaker, bucket>>
    BY <1>9 DEF vars, callVars
  <2>2. QueuesOK' /\ OwnersOK'
    BY <2>1, QuietStep DEF PolicyInv
  <2>3. ProbeHasOwner'
    BY <2>1, ProbesUndisturbed
  <2>4. ResilienceTypeOK'
    BY <2>1 DEF PolicyInv, ResilienceTypeOK
  <2> QED BY <2>2, <2>3, <2>4 DEF PolicyInv
<1> QED BY <1>1, <1>2, <1>3, <1>4, <1>5, <1>6, <1>7, <1>8, <1>9 DEF Next

\* The inductive invariant holds in every reachable state.
THEOREM PolicyInvariant == Spec => []PolicyInv
<1>1. Init => PolicyInv
  BY PolicyInvInitially
<1>2. PolicyInv /\ [Next]_vars => PolicyInv'
  BY PolicyInvInductive
<1> QED BY <1>1, <1>2, PTL DEF Spec

\* Every call stays within its plan and its attempts, every identity within its
\* bound: inFlight never leaves 0 .. MaxConcurrency and a breaker never counts
\* beyond its threshold (provider-resilience.ts:489, 786).
THEOREM ResilienceIsTyped == Spec => []ResilienceTypeOK
<1>1. PolicyInv => ResilienceTypeOK
  BY DEF PolicyInv
<1> QED BY <1>1, PolicyInvariant, PTL

\* No slot is doubled, and none is lost but by a throw of tryAcquire, whatever
\* the order of hand-offs, aborts, deadlines, waits and restarts
\* (provider-resilience.ts:541, 1248 and 1317).
THEOREM SlotsAreAccounted == Spec => []SlotsAccounted
<1>1. ASSUME PolicyInv PROVE SlotsAccounted
  <2>1. ASSUME NEW i \in Identities
        PROVE  /\ slots[i] = Cardinality(Owners(i) \cup LostOn(i))
               /\ queue[i] # << >> => slots[i] = MaxConcurrency
    <3>1. Owners(i) \cup LostOn(i) = Holders(i)
      BY DEF Owners, LostOn, Holders, Owning
    <3> QED BY <1>1, <3>1 DEF PolicyInv, OwnersOK
  <2>2. ASSUME NEW i \in Identities, NEW c \in Calls,
               pc[c] = "queued", Identity(c) = i
        PROVE  Cardinality({k \in DOMAIN queue[i] : queue[i][k] = c}) = 1
    <3>1. Listed(queue[i], c) /\ Once(queue[i])
      BY <1>1, <2>2 DEF PolicyInv, QueuesOK
    <3>2. PICK k \in DOMAIN queue[i] : queue[i][k] = c
      BY <3>1 DEF Listed
    <3>3. {j \in DOMAIN queue[i] : queue[i][j] = c} = {k}
      BY <3>1, <3>2 DEF Once
    <3> QED BY <3>3, FS_Singleton
  <2>3. ASSUME NEW i \in Identities, NEW k \in DOMAIN queue[i]
        PROVE  pc[queue[i][k]] = "queued" /\ Identity(queue[i][k]) = i
    <3>1. queue[i] \in Seq(Calls)
      BY <1>1 DEF PolicyInv, ResilienceTypeOK
    <3>2. queue[i][k] \in Calls /\ Listed(queue[i], queue[i][k])
      BY <3>1 DEF Listed
    <3> QED BY <1>1, <3>2 DEF PolicyInv, QueuesOK
  <2> QED BY <2>1, <2>2, <2>3 DEF SlotsAccounted
<1> QED BY <1>1, PolicyInvariant, PTL

\* A reserved probe is a call in flight, after any restart too, unless its
\* verdict was kept from the breaker, or its call from being made, by a throw
\* of the token bucket (provider-resilience.ts:1205, 1377 and 1317).
THEOREM ProbesAreOwned == Spec => []ProbeHasOwner
<1>1. PolicyInv => ProbeHasOwner
  BY DEF PolicyInv
<1> QED BY <1>1, PolicyInvariant, PTL

-----------------------------------------------------------------------------
(* What a step may not do *)

\* A call that returns reports one verdict.
LEMMA AnswerSettles ==
  ASSUME NEW c \in Calls, Succeed(c) \/ Fail(c)
  PROVE  /\ pc[c] = "calling"
         /\ \E verdict \in {"ok", "counted", "uncounted"},
               place \in {"done", "sleeping", "head"} : Settles(c, verdict, place)
BY DEF Succeed, Fail, Fails, Ended

\* A half-open circuit is closed or opened again by the return of its own probe
\* only, never by a call of an earlier generation (provider-resilience.ts:828).
THEOREM OnlyProbesEndHalfOpen == Spec => HalfOpenEndsByProbe
<1> DEFINE Ends(i) ==
      /\ breaker[i].state = "half_open"
      /\ breaker'[i].state # "half_open"
      => \/ /\ breaker[i].probe # "none"
            /\ pc[breaker[i].probe] = "calling"
            /\ pc'[breaker[i].probe] # "calling"
         \/ \A c \in Calls : pc'[c] \in {"idle", "done"}
<1>1. ASSUME PolicyInv, [Next]_vars, NEW i \in Identities PROVE Ends(i)
  <2>0. breaker \in [Identities -> Breakers] /\ ResilienceTypeOK
    BY <1>1 DEF PolicyInv, ResilienceTypeOK, Breakers
  <2>1. CASE breaker' = breaker
    BY <2>1
  <2>2. ASSUME NEW c \in Calls, Paced(c) \/ PacerThrows(c) PROVE Ends(i)
    BY <2>0, <2>2 DEF Paced, PacerThrows, LeftBehind, HalfOpened, Breakers
  <2>3. ASSUME NEW c \in Calls, Dispatch(c) PROVE Ends(i)
    <3>1. \/ breaker' = [breaker EXCEPT ![Identity(c)] = @]
          \/ breaker' = [breaker EXCEPT ![Identity(c)] = HalfOpened(@, c)]
      BY <2>3 DEF Dispatch
    <3> QED BY <2>0, <3>1 DEF HalfOpened, Breakers
  <2>4. ASSUME NEW c \in Calls, pc[c] = "calling",
               NEW verdict, NEW place \in {"done", "sleeping", "head"},
               Settles(c, verdict, place)
        PROVE  Ends(i)
    <3>1. SUFFICES ASSUME breaker[i].state = "half_open",
                          breaker'[i].state # "half_open"
                   PROVE  /\ breaker[i].probe # "none"
                          /\ pc[breaker[i].probe] = "calling"
                          /\ pc'[breaker[i].probe] # "calling"
      OBVIOUS
    <3>2. i = Identity(c) /\ breaker'[i] = AfterVerdict(c, verdict)
      BY <2>0, <2>4, <3>1 DEF Settles
    <3>3. breaker[i].probe = c
      BY <2>0, <3>1, <3>2, VerdictOfHalfOpen
    <3>4. pc'[c] = place /\ c # "none"
      BY <2>4, ResilienceAssumption DEF Settles, Moved
    <3> QED BY <2>4, <3>3, <3>4
  <2>5. ASSUME NEW c \in Calls, Succeed(c) \/ Fail(c) PROVE Ends(i)
    BY <2>4, <2>5, AnswerSettles
  <2>6. ASSUME NEW j \in Identities, Cooled(j) PROVE Ends(i)
    BY <2>0, <2>6 DEF Cooled, Breakers
  <2>7. CASE Reinstantiate
    BY <2>7 DEF Reinstantiate
  <2>8. \/ breaker' = breaker
        \/ \E c \in Calls : \/ Paced(c) \/ PacerThrows(c) \/ Dispatch(c)
                            \/ Succeed(c) \/ Fail(c)
        \/ \E j \in Identities : Cooled(j)
        \/ Reinstantiate
    BY <1>1 DEF Next, PolicyStep, Returns, Start, Enter, Leave, GrantedAborted,
                Denied, Wake, FailUndeferrable, Expire, Abort, Eligible, vars
  <2> QED BY <2>1, <2>2, <2>3, <2>5, <2>6, <2>7, <2>8
<1>2. PolicyInv /\ [Next]_vars => [\A i \in Identities : Ends(i)]_vars
  BY <1>1
<1> QED BY <1>2, PolicyInvariant, PTL DEF Spec, HalfOpenEndsByProbe

\* A provider call is started by a call whose signal is not aborted, although
\* the abort may come while the slot is handed over, with the code that
\* receives it already scheduled (provider-resilience.ts:1248).
THEOREM AbortedNeverCalls == Spec => NoCallAfterAbort
<1> DEFINE Begins(d) == pc[d] # "calling" /\ pc'[d] = "calling"
<1>1. ASSUME PolicyInv, [Next]_vars, NEW d \in Calls, Begins(d)
      PROVE  ~aborted[d]
  <2>0. ResilienceTypeOK /\ QueuesOK
    BY <1>1 DEF PolicyInv
  <2>1. ASSUME NEW c \in Calls, Dispatch(c) PROVE ~aborted[d]
    BY <1>1, <2>0, <2>1 DEF Dispatch, Allowed, ResilienceTypeOK
  <2>2. ASSUME NEW c \in Calls, NEW place \in Places \ {"calling"},
               pc' = [pc EXCEPT ![c] = place]
        PROVE  FALSE
    BY <1>1, <2>0, <2>2 DEF ResilienceTypeOK
  <2>3. ASSUME NEW c \in Calls, NEW place \in Places \ {"calling"},
               NEW woken, \A e \in woken : pc[e] = "probing",
               pc' = Moved(c, place, Handed(Identity(c)), woken)
        PROVE  FALSE
    <3>1. pc'[c] = place
      BY <2>3 DEF Moved
    <3> QED BY <1>1, <2>0, <2>3, <3>1, OthersStay
  <2>4. ASSUME NEW c \in Calls, GrantedAborted(c) \/ Denied(c) \/ Paced(c)
                                  \/ FailUndeferrable(c)
        PROVE  FALSE
    <3>1. \E place \in Places \ {"calling"} :
            pc' = Moved(c, place, Handed(Identity(c)), {})
      BY <2>4 DEF GrantedAborted, Denied, Paced, FailUndeferrable, GiveBack, Places
    <3> QED BY <2>3, <3>1
  <2>5. ASSUME NEW c \in Calls, Succeed(c) \/ Fail(c) PROVE FALSE
    <3>1. PICK verdict \in {"ok", "counted", "uncounted"},
               place \in {"done", "sleeping", "head"} : Settles(c, verdict, place)
      BY <2>5, AnswerSettles
    <3>2. \A e \in Notified(c, verdict) : pc[e] = "probing"
      BY DEF Notified
    <3>3. pc' = Moved(c, place, Handed(Identity(c)), Notified(c, verdict))
      BY <3>1 DEF Settles
    <3> QED BY <2>3, <3>2, <3>3 DEF Places
  <2>6. ASSUME NEW c \in Calls, Start(c) \/ Enter(c) \/ PacerThrows(c) \/ Wake(c)
                                  \/ Expire(c)
        PROVE  FALSE
    <3>1. \E place \in Places \ {"calling"} : pc' = [pc EXCEPT ![c] = place]
      BY <2>6 DEF Start, Enter, PacerThrows, Wake, Expire, Leave, Places
    <3> QED BY <2>2, <3>1
  <2>7. ASSUME NEW c \in Calls, Abort(c), pc' # pc PROVE FALSE
    BY <2>2, <2>7 DEF Abort, Leave, Places
  <2>8. ASSUME Reinstantiate PROVE FALSE
    BY <1>1, <2>8 DEF Reinstantiate
  <2>9. ASSUME NEW i \in Identities, Cooled(i) \/ Eligible(i) PROVE pc' = pc
    BY <2>9 DEF Cooled, Eligible
  <2> QED BY <1>1, <2>1, <2>4, <2>5, <2>6, <2>7, <2>8, <2>9
          DEF Next, PolicyStep, Returns, vars
<1>2. PolicyInv /\ [Next]_vars =>
        [\A c \in Calls : Begins(c) => ~aborted[c]]_vars
  BY <1>1
<1> QED BY <1>2, PolicyInvariant, PTL DEF Spec, NoCallAfterAbort

=============================================================================
