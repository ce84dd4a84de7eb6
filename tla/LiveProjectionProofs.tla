------------------------ MODULE LiveProjectionProofs ------------------------
(***************************************************************************)
(* Proofs about LocalControlAuthority and LiveProjection, for any clients, *)
(* secrets, scopes, limits and ordinals, any browsers and any bounds.      *)
(*                                                                         *)
(* The registry.  The invariant ties the history to the row: an issued     *)
(* authority is at or below the epoch of its client's row, and at that     *)
(* epoch it is the row's; an ended epoch is at or below it, and at it the  *)
(* row is revoked.  A write that keeps the epoch keeps the authority and   *)
(* does not revive, so both survive every write that the triggers allow.   *)
(*                                                                         *)
(* The live view.  What is on the wire to a browser, or kept for it until  *)
(* its snapshot is there, is its flow.  The invariant says of every flow   *)
(* whose browser still listens that it continues the browser's number      *)
(* without a gap, that the numbers between its end and the server's are    *)
(* exactly the deliveries owed to it, and that once nothing but log lines  *)
(* is owed it ends in the newest fact; or else that it has a gap, preceded *)
(* by envelopes in order, at which the browser will start over.  The       *)
(* second alternative is a log line overtaking the event whose broadcast   *)
(* caused it.  That a delivery is the highest number owed, as broadcasts   *)
(* nest, is what makes a gap show itself before anything follows it.       *)
(***************************************************************************)
EXTENDS LiveProjection, SequenceTheorems, FiniteSetTheorems, TLAPS

-----------------------------------------------------------------------------
(* The registry. *)

IssuedBelowRow ==
    \A a \in issued :
      /\ row[a.client] # NoRow
      /\ a.epoch <= row[a.client].epoch
      /\ a.epoch = row[a.client].epoch =>
           a = AuthorityOf(a.client, row[a.client])

EndedBelowRow ==
    \A p \in ended :
      /\ row[p[1]] # NoRow
      /\ p[2] <= row[p[1]].epoch
      /\ p[2] = row[p[1]].epoch => ~row[p[1]].live

IssuedOnce ==
    \A a, b \in issued : a.client = b.client /\ a.epoch = b.epoch => a = b

AuthorityInv ==
    AuthorityTypeOK /\ IssuedBelowRow /\ EndedBelowRow /\ IssuedOnce

\* A stored row is not the absent one.
LEMMA RowIsNotNoRow == \A r \in Rows : r # NoRow
<1>1. SUFFICES ASSUME NEW r \in Rows, r = NoRow PROVE FALSE
  OBVIOUS
<1>2. "none" \in DOMAIN r
  BY <1>1 DEF NoRow
<1>3. "none" \notin DOMAIN r
  BY <1>1 DEF Rows
<1> QED BY <1>2, <1>3

\* What Write leaves behind, when the row written is well-formed.
LEMMA WriteIsTyped ==
  ASSUME AuthorityTypeOK, NEW c \in Principals, NEW r \in Rows, Write(c, r)
  PROVE  /\ AuthorityTypeOK'
         /\ row'[c] = r
         /\ \A d \in Principals : d # c => row'[d] = row[d]
         /\ issued' = issued \cup {AuthorityOf(c, r)}
         /\ \A p \in ended' : p \in ended \/ /\ p = <<c, row[c].epoch>>
                                             /\ row[c] # NoRow
                                             /\ row[c].live
                                             /\ ~r.live
<1>1. row' \in [Principals -> Rows \cup {NoRow}] /\ row'[c] = r
  BY DEF Write, AuthorityTypeOK
<1>2. \A d \in Principals : d # c => row'[d] = row[d]
  BY DEF Write, AuthorityTypeOK
<1>3. r.epoch \in 1 .. MaxOrdinal /\ r.scopes \in Scopes /\ r.limits \in Limits
  BY DEF Rows
<1>4. highWater' \in [Principals -> 0 .. MaxOrdinal]
  <2>1. (IF r.epoch > highWater[c] THEN r.epoch ELSE highWater[c])
          \in 0 .. MaxOrdinal
    BY <1>3, OrdinalAssumption DEF AuthorityTypeOK
  <2> QED BY <2>1 DEF Write, AuthorityTypeOK
<1>5. issued' = issued \cup {AuthorityOf(c, r)} /\ issued' \in SUBSET Authorities
  BY <1>3 DEF Write, AuthorityTypeOK, AuthorityOf, Authorities
<1>6. ended' \in SUBSET (Principals \X (1 .. MaxOrdinal))
  <2>1. CASE row[c] # NoRow
    <3>1. row[c] \in Rows
      BY <2>1 DEF AuthorityTypeOK
    <3>2. <<c, row[c].epoch>> \in Principals \X (1 .. MaxOrdinal)
      BY <3>1 DEF Rows
    <3> QED BY <3>2 DEF Write, AuthorityTypeOK
  <2>2. CASE row[c] = NoRow
    BY <2>2 DEF Write, AuthorityTypeOK
  <2> QED BY <2>1, <2>2
<1>7. \A p \in ended' : p \in ended \/ /\ p = <<c, row[c].epoch>>
                                       /\ row[c] # NoRow
                                       /\ row[c].live
                                       /\ ~r.live
  BY DEF Write
<1> QED BY <1>1, <1>2, <1>4, <1>5, <1>6, <1>7 DEF AuthorityTypeOK

\* A write over an existing row that the update trigger allows.
LEMMA UpdatePreserves ==
  ASSUME AuthorityInv, NEW c \in Principals, NEW r \in Rows,
         row[c] # NoRow, UpdateAllowed(c, r), Write(c, r)
  PROVE  AuthorityInv'
<1> DEFINE old == row[c]
<1>1. old \in Rows /\ old.epoch \in Nat /\ r.epoch \in Nat
  BY DEF AuthorityInv, AuthorityTypeOK, Rows
<1>2. /\ old.epoch <= r.epoch
      /\ r.epoch = old.epoch => SameAuthority(r, old)
      /\ ~old.live /\ r.live => r.epoch > old.epoch
  BY <1>1 DEF UpdateAllowed
<1>3. /\ AuthorityTypeOK'
      /\ row'[c] = r
      /\ \A d \in Principals : d # c => row'[d] = row[d]
      /\ issued' = issued \cup {AuthorityOf(c, r)}
      /\ \A p \in ended' : p \in ended \/ /\ p = <<c, old.epoch>>
                                          /\ old # NoRow /\ old.live /\ ~r.live
  BY WriteIsTyped DEF AuthorityInv
<1>4. r # NoRow
  BY RowIsNotNoRow
<1>5. \A a \in issued : a.client \in Principals /\ a.epoch \in Nat
  BY DEF AuthorityInv, AuthorityTypeOK, Authorities
<1>6. IssuedBelowRow'
  <2>1. ASSUME NEW a \in issued'
        PROVE  /\ row'[a.client] # NoRow
               /\ a.epoch <= row'[a.client].epoch
               /\ a.epoch = row'[a.client].epoch =>
                    a = AuthorityOf(a.client, row'[a.client])
    <3>1. CASE a = AuthorityOf(c, r)
      BY <3>1, <1>1, <1>3, <1>4 DEF AuthorityOf
    <3>2. CASE a \in issued /\ a.client # c
      BY <3>2, <1>3, <1>5 DEF AuthorityInv, IssuedBelowRow
    <3>3. CASE a \in issued /\ a.client = c
      <4>1. /\ a.epoch <= old.epoch
            /\ a.epoch = old.epoch => a = AuthorityOf(c, old)
        BY <3>3 DEF AuthorityInv, IssuedBelowRow
      <4>2. r.epoch = old.epoch => AuthorityOf(c, old) = AuthorityOf(c, r)
        BY <1>2 DEF SameAuthority, AuthorityOf
      <4>3. a.epoch <= r.epoch
        BY <4>1, <1>1, <1>2, <1>5, <3>3
      <4>4. a.epoch = r.epoch => a = AuthorityOf(c, r)
        BY <4>1, <4>2, <1>1, <1>2, <1>5, <3>3
      <4> QED BY <4>3, <4>4, <3>3, <1>3, <1>4
    <3> QED BY <3>1, <3>2, <3>3, <1>3
  <2> QED BY <2>1 DEF IssuedBelowRow
<1>7. EndedBelowRow'
  <2>1. ASSUME NEW p \in ended'
        PROVE  /\ row'[p[1]] # NoRow
               /\ p[2] <= row'[p[1]].epoch
               /\ p[2] = row'[p[1]].epoch => ~row'[p[1]].live
    <3>1. CASE p \in ended /\ p[1] # c
      <4>1. p[1] \in Principals
        BY <3>1 DEF AuthorityInv, AuthorityTypeOK
      <4> QED BY <3>1, <4>1, <1>3 DEF AuthorityInv, EndedBelowRow
    <3>2. CASE p \in ended /\ p[1] = c
      <4>1. p[2] <= old.epoch /\ (p[2] = old.epoch => ~old.live)
        BY <3>2 DEF AuthorityInv, EndedBelowRow
      <4>2. p[2] \in Nat
        BY <3>2 DEF AuthorityInv, AuthorityTypeOK
      <4>3. p[2] <= r.epoch /\ (p[2] = r.epoch => ~r.live)
        BY <4>1, <4>2, <1>1, <1>2
      <4> QED BY <4>3, <3>2, <1>3, <1>4
    <3>3. CASE p = <<c, old.epoch>> /\ old.live /\ ~r.live
      BY <3>3, <1>1, <1>2, <1>3, <1>4
    <3> QED BY <3>1, <3>2, <3>3, <1>3
  <2> QED BY <2>1 DEF EndedBelowRow
<1>8. IssuedOnce'
  <2>1. ASSUME NEW a \in issued', NEW b \in issued',
               a.client = b.client, a.epoch = b.epoch
        PROVE  a = b
    <3>1. CASE a \in issued /\ b \in issued
      BY <3>1, <2>1 DEF AuthorityInv, IssuedOnce
    <3>2. ASSUME NEW x \in issued', x.client = c, x.epoch = r.epoch
          PROVE  x = AuthorityOf(c, r)
      BY <3>2, <1>6, <1>3 DEF IssuedBelowRow
    <3>3. AuthorityOf(c, r).client = c /\ AuthorityOf(c, r).epoch = r.epoch
      BY DEF AuthorityOf
    <3> QED BY <3>1, <3>2, <3>3, <2>1, <1>3
  <2> QED BY <2>1 DEF IssuedOnce
<1> QED BY <1>3, <1>6, <1>7, <1>8 DEF AuthorityInv

\* A first row of a client: nothing was issued to it before.
LEMMA InsertPreserves ==
  ASSUME AuthorityInv, NEW c \in Principals, NEW r \in Rows,
         row[c] = NoRow, Write(c, r)
  PROVE  AuthorityInv'
<1>1. /\ AuthorityTypeOK'
      /\ row'[c] = r
      /\ \A d \in Principals : d # c => row'[d] = row[d]
      /\ issued' = issued \cup {AuthorityOf(c, r)}
      /\ \A p \in ended' : p \in ended
  BY WriteIsTyped DEF AuthorityInv
<1>2. \A a \in issued : a.client \in Principals /\ a.client # c
  BY DEF AuthorityInv, IssuedBelowRow, AuthorityTypeOK, Authorities
<1>3. \A p \in ended : p[1] \in Principals /\ p[1] # c
  BY DEF AuthorityInv, EndedBelowRow, AuthorityTypeOK
<1>4. r # NoRow /\ r.epoch \in Nat
  BY RowIsNotNoRow DEF Rows
<1>5. AuthorityOf(c, r).client = c /\ AuthorityOf(c, r).epoch = r.epoch
  BY DEF AuthorityOf
<1>6. IssuedBelowRow'
  <2>1. ASSUME NEW a \in issued'
        PROVE  /\ row'[a.client] # NoRow
               /\ a.epoch <= row'[a.client].epoch
               /\ a.epoch = row'[a.client].epoch =>
                    a = AuthorityOf(a.client, row'[a.client])
    <3>1. CASE a = AuthorityOf(c, r)
      BY <3>1, <1>1, <1>4, <1>5
    <3>2. CASE a \in issued
      BY <3>2, <1>1, <1>2 DEF AuthorityInv, IssuedBelowRow
    <3> QED BY <3>1, <3>2, <1>1
  <2> QED BY <2>1 DEF IssuedBelowRow
<1>7. EndedBelowRow'
  <2>1. ASSUME NEW p \in ended'
        PROVE  /\ row'[p[1]] # NoRow
               /\ p[2] <= row'[p[1]].epoch
               /\ p[2] = row'[p[1]].epoch => ~row'[p[1]].live
    BY <1>1, <1>3 DEF AuthorityInv, EndedBelowRow
  <2> QED BY <2>1 DEF EndedBelowRow
<1>8. IssuedOnce'
  <2>1. ASSUME NEW a \in issued', NEW b \in issued',
               a.client = b.client, a.epoch = b.epoch
        PROVE  a = b
    <3>1. CASE a \in issued /\ b \in issued
      BY <3>1, <2>1 DEF AuthorityInv, IssuedOnce
    <3>2. CASE a \notin issued \/ b \notin issued
      BY <3>2, <2>1, <1>1, <1>2, <1>5
    <3> QED BY <3>1, <3>2
  <2> QED BY <2>1 DEF IssuedOnce
<1> QED BY <1>1, <1>6, <1>7, <1>8 DEF AuthorityInv

\* The writes that leave every row's epoch, authority and revocation alone.
LEMMA QuietPreserves ==
  ASSUME AuthorityInv, AuthorityTypeOK', issued' = issued, ended' = ended,
         \A d \in Principals :
           /\ (row'[d] = NoRow) <=> (row[d] = NoRow)
           /\ row[d] # NoRow => /\ row'[d].epoch = row[d].epoch
                                /\ row'[d].live = row[d].live
                                /\ SameAuthority(row'[d], row[d])
  PROVE  AuthorityInv'
<1>1. \A a \in issued : a.client \in Principals
  BY DEF AuthorityInv, AuthorityTypeOK, Authorities
<1>2. \A p \in ended : p[1] \in Principals
  BY DEF AuthorityInv, AuthorityTypeOK
<1>3. IssuedBelowRow'
  BY <1>1 DEF AuthorityInv, IssuedBelowRow, AuthorityOf, SameAuthority
<1>4. EndedBelowRow'
  BY <1>2 DEF AuthorityInv, EndedBelowRow
<1>5. IssuedOnce'
  BY DEF AuthorityInv, IssuedOnce
<1> QED BY <1>3, <1>4, <1>5 DEF AuthorityInv

\* A method of the class: what it writes is a well-formed row that the triggers
\* allow.
LEMMA RegistryStepPreserves ==
  ASSUME AuthorityInv, NEW c \in Principals, RegistryStep(c)
  PROVE  AuthorityInv'
<1>1. row[c] # NoRow => row[c] \in Rows
  BY DEF AuthorityInv, AuthorityTypeOK
<1>2. ASSUME NEW s \in Secrets, NEW p \in Scopes, NEW l \in Limits,
             ProvisionNew(c, s, p, l)
      PROVE  AuthorityInv'
  <2> DEFINE r == [secret |-> s, scopes |-> p, limits |-> l, live |-> TRUE,
                   expired |-> FALSE, epoch |-> highWater[c] + 1,
                   generation |-> 1]
  <2>1. row[c] = NoRow /\ highWater[c] < MaxOrdinal /\ Write(c, r)
    BY <1>2 DEF ProvisionNew
  <2>2. highWater[c] \in 0 .. MaxOrdinal
    BY DEF AuthorityInv, AuthorityTypeOK
  <2>3. r \in Rows
    <3>1. highWater[c] + 1 \in 1 .. MaxOrdinal /\ 1 \in 1 .. MaxOrdinal
      BY <2>1, <2>2, OrdinalAssumption
    <3> QED BY <3>1 DEF Rows
  <2> HIDE DEF r
  <2> QED BY <2>1, <2>3, InsertPreserves
<1>3. ASSUME NEW s \in Secrets, NEW p \in Scopes, NEW l \in Limits,
             NEW explicit \in BOOLEAN, Rotate(c, s, p, explicit, l)
      PROVE  AuthorityInv'
  <2> DEFINE old == row[c]
             next == IF explicit THEN l
                     ELSE IF old.live THEN old.limits ELSE Unlimited
             changed == ~old.live \/ p # old.scopes \/ next # old.limits
             r == [secret |-> s, scopes |-> p, limits |-> next, live |-> TRUE,
                   expired |-> FALSE,
                   epoch |-> old.epoch + (IF changed THEN 1 ELSE 0),
                   generation |-> old.generation + 1]
  <2>1. /\ old # NoRow /\ old.generation < MaxOrdinal
        /\ changed => old.epoch < MaxOrdinal
        /\ UpdateAllowed(c, r) /\ Write(c, r)
    BY <1>3 DEF Rotate
  <2>2. /\ old.epoch \in 1 .. MaxOrdinal /\ old.generation \in 1 .. MaxOrdinal
        /\ old.limits \in Limits
    BY <2>1, <1>1 DEF Rows
  <2>3. r \in Rows
    <3>1. next \in Limits
      BY <2>2, LimitsAssumption
    <3>2. old.generation + 1 \in 1 .. MaxOrdinal
      BY <2>1, <2>2, OrdinalAssumption
    <3>3. old.epoch + (IF changed THEN 1 ELSE 0) \in 1 .. MaxOrdinal
      <4> HIDE DEF changed
      <4> QED BY <2>1, <2>2, OrdinalAssumption
    <3> HIDE DEF next, changed
    <3> QED BY <3>1, <3>2, <3>3 DEF Rows
  <2> HIDE DEF r
  <2> QED BY <2>1, <2>3, UpdatePreserves
<1>4. ASSUME NEW l \in Limits, SetEntitlementLimits(c, l)
      PROVE  AuthorityInv'
  <2> DEFINE r == [row[c] EXCEPT !.limits = l, !.epoch = @ + 1]
  <2>1. /\ row[c] # NoRow /\ row[c].epoch < MaxOrdinal
        /\ UpdateAllowed(c, r) /\ Write(c, r)
    BY <1>4 DEF SetEntitlementLimits
  <2>2. row[c].epoch + 1 \in 1 .. MaxOrdinal
    BY <2>1, <1>1, OrdinalAssumption DEF Rows
  <2>3. r \in Rows
    BY <2>1, <2>2, <1>1 DEF Rows
  <2> HIDE DEF r
  <2> QED BY <2>1, <2>3, UpdatePreserves
<1>5. ASSUME Revoke(c) PROVE AuthorityInv'
  <2> DEFINE r == [row[c] EXCEPT !.live = FALSE]
  <2>1. row[c] # NoRow /\ UpdateAllowed(c, r) /\ Write(c, r)
    BY <1>5 DEF Revoke
  <2>2. r \in Rows
    BY <2>1, <1>1 DEF Rows
  <2> HIDE DEF r
  <2> QED BY <2>1, <2>2, UpdatePreserves
<1>6. ASSUME Expire(c) PROVE AuthorityInv'
  <2>1. /\ row[c] \in Rows
        /\ row' = [row EXCEPT ![c].expired = TRUE]
        /\ UNCHANGED <<highWater, issued, ended>>
    BY <1>6, <1>1 DEF Expire
  <2>2. [row[c] EXCEPT !.expired = TRUE] \in Rows
    BY <2>1 DEF Rows
  <2>3. row'[c] = [row[c] EXCEPT !.expired = TRUE]
        /\ \A d \in Principals : d # c => row'[d] = row[d]
    BY <2>1 DEF AuthorityInv, AuthorityTypeOK
  <2>4. AuthorityTypeOK'
    BY <2>1, <2>2 DEF AuthorityInv, AuthorityTypeOK
  <2>5. /\ row'[c] # NoRow /\ row[c] # NoRow
        /\ row'[c].epoch = row[c].epoch /\ row'[c].live = row[c].live
        /\ SameAuthority(row'[c], row[c])
    <3>1. row'[c] # NoRow /\ row[c] # NoRow
      BY <2>1, <2>2, <2>3, RowIsNotNoRow
    <3>2. /\ row'[c].epoch = row[c].epoch /\ row'[c].live = row[c].live
          /\ row'[c].scopes = row[c].scopes /\ row'[c].limits = row[c].limits
      BY <2>1, <2>3 DEF Rows
    <3> QED BY <3>1, <3>2 DEF SameAuthority
  <2>6. \A d \in Principals : d # c => SameAuthority(row'[d], row[d])
    BY <2>3 DEF SameAuthority
  <2>7. \A d \in Principals :
          /\ (row'[d] = NoRow) <=> (row[d] = NoRow)
          /\ row[d] # NoRow => /\ row'[d].epoch = row[d].epoch
                               /\ row'[d].live = row[d].live
                               /\ SameAuthority(row'[d], row[d])
    <3>1. ASSUME NEW d \in Principals, d # c
          PROVE  row'[d] = row[d] /\ SameAuthority(row'[d], row[d])
      BY <3>1, <2>3, <2>6
    <3> QED BY <3>1, <2>5
  <2>8. issued' = issued /\ ended' = ended
    BY <2>1
  <2> QED BY <2>4, <2>7, <2>8, QuietPreserves
<1> QED BY <1>2, <1>3, <1>4, <1>5, <1>6 DEF RegistryStep

\* Nor does a program that meets only the triggers break it.
LEMMA RawStepPreserves ==
  ASSUME AuthorityInv, NEW c \in Principals, RawStep(c)
  PROVE  AuthorityInv'
<1>1. CASE RawHighWater(c)
  <2>1. highWater[c] + 1 \in 0 .. MaxOrdinal
    BY <1>1, OrdinalAssumption
       DEF RawHighWater, AuthorityInv, AuthorityTypeOK
  <2>2. AuthorityTypeOK'
    BY <1>1, <2>1 DEF RawHighWater, AuthorityInv, AuthorityTypeOK
  <2> QED BY <1>1, <2>2, QuietPreserves DEF RawHighWater, SameAuthority
<1>2. ASSUME NEW r \in Rows, RawUpdate(c, r) PROVE AuthorityInv'
  BY <1>2, UpdatePreserves DEF RawUpdate
<1>3. ASSUME NEW r \in Rows, RawInsert(c, r) PROVE AuthorityInv'
  BY <1>3, InsertPreserves DEF RawInsert
<1> QED BY <1>1, <1>2, <1>3 DEF RawStep

\* A step of the registry, of the class or of anything else, preserves it.
LEMMA AuthorityInvInductive == AuthorityInv /\ [AuthorityNext]_authVars => AuthorityInv'
<1>1. ASSUME AuthorityInv, AuthorityNext PROVE AuthorityInv'
  BY <1>1, RegistryStepPreserves, RawStepPreserves DEF AuthorityNext
<1>2. ASSUME AuthorityInv, UNCHANGED authVars PROVE AuthorityInv'
  BY <1>2 DEF AuthorityInv, AuthorityTypeOK, IssuedBelowRow, EndedBelowRow,
              IssuedOnce, authVars, AuthorityOf
<1> QED BY <1>1, <1>2

\* It holds of any registry that was never written.
LEMMA AuthorityInvInitially == AuthorityInit => AuthorityInv
<1>1. SUFFICES ASSUME AuthorityInit PROVE AuthorityInv
  OBVIOUS
<1>2. AuthorityTypeOK
  BY <1>1, OrdinalAssumption DEF AuthorityInit, AuthorityTypeOK
<1> QED BY <1>1, <1>2 DEF AuthorityInit, AuthorityInv, IssuedBelowRow,
                          EndedBelowRow, IssuedOnce

\* The invariant says in particular that no authority is back under an epoch
\* a revocation ended.
LEMMA AuthorityInvSuffices == AuthorityInv => EpochNamesOneAuthority
<1>1. SUFFICES ASSUME AuthorityInv PROVE EpochNamesOneAuthority
  OBVIOUS
<1>2. ASSUME NEW c \in Principals, row[c] # NoRow, row[c].live
      PROVE  <<c, row[c].epoch>> \notin ended
  BY <1>1, <1>2 DEF AuthorityInv, EndedBelowRow
<1> QED BY <1>1, <1>2 DEF AuthorityInv, IssuedOnce, EpochNamesOneAuthority

\* The registry keeps its shape: a row has an epoch and a generation within
\* the ordinals (local-control-auth.ts:100-273 and the triggers, 469-667).
THEOREM AuthorityIsTyped == AuthoritySpec => []AuthorityTypeOK
<1>1. AuthorityInv => AuthorityTypeOK
  BY DEF AuthorityInv
<1> QED BY AuthorityInvInitially, AuthorityInvInductive, <1>1, PTL
        DEF AuthoritySpec

\* A pair of client and epoch names one authority for ever, and a revoked one
\* never returns, whoever writes past the triggers' checks or through the
\* class (local-control-auth.ts:130-165, 489-607).
THEOREM EpochsNeverReused == AuthoritySpec => []EpochNamesOneAuthority
<1> QED BY AuthorityInvInitially, AuthorityInvInductive, AuthorityInvSuffices,
           PTL DEF AuthoritySpec

-----------------------------------------------------------------------------
(* The invariant of the live view. *)

\* What the browser of slot s has still to receive: for a client that waits
\* for its snapshot, that snapshot (of the present facts, if it is not read
\* yet) and the kept events.
Flow(sl, sent, f) ==
    IF sl.phase = "handshaking"
    THEN <<Envelope("snapshot", sl.cursor, IF sl.snap = NotRead THEN f ELSE sl.snap)>>
           \o sl.pending
    ELSE sent

\* The number before the first envelope of q, for a browser that is at n.
Base(n, q) == IF q # <<>> /\ q[1].event = "snapshot" THEN q[1].seq - 1 ELSE n

\* The envelopes of q up to the i-th continue number b.
Continues(b, q, i) == \A j \in 1 .. i : q[j].seq = b + j

\* Something is missing in q, and what precedes it continues b.
Skips(b, q) ==
    \E i \in 1 .. Len(q) : q[i].seq > b + i /\ Continues(b, q, i - 1)

\* A view x shows f once it has received q.
Shows(x, q, f) ==
    \/ /\ x = f
       /\ \A i \in 1 .. Len(q) : q[i].event = "log"
    \/ \E i \in 1 .. Len(q) :
         /\ q[i].event # "log" /\ q[i].fact = f
         /\ \A j \in i + 1 .. Len(q) : q[j].event = "log"

\* Browser v with flow q gets every number up to n, the deliveries o being
\* exactly those it is still short of, and then shows f.
InStep(v, q, n, f, o) ==
    LET last == Base(v.cursor, q) + Len(q)
    IN /\ Continues(Base(v.cursor, q), q, Len(q))
       /\ last <= n
       /\ \A d \in o : d.what.seq > last
       /\ \A m \in last + 1 .. n : \E d \in o : d.what.seq = m
       /\ (\A d \in o : d.what.event = "log") => Shows(v.view, q, f)

\* It gets every number, or will see that it did not.
StreamOK(v, q, n, f, o) ==
    InStep(v, q, n, f, o) \/ Skips(Base(v.cursor, q), q)

SnapshotFirst(q) == \A i \in 2 .. Len(q) : q[i].event # "snapshot"

\* A snapshot comes first, and only to a browser that has nothing.
FlowOK(v, q, n, f, o) ==
    /\ SnapshotFirst(q)
    /\ q # <<>> /\ q[1].event = "snapshot" => v.cursor = 0
    /\ StreamOK(v, q, n, f, o)

OwedTo(s) == {d \in owed : d.to = s}
Browser(s) == web[slot[s].who]

\* Slots and browsers point at each other.
SlotsOK ==
    /\ \A w \in Viewers :
         /\ web[w].slot = 0 <=> web[w].state # "open"
         /\ web[w].slot # 0 => /\ slot[web[w].slot].phase # "free"
                               /\ slot[web[w].slot].who = w
    /\ \A s \in Slots :
         /\ slot[s].phase # "free" => slot[s].who \in Viewers
         /\ slot[s].phase \in {"free", "reserved", "handshaking"} => wire[s] = <<>>
         /\ slot[s].phase \in {"reserved", "handshaking"} /\ ~Left(s) =>
              Browser(s).cursor = 0
         /\ slot[s].phase \in {"handshaking", "ready"} => slot[s].cursor \in 1 .. seq

\* What a broadcast still owes is numbered, and a fact in it is the newest.
OwedOK ==
    /\ \A d \in owed :
         /\ slot[d.to].phase \in {"handshaking", "ready", "closing"}
         /\ d.what.seq \in 1 .. seq
         /\ d.what.event \in {"log", "fact"}
         /\ d.what.event = "fact" => d.what.fact = facts
    /\ \A d, o \in owed : d.what.seq = o.what.seq => d.what = o.what

FlowOf(s) == Flow(slot[s], wire[s], facts)

FlowsOK ==
    \A s \in Connected : ~Left(s) =>
      FlowOK(Browser(s), FlowOf(s), seq, facts, OwedTo(s))

\* The inductive invariant.
LiveOrder == SlotsOK /\ OwedOK /\ FlowsOK
LiveSafe == AuthorityInv /\ LiveTypeOK /\ LiveOrder

\* What markClientClosing makes of a client, the events that are broadcast, and
\* the part of SlotsOK that the shape of the state rests on.
Closed(c) == [c EXCEPT !.phase = "closing", !.pending = <<>>, !.snap = NotRead]
Kinds == {"log", "fact"}
Taken == \A s \in Slots : slot[s].phase # "free" => slot[s].who \in Viewers

-----------------------------------------------------------------------------
(* Flows of envelopes. *)

\* What Append makes of a flow.
LEMMA AppendedFlow ==
  ASSUME NEW q \in Seq(Envelopes), NEW e \in Envelopes
  PROVE  /\ Append(q, e) \in Seq(Envelopes) /\ Append(q, e) # <<>>
         /\ Len(q) \in Nat /\ Len(Append(q, e)) = Len(q) + 1
         /\ \A i \in 1 .. Len(q) : Append(q, e)[i] = q[i] /\ q[i] \in Envelopes
         /\ Append(q, e)[Len(q) + 1] = e
BY AppendProperties, LenProperties

\* One envelope more at the end, not a snapshot.
LEMMA FlowGrows ==
  ASSUME NEW v \in Browsers, NEW q \in Seq(Envelopes), NEW e \in Envelopes,
         SnapshotFirst(q), e.event # "snapshot"
  PROVE  /\ SnapshotFirst(Append(q, e)) \/ q = <<>>
         /\ Base(v.cursor, Append(q, e)) = Base(v.cursor, q)
         /\ q # <<>> => Append(q, e)[1] = q[1]
<1>1. CASE q = <<>>
  BY <1>1, AppendedFlow DEF Base
<1>2. CASE q # <<>>
  <2>1. Len(q) \in Nat /\ Len(q) >= 1
    BY <1>2, EmptySeq, LenProperties
  <2>2. Append(q, e)[1] = q[1]
    BY <2>1, AppendedFlow
  <2>3. SnapshotFirst(Append(q, e))
    BY <2>1, AppendedFlow DEF SnapshotFirst
  <2> QED BY <1>2, <2>2, <2>3, AppendedFlow DEF Base
<1> QED BY <1>1, <1>2

\* The number before a flow is a number.
LEMMA BaseIsInt ==
  ASSUME NEW n \in Nat, NEW q \in Seq(Envelopes)
  PROVE  Base(n, q) \in Int
<1>1. q # <<>> => q[1] \in Envelopes
  BY EmptySeq, LenProperties
<1> QED BY <1>1 DEF Base, Envelopes

\* What continues a number still does with an envelope more behind it.
LEMMA ContinuesAppend ==
  ASSUME NEW b \in Int, NEW q \in Seq(Envelopes), NEW e \in Envelopes,
         NEW i \in 0 .. Len(q)
  PROVE  Continues(b, Append(q, e), i) <=> Continues(b, q, i)
BY AppendedFlow DEF Continues

\* A gap stays; an envelope that is not the next one makes one, the next one
\* does not.
LEMMA SkipsAppend ==
  ASSUME NEW b \in Int, NEW q \in Seq(Envelopes), NEW e \in Envelopes
  PROVE  /\ Skips(b, q) => Skips(b, Append(q, e))
         /\ Continues(b, q, Len(q)) /\ e.seq > b + Len(q) + 1 => Skips(b, Append(q, e))
         /\ Continues(b, q, Len(q)) /\ e.seq = b + Len(q) + 1 =>
              Continues(b, Append(q, e), Len(Append(q, e)))
<1>1. ASSUME Skips(b, q) PROVE Skips(b, Append(q, e))
  <2>1. PICK i \in 1 .. Len(q) : q[i].seq > b + i /\ Continues(b, q, i - 1)
    BY <1>1 DEF Skips
  <2>2. /\ Append(q, e)[i].seq > b + i /\ i \in 1 .. Len(Append(q, e))
        /\ i - 1 \in 0 .. Len(q)
    BY <2>1, AppendedFlow
  <2>3. Continues(b, Append(q, e), i - 1)
    BY <2>1, <2>2, ContinuesAppend
  <2> QED BY <2>2, <2>3 DEF Skips
<1>2. ASSUME Continues(b, q, Len(q)), e.seq > b + Len(q) + 1
      PROVE  Skips(b, Append(q, e))
  <2>1. Continues(b, Append(q, e), Len(q) + 1 - 1)
    BY <1>2, AppendedFlow, ContinuesAppend
  <2>2. Append(q, e)[Len(q) + 1].seq > b + (Len(q) + 1)
    BY <1>2, AppendedFlow
  <2>3. Len(q) + 1 \in 1 .. Len(Append(q, e))
    BY AppendedFlow
  <2> HIDE DEF Continues
  <2> QED BY <2>1, <2>2, <2>3 DEF Skips
<1>3. ASSUME Continues(b, q, Len(q)), e.seq = b + Len(q) + 1
      PROVE  Continues(b, Append(q, e), Len(Append(q, e)))
  <2>1. ASSUME NEW j \in 1 .. Len(q) + 1 PROVE Append(q, e)[j].seq = b + j
    BY <1>3, AppendedFlow DEF Continues
  <2> QED BY <2>1, AppendedFlow DEF Continues
<1> QED BY <1>1, <1>2, <1>3

\* A log line changes no view, and the newest fact makes it the newest.
LEMMA ShowsAppend ==
  ASSUME NEW x, NEW f, NEW q \in Seq(Envelopes), NEW e \in Envelopes
  PROVE  /\ e.event = "log" /\ Shows(x, q, f) => Shows(x, Append(q, e), f)
         /\ e.event # "log" /\ e.fact = f => Shows(x, Append(q, e), f)
<1>1. ASSUME e.event = "log", Shows(x, q, f) PROVE Shows(x, Append(q, e), f)
  <2>1. CASE x = f /\ \A i \in 1 .. Len(q) : q[i].event = "log"
    BY <1>1, <2>1, AppendedFlow DEF Shows
  <2>2. ASSUME NEW i \in 1 .. Len(q), q[i].event # "log" /\ q[i].fact = f,
               \A j \in i + 1 .. Len(q) : q[j].event = "log"
        PROVE  Shows(x, Append(q, e), f)
    <3>1. Append(q, e)[i] = q[i] /\ i \in 1 .. Len(Append(q, e))
      BY <2>2, AppendedFlow
    <3>2. \A j \in i + 1 .. Len(Append(q, e)) : Append(q, e)[j].event = "log"
      BY <1>1, <2>2, AppendedFlow
    <3> QED BY <2>2, <3>1, <3>2 DEF Shows
  <2> QED BY <1>1, <2>1, <2>2 DEF Shows
<1>2. ASSUME e.event # "log", e.fact = f PROVE Shows(x, Append(q, e), f)
  <2>1. \A j \in Len(q) + 1 + 1 .. Len(Append(q, e)) : FALSE
    BY AppendedFlow
  <2> QED BY <1>2, <2>1, AppendedFlow DEF Shows
<1> QED BY <1>1, <1>2

\* The innermost broadcast makes one of its deliveries: the flow grows by the
\* envelope with the highest number that is owed to anyone.
LEMMA StreamDelivered ==
  ASSUME NEW v \in Browsers, NEW q \in Seq(Envelopes), SnapshotFirst(q),
         NEW n \in Nat, NEW f, NEW o \in SUBSET Deliveries, NEW d \in o,
         \A x \in o : x.what.seq <= d.what.seq,
         \A x \in o : x.what.seq = d.what.seq => x = d,
         d.what.seq \in 1 .. n, d.what.event \in {"log", "fact"},
         d.what.event = "fact" => d.what.fact = f,
         StreamOK(v, q, n, f, o)
  PROVE  StreamOK(v, Append(q, d.what), n, f, o \ {d})
<1> DEFINE b == Base(v.cursor, q)
           p == Append(q, d.what)
           last == b + Len(q)
<1>1. d.what \in Envelopes /\ v.cursor \in Nat
  BY DEF Deliveries, Browsers
<1>2. b \in Int /\ Base(v.cursor, p) = b /\ Len(q) \in Nat /\ Len(p) = Len(q) + 1
  BY <1>1, BaseIsInt, FlowGrows, AppendedFlow
<1>3. CASE Skips(b, q)
  BY <1>1, <1>2, <1>3, SkipsAppend DEF StreamOK
<1>4. CASE InStep(v, q, n, f, o)
  <2>1. /\ Continues(b, q, Len(q)) /\ last <= n
        /\ \A x \in o : x.what.seq > last
        /\ \A m \in last + 1 .. n : \E x \in o : x.what.seq = m
        /\ (\A x \in o : x.what.event = "log") => Shows(v.view, q, f)
    BY <1>4 DEF InStep
  <2>2. d.what.seq = n /\ last < n
    <3>1. last < n /\ n \in last + 1 .. n
      BY <1>2, <2>1
    <3>2. PICK x \in o : x.what.seq = n
      BY <2>1, <3>1
    <3> QED BY <3>1, <3>2
  <2>3. CASE last + 1 < n
    BY <1>1, <1>2, <2>1, <2>2, <2>3, SkipsAppend DEF StreamOK
  <2>4. CASE last + 1 = n
    <3>1. Continues(b, p, Len(p))
      BY <1>1, <1>2, <2>1, <2>2, <2>4, SkipsAppend
    <3>2. b + Len(p) = n
      BY <1>2, <2>4
    <3>3. o \ {d} = {}
      <4>1. ASSUME NEW x \in o PROVE x = d
        <5>1. x.what.seq \in Nat
          BY DEF Deliveries, Envelopes
        <5> QED BY <2>1, <2>2, <2>4, <1>2, <5>1
      <4> QED BY <4>1
    <3>4. Shows(v.view, p, f)
      <4>1. CASE d.what.event = "log"
        <5>1. \A x \in o : x = d
          BY <3>3
        <5>2. Shows(v.view, q, f)
          BY <2>1, <4>1, <5>1
        <5> QED BY <1>1, <4>1, <5>2, ShowsAppend
      <4>2. CASE d.what.event = "fact"
        BY <1>1, <4>2, ShowsAppend
      <4> QED BY <4>1, <4>2
    <3>5. \A m \in b + Len(p) + 1 .. n : FALSE
      BY <1>2, <3>2
    <3>6. InStep(v, p, n, f, {})
      <4> HIDE DEF p, b
      <4> QED BY <1>2, <3>1, <3>2, <3>4, <3>5 DEF InStep
    <3> QED BY <3>3, <3>6 DEF StreamOK
  <2> QED BY <1>2, <2>2, <2>3, <2>4
<1> QED BY <1>3, <1>4 DEF StreamOK

\* The head of a flow is taken off.
LEMMA ShorterFlow ==
  ASSUME NEW q \in Seq(Envelopes), q # <<>>
  PROVE  /\ Head(q) = q[1] /\ q[1] \in Envelopes
         /\ Tail(q) \in Seq(Envelopes)
         /\ Len(q) \in Nat \ {0} /\ Len(Tail(q)) = Len(q) - 1
         /\ \A i \in 1 .. Len(q) - 1 : Tail(q)[i] = q[i + 1]
<1>1. Head(q) = q[1] /\ Tail(q) \in Seq(Envelopes) /\ Len(Tail(q)) = Len(q) - 1
  BY HeadTailProperties
<1>2. Len(q) \in Nat \ {0} /\ q[1] \in Envelopes
  BY EmptySeq, LenProperties
<1>3. \A i \in 1 .. Len(q) - 1 : Tail(q)[i] = q[i + 1]
  BY <1>1, <1>2, HeadTailProperties
<1> QED BY <1>1, <1>2, <1>3

\* What follows the head continues the number of the head.
LEMMA ContinuesTail ==
  ASSUME NEW b \in Int, NEW q \in Seq(Envelopes), q # <<>>,
         NEW i \in 1 .. Len(q), Continues(b, q, i)
  PROVE  q[1].seq = b + 1 /\ Continues(b + 1, Tail(q), i - 1)
<1>1. \A j \in 1 .. i - 1 : Tail(q)[j] = q[j + 1] /\ q[j + 1].seq = b + (j + 1)
  BY ShorterFlow DEF Continues
<1>2. q[1].seq = b + 1
  BY ShorterFlow DEF Continues
<1> QED BY <1>1, <1>2, ShorterFlow DEF Continues

\* A gap stays behind a head that is the next number.
LEMMA SkipsTail ==
  ASSUME NEW b \in Int, NEW q \in Seq(Envelopes), q # <<>>,
         Skips(b, q), q[1].seq <= b + 1
  PROVE  q[1].seq = b + 1 /\ Skips(b + 1, Tail(q))
<1>1. PICK i \in 1 .. Len(q) : q[i].seq > b + i /\ Continues(b, q, i - 1)
  BY DEF Skips
<1>2. i # 1 /\ i - 1 \in 1 .. Len(q) /\ i - 1 \in 1 .. Len(Tail(q))
      /\ i - 1 \in 1 .. Len(q) - 1
  <2>1. q[1].seq \in Nat
    BY ShorterFlow DEF Envelopes
  <2> QED BY <2>1, <1>1, ShorterFlow
<1>3. q[1].seq = b + 1 /\ Continues(b + 1, Tail(q), i - 1 - 1)
  BY <1>1, <1>2, ContinuesTail
<1>4. Tail(q)[i - 1].seq > b + 1 + (i - 1)
  BY <1>1, <1>2, ShorterFlow
<1> QED BY <1>2, <1>3, <1>4 DEF Skips

\* The view that a flow ends in is that of its rest, once its head is applied.
LEMMA ShowsTail ==
  ASSUME NEW x, NEW f, NEW q \in Seq(Envelopes), q # <<>>, Shows(x, q, f)
  PROVE  Shows(IF q[1].event = "log" THEN x ELSE q[1].fact, Tail(q), f)
<1> DEFINE y == IF q[1].event = "log" THEN x ELSE q[1].fact
<1>1. CASE x = f /\ \A i \in 1 .. Len(q) : q[i].event = "log"
  <2>1. y = f
    BY <1>1, ShorterFlow
  <2>2. \A i \in 1 .. Len(Tail(q)) : Tail(q)[i].event = "log"
    BY <1>1, ShorterFlow
  <2> QED BY <2>1, <2>2 DEF Shows
<1>2. ASSUME NEW i \in 1 .. Len(q), q[i].event # "log" /\ q[i].fact = f,
             \A j \in i + 1 .. Len(q) : q[j].event = "log"
      PROVE  Shows(y, Tail(q), f)
  <2>1. CASE i = 1
    <3>1. y = f
      BY <1>2, <2>1
    <3>2. \A j \in 1 .. Len(Tail(q)) : Tail(q)[j].event = "log"
      BY <1>2, <2>1, ShorterFlow
    <3> QED BY <3>1, <3>2 DEF Shows
  <2>2. CASE i # 1
    <3>1. i - 1 \in 1 .. Len(Tail(q)) /\ Tail(q)[i - 1] = q[i]
      BY <2>2, ShorterFlow
    <3>2. \A j \in i - 1 + 1 .. Len(Tail(q)) : Tail(q)[j].event = "log"
      BY <1>2, ShorterFlow
    <3> HIDE DEF y
    <3> QED BY <1>2, <3>1, <3>2 DEF Shows
  <2> QED BY <2>1, <2>2
<1> QED BY <1>1, <1>2 DEF Shows

\* The fields of a browser, and browsers with some of them changed.
LEMMA BrowserFields ==
  /\ \A v \in Browsers :
       /\ v.state \in {"waiting", "open", "gave_up"} /\ v.slot \in 0 .. MaxClients
       /\ v.cursor \in Nat /\ v.view \in 0 .. MaxFacts
       /\ v.attempts \in 0 .. MaxReconnects
  /\ \A v \in Browsers, n \in Nat, x \in 0 .. MaxFacts :
       /\ [v EXCEPT !.cursor = n, !.view = x] \in Browsers
       /\ [v EXCEPT !.cursor = n, !.view = x, !.attempts = 0] \in Browsers
<1>1. 0 \in 0 .. MaxReconnects
  BY LiveAssumption
<1>2. \A v \in Browsers :
       /\ v.state \in {"waiting", "open", "gave_up"} /\ v.slot \in 0 .. MaxClients
       /\ v.cursor \in Nat /\ v.view \in 0 .. MaxFacts
       /\ v.attempts \in 0 .. MaxReconnects
  BY DEF Browsers
<1>3. ASSUME NEW v \in Browsers, NEW n \in Nat, NEW x \in 0 .. MaxFacts
      PROVE  /\ [v EXCEPT !.cursor = n, !.view = x] \in Browsers
             /\ [v EXCEPT !.cursor = n, !.view = x, !.attempts = 0] \in Browsers
  BY <1>1 DEF Browsers
<1> QED BY <1>2, <1>3

\* A browser that tries again, or has given up, uses no slot.
LEMMA RescheduledIs ==
  ASSUME NEW v \in Browsers
  PROVE  /\ Rescheduled(v) \in Browsers
         /\ Rescheduled(v).slot = 0 /\ Rescheduled(v).state # "open"
<1>1. MaxReconnects \in Nat /\ MaxClients \in Nat /\ v.attempts \in 0 .. MaxReconnects
  BY LiveAssumption, BrowserFields
<1>2. CASE v.attempts < MaxReconnects
  <2>1. v.attempts + 1 \in 0 .. MaxReconnects /\ 0 \in 0 .. MaxClients
    BY <1>1, <1>2
  <2>2. Rescheduled(v) = [v EXCEPT !.state = "waiting", !.slot = 0, !.attempts = v.attempts + 1]
    BY <1>2 DEF Rescheduled
  <2> QED BY <2>1, <2>2 DEF Browsers
<1>3. CASE ~(v.attempts < MaxReconnects)
  <2>1. 0 \in 0 .. MaxClients
    BY <1>1
  <2>2. Rescheduled(v) = [v EXCEPT !.state = "gave_up", !.slot = 0]
    BY <1>3 DEF Rescheduled
  <2> QED BY <2>1, <2>2 DEF Browsers
<1> QED BY <1>2, <1>3

\* What accept makes of an envelope.
LEMMA BrowserAccepts ==
  ASSUME NEW v \in Browsers, NEW e \in Envelopes
  PROVE  /\ e.event = "snapshot" /\ e.seq >= v.cursor =>
              Accepted(v, e) = [v EXCEPT !.cursor = e.seq, !.view = e.fact, !.attempts = 0]
         /\ e.event # "snapshot" /\ e.seq = v.cursor + 1 =>
              Accepted(v, e) = [v EXCEPT !.cursor = e.seq,
                      !.view = IF e.event = "fact" THEN e.fact ELSE v.view]
         /\ e.event # "snapshot" /\ e.seq > v.cursor + 1 => Accepted(v, e) = Rescheduled(v)
         /\ \/ e.event = "snapshot" /\ e.seq >= v.cursor
            \/ e.event # "snapshot" /\ e.seq = v.cursor + 1
            \/ e.event # "snapshot" /\ e.seq > v.cursor + 1
            \/ Accepted(v, e) = v
<1>1. e.seq \in Nat /\ v.cursor \in Nat
  BY BrowserFields DEF Envelopes
<1>2. e.seq = v.cursor + 1 => ~(e.seq > v.cursor + 1)
  BY <1>1
<1> QED BY <1>1, <1>2 DEF Accepted

\* A browser that accepts an envelope stays where it is, or starts over.
LEMMA AcceptedIs ==
  ASSUME NEW v \in Browsers, NEW e \in Envelopes
  PROVE  /\ Accepted(v, e) \in Browsers
         /\ \/ Accepted(v, e) = Rescheduled(v)
            \/ Accepted(v, e).state = v.state /\ Accepted(v, e).slot = v.slot
<1>1. e.seq \in Nat /\ e.fact \in 0 .. MaxFacts /\ v.view \in 0 .. MaxFacts
  BY BrowserFields DEF Envelopes
<1>2. CASE e.event = "snapshot" /\ e.seq >= v.cursor
  <2>1. Accepted(v, e) = [v EXCEPT !.cursor = e.seq, !.view = e.fact, !.attempts = 0]
    BY <1>2, BrowserAccepts
  <2> QED BY <1>1, <2>1, BrowserFields DEF Browsers
<1>3. CASE e.event # "snapshot" /\ e.seq = v.cursor + 1
  <2> DEFINE x == IF e.event = "fact" THEN e.fact ELSE v.view
  <2>1. Accepted(v, e) = [v EXCEPT !.cursor = e.seq, !.view = x] /\ x \in 0 .. MaxFacts
    BY <1>1, <1>3, BrowserAccepts
  <2> HIDE DEF x
  <2> QED BY <1>1, <2>1, BrowserFields DEF Browsers
<1>4. CASE e.event # "snapshot" /\ e.seq > v.cursor + 1
  BY <1>4, BrowserAccepts, RescheduledIs
<1>5. CASE Accepted(v, e) = v
  BY <1>5
<1> QED BY <1>2, <1>3, <1>4, <1>5, BrowserAccepts

\* A browser takes the head of its flow: it gives its connection up, or what
\* is left of the flow is in order.
LEMMA FlowReceived ==
  ASSUME NEW v \in Browsers, NEW q \in Seq(Envelopes), q # <<>>,
         NEW n \in Nat, NEW f, NEW o \in SUBSET Deliveries,
         FlowOK(v, q, n, f, o)
  PROVE  \/ Accepted(v, Head(q)) = Rescheduled(v)
         \/ FlowOK(Accepted(v, Head(q)), Tail(q), n, f, o)
<1> DEFINE b == Base(v.cursor, q)
           e == q[1]
           u == Accepted(v, e)
<1>1. Head(q) = e /\ e \in Envelopes /\ Len(q) \in Nat \ {0} /\ e.seq \in Nat
      /\ v.cursor \in Nat /\ b \in Int
  BY ShorterFlow, BaseIsInt DEF Envelopes, Browsers
<1>2. b = IF e.event = "snapshot" THEN e.seq - 1 ELSE v.cursor
  BY DEF Base
<1>3. e.event = "snapshot" => v.cursor = 0
  BY DEF FlowOK
<1>4. SnapshotFirst(Tail(q)) /\ (Tail(q) # <<>> => Tail(q)[1].event # "snapshot")
  <2>1. \A i \in 1 .. Len(q) - 1 : q[i + 1].event # "snapshot"
    <3>1. \A i \in 1 .. Len(q) - 1 : i + 1 \in 2 .. Len(q)
      BY <1>1
    <3> QED BY <3>1 DEF FlowOK, SnapshotFirst
  <2>2. Tail(q) # <<>> => 1 \in 1 .. Len(q) - 1
    <3>1. Tail(q) # <<>> => Len(Tail(q)) # 0 /\ Len(Tail(q)) \in Nat
      BY ShorterFlow, EmptySeq, LenProperties
    <3> QED BY <3>1, ShorterFlow
  <2>3. \A i \in 2 .. Len(Tail(q)) : i \in 1 .. Len(q) - 1
    BY ShorterFlow
  <2>4. \A i \in 1 .. Len(q) - 1 : Tail(q)[i].event # "snapshot"
    BY <2>1, ShorterFlow
  <2> QED BY <2>2, <2>3, <2>4 DEF SnapshotFirst
<1>5. CASE e.seq > b + 1
  <2>1. e.event # "snapshot" /\ e.seq > v.cursor + 1
    BY <1>1, <1>2, <1>5
  <2>2. Accepted(v, e) = Rescheduled(v)
    BY <1>1, <2>1, BrowserAccepts
  <2> QED BY <1>1, <2>2
<1>6. CASE e.seq <= b + 1
  <2>1. e.seq = b + 1
    BY <1>1, <1>6, ContinuesTail, SkipsTail DEF FlowOK, StreamOK, InStep
  <2>2. /\ u.cursor = b + 1
        /\ u.view = IF e.event = "log" THEN v.view ELSE e.fact
    <3>1. CASE e.event = "snapshot"
      <4>1. u = [v EXCEPT !.cursor = e.seq, !.view = e.fact, !.attempts = 0]
        <5>1. e.seq >= v.cursor
          BY <1>1, <1>3, <3>1
        <5> QED BY <1>1, <3>1, <5>1, BrowserAccepts
      <4>2. u.cursor = e.seq /\ u.view = e.fact
        BY <4>1 DEF Browsers
      <4> HIDE DEF u, b
      <4> QED BY <2>1, <3>1, <4>2
    <3>2. CASE e.event # "snapshot"
      <4>1. u = [v EXCEPT !.cursor = e.seq,
                          !.view = IF e.event = "fact" THEN e.fact ELSE v.view]
        BY <1>1, <1>2, <2>1, <3>2, BrowserAccepts
      <4>2. e.event = "fact" <=> e.event # "log"
        BY <1>1, <3>2 DEF Envelopes
      <4>3. u.cursor = e.seq /\ u.view = IF e.event = "fact" THEN e.fact ELSE v.view
        BY <4>1 DEF Browsers
      <4> HIDE DEF u, b
      <4> QED BY <2>1, <4>2, <4>3
    <3> QED BY <3>1, <3>2
  <2>3. Base(u.cursor, Tail(q)) = b + 1
    BY <1>4, <2>2 DEF Base
  <2>4. CASE Skips(b, q)
    BY <1>1, <1>4, <1>6, <2>3, <2>4, SkipsTail DEF FlowOK, StreamOK
  <2>5. CASE InStep(v, q, n, f, o)
    <3>1. /\ Continues(b, q, Len(q)) /\ b + Len(q) <= n
          /\ \A d \in o : d.what.seq > b + Len(q)
          /\ \A m \in b + Len(q) + 1 .. n : \E d \in o : d.what.seq = m
          /\ (\A d \in o : d.what.event = "log") => Shows(v.view, q, f)
      BY <2>5 DEF InStep
    <3>2. Continues(b + 1, Tail(q), Len(Tail(q)))
      BY <1>1, <3>1, ContinuesTail, ShorterFlow
    <3>3. b + 1 + Len(Tail(q)) = b + Len(q)
      BY <1>1, ShorterFlow
    <3>4. Shows(v.view, q, f) => Shows(u.view, Tail(q), f)
      BY <2>2, ShowsTail
    <3>5. InStep(u, Tail(q), n, f, o)
      <4> HIDE DEF u, b
      <4> QED BY <2>3, <3>1, <3>2, <3>3, <3>4 DEF InStep
    <3> QED BY <1>1, <1>4, <3>5 DEF FlowOK, StreamOK
  <2> QED BY <2>4, <2>5 DEF FlowOK, StreamOK
<1> QED BY <1>1, <1>5, <1>6

\* A broadcast begins: it has the next number, and owes it to the browser.
LEMMA FlowAnnounced ==
  ASSUME NEW v \in Browsers, NEW q \in Seq(Envelopes), NEW p \in Seq(Envelopes),
         NEW n \in Nat, NEW f, NEW g, NEW o \in SUBSET Deliveries, NEW d \in Deliveries,
         FlowOK(v, q, n, f, o), d.what.seq = n + 1,
         Len(p) = Len(q),
         \A i \in 1 .. Len(q) : p[i].seq = q[i].seq /\ p[i].event = q[i].event,
         d.what.event = "fact" \/ (p = q /\ f = g)
  PROVE  FlowOK(v, p, n + 1, g, o \cup {d})
<1>1. Len(q) \in Nat /\ (p = <<>> <=> q = <<>>) /\ (q # <<>> => 1 \in 1 .. Len(q))
  BY EmptySeq, LenProperties
<1>2. Base(v.cursor, p) = Base(v.cursor, q) /\ Base(v.cursor, q) \in Int
  BY <1>1, BaseIsInt DEF Base, Browsers
<1>3. SnapshotFirst(p) /\ (p # <<>> /\ p[1].event = "snapshot" => v.cursor = 0)
  <2>1. \A i \in 2 .. Len(q) : i \in 1 .. Len(q)
    BY <1>1
  <2> QED BY <1>1, <2>1 DEF FlowOK, SnapshotFirst
<1>4. ASSUME NEW b, NEW i \in 0 .. Len(q) PROVE Continues(b, q, i) <=> Continues(b, p, i)
  BY <1>1 DEF Continues
<1>5. CASE Skips(Base(v.cursor, q), q)
  <2>1. PICK i \in 1 .. Len(q) : /\ q[i].seq > Base(v.cursor, q) + i
                                 /\ Continues(Base(v.cursor, q), q, i - 1)
    BY <1>5 DEF Skips
  <2>2. Continues(Base(v.cursor, q), p, i - 1)
    BY <1>1, <1>4, <2>1
  <2>3. Skips(Base(v.cursor, p), p)
    BY <1>2, <2>1, <2>2 DEF Skips
  <2> QED BY <1>3, <2>3 DEF FlowOK, StreamOK
<1>6. CASE InStep(v, q, n, f, o)
  <2> DEFINE b == Base(v.cursor, q)
             last == b + Len(q)
  <2>1. /\ Continues(b, q, Len(q)) /\ last <= n /\ last \in Int
        /\ \A x \in o : x.what.seq > last
        /\ \A m \in last + 1 .. n : \E x \in o : x.what.seq = m
        /\ (\A x \in o : x.what.event = "log") => Shows(v.view, q, f)
    BY <1>1, <1>2, <1>6 DEF InStep
  <2>2. Continues(b, p, Len(p))
    BY <1>1, <1>4, <2>1
  <2>3. \A x \in o \cup {d} : x.what.seq > last
    BY <2>1
  <2>4. \A m \in last + 1 .. n + 1 : \E x \in o \cup {d} : x.what.seq = m
    <3>1. ASSUME NEW m \in last + 1 .. n + 1
          PROVE  \E x \in o \cup {d} : x.what.seq = m
      <4>1. CASE m = n + 1
        BY <4>1
      <4>2. CASE m # n + 1
        <5>1. m \in last + 1 .. n
          BY <4>2, <2>1
        <5> QED BY <2>1, <5>1
      <4> QED BY <4>1, <4>2
    <3> QED BY <3>1
  <2>5. (\A x \in o \cup {d} : x.what.event = "log") => Shows(v.view, p, g)
    BY <2>1
  <2>6. last <= n + 1
    BY <2>1
  <2>7. InStep(v, p, n + 1, g, o \cup {d})
    BY <1>2, <2>2, <2>3, <2>4, <2>5, <2>6 DEF InStep
  <2> QED BY <1>3, <2>7 DEF FlowOK, StreamOK
<1> QED BY <1>5, <1>6 DEF FlowOK, StreamOK

\* A client is admitted: its flow is the snapshot under the current number.
LEMMA FlowBegins ==
  ASSUME NEW v \in Browsers, v.cursor = 0, NEW n \in Nat \ {0},
         NEW f \in 0 .. MaxFacts
  PROVE  FlowOK(v, <<Envelope("snapshot", n, f)>>, n, f, {})
<1> DEFINE q == <<Envelope("snapshot", n, f)>>
<1>1. /\ Len(q) = 1 /\ q # <<>>
      /\ q[1].event = "snapshot" /\ q[1].seq = n /\ q[1].fact = f
  BY DEF Envelope
<1> HIDE DEF q
<1>2. Base(v.cursor, q) = n - 1
  BY <1>1 DEF Base
<1>3. SnapshotFirst(q)
  BY <1>1 DEF SnapshotFirst
<1>4. Shows(v.view, q, f)
  BY <1>1 DEF Shows
<1>5. Continues(n - 1, q, 1) /\ n - 1 + 1 = n /\ n <= n /\ n + 1 .. n = {}
  BY <1>1 DEF Continues
<1>6. InStep(v, q, n, f, {})
  BY <1>1, <1>2, <1>4, <1>5 DEF InStep
<1>7. FlowOK(v, q, n, f, {})
  BY <1>1, <1>3, <1>6 DEF FlowOK, StreamOK
<1> QED BY <1>7 DEF q

\* A browser that has its whole flow, and is owed nothing, is up to date.
LEMMA FlowEnds ==
  ASSUME NEW v \in Browsers, NEW n \in Nat, NEW f, FlowOK(v, <<>>, n, f, {})
  PROVE  v.cursor = n /\ v.view = f
<1> DEFINE q == <<>>
<1>1. Len(q) = 0 /\ Base(v.cursor, q) = v.cursor /\ v.cursor \in Nat
  BY DEF Base, Browsers
<1>2. ~Skips(v.cursor, q)
  BY <1>1 DEF Skips
<1>3. InStep(v, q, n, f, {})
  BY <1>1, <1>2 DEF FlowOK, StreamOK
<1>4. /\ v.cursor + 0 <= n
      /\ \A m \in v.cursor + 0 + 1 .. n : FALSE
      /\ Shows(v.view, q, f)
  BY <1>1, <1>3 DEF InStep
<1>5. v.view = f
  BY <1>1, <1>4 DEF Shows
<1>6. n \notin v.cursor + 0 + 1 .. n
  BY <1>4
<1> QED BY <1>1, <1>4, <1>5, <1>6

-----------------------------------------------------------------------------
(* Slots. *)

\* The bounds are numbers.
LEMMA Numbers == /\ MaxClients \in Nat \ {0} /\ MaxPending \in Nat \ {0}
                 /\ MaxReconnects \in Nat /\ MaxFacts \in Nat
                 /\ MaxDisturbances \in Nat
BY LiveAssumption

\* The parts of the shape, to cite one without expanding them all.
LEMMA TypedParts ==
  ASSUME LiveTypeOK
  PROVE  /\ AuthorityTypeOK
         /\ slot \in [Slots -> Clients] /\ \A s \in Slots : SlotTypeOK(slot[s])
         /\ wire \in [Slots -> Seq(Envelopes)]
         /\ seq \in Nat /\ orphans \in Nat /\ InFlightSnapshots <= MaxClients
         /\ timer \in BOOLEAN /\ owed \in SUBSET Deliveries
         /\ web \in [Viewers -> Browsers] /\ up \in BOOLEAN
         /\ facts \in 0 .. MaxFacts /\ disturbances \in 0 .. MaxDisturbances
BY DEF LiveTypeOK

\* An empty flow is a flow.
LEMMA EmptyFlow == <<>> \in Seq(Envelopes) /\ Len(<<>>) = 0
BY EmptySeq

\* A client that was closed keeps its browser and its cursor, and nothing else.
LEMMA ClosedIs ==
  ASSUME NEW c \in Clients
  PROVE  /\ Closed(c) \in Clients /\ SlotTypeOK(Closed(c))
         /\ Closed(c).phase = "closing" /\ Closed(c).who = c.who
         /\ Closed(c).secret = c.secret /\ Closed(c).cursor = c.cursor
<1>1. NotRead \in NotRead .. MaxFacts
  BY Numbers DEF NotRead
<1>2. /\ Closed(c) \in Clients
      /\ Closed(c).phase = "closing" /\ Closed(c).who = c.who
      /\ Closed(c).secret = c.secret /\ Closed(c).cursor = c.cursor
      /\ Closed(c).pending = <<>> /\ Closed(c).snap = NotRead
  BY <1>1, EmptyFlow DEF Closed, Clients
<1>3. Closed(c) # FreeSlot
  BY <1>2 DEF FreeSlot
<1> QED BY <1>2, <1>3, EmptyFlow, Numbers DEF SlotTypeOK

\* A free slot is well-formed.
LEMMA FreeIs ==
  /\ FreeSlot \in Clients /\ SlotTypeOK(FreeSlot) /\ FreeSlot.phase = "free"
<1>1. NotRead \in NotRead .. MaxFacts /\ "nobody" \in Viewers \cup {"nobody"}
      /\ "none" \in Secrets \cup {"none", "lapsed"}
  BY Numbers DEF NotRead
<1> QED BY <1>1, EmptyFlow, Numbers DEF FreeSlot, Clients, SlotTypeOK

\* One slot gets another record.
LEMMA SlotBecomes ==
  ASSUME slot \in [Slots -> Clients], \A t \in Slots : SlotTypeOK(slot[t]),
         NEW s \in Slots, NEW c \in Clients, SlotTypeOK(c),
         slot' = [slot EXCEPT ![s] = c]
  PROVE  /\ slot' \in [Slots -> Clients] /\ \A t \in Slots : SlotTypeOK(slot[t])'
         /\ slot'[s] = c /\ \A t \in Slots : t # s => slot'[t] = slot[t]
<1>1. /\ slot' \in [Slots -> Clients]
      /\ slot'[s] = c /\ \A t \in Slots : t # s => slot'[t] = slot[t]
  OBVIOUS
<1>2. \A t \in Slots : SlotTypeOK(slot'[t])
  BY <1>1
<1>3. \A t \in Slots : SlotTypeOK(slot[t])'
  BY <1>2 DEF SlotTypeOK, FreeSlot, NotRead
<1> QED BY <1>1, <1>3

\* What a closure changes: one slot, which is neither connected nor reading.
LEMMA Closes ==
  ASSUME LiveTypeOK, NEW s \in Slots, Close(s)
  PROVE  /\ slot' \in [Slots -> Clients] /\ \A t \in Slots : SlotTypeOK(slot[t])'
         /\ slot'[s].phase = "closing" /\ slot'[s].who = slot[s].who
         /\ \A t \in Slots : t # s => slot'[t] = slot[t]
         /\ Connected' = Connected \ {s}
         /\ Handshaking' = Handshaking \ {s}
<1>1. slot[s] \in Clients /\ slot' = [slot EXCEPT ![s] = Closed(slot[s])]
  BY TypedParts DEF Close, Closed
<1>2. /\ slot' \in [Slots -> Clients] /\ \A t \in Slots : SlotTypeOK(slot[t])'
      /\ slot'[s] = Closed(slot[s]) /\ \A t \in Slots : t # s => slot'[t] = slot[t]
  BY <1>1, TypedParts, ClosedIs, SlotBecomes
<1>3. slot'[s].phase = "closing" /\ slot'[s].who = slot[s].who
  BY <1>1, <1>2, ClosedIs
<1>4. Connected' = Connected \ {s}
  BY <1>2, <1>3 DEF Connected
<1>5. Handshaking' = Handshaking \ {s}
  BY <1>2, <1>3 DEF Handshaking
<1> QED BY <1>2, <1>3, <1>4, <1>5

\* How many slots are handshaking.
LEMMA HandshakingCount ==
  ASSUME LiveTypeOK
  PROVE  /\ IsFiniteSet(Handshaking) /\ Cardinality(Handshaking) \in Nat
         /\ \A T : T \subseteq Handshaking =>
              /\ IsFiniteSet(T) /\ Cardinality(T) \in Nat
              /\ Cardinality(Handshaking \ T) = Cardinality(Handshaking) - Cardinality(T)
         /\ \A s \in Handshaking :
              Cardinality(Handshaking \ {s}) = Cardinality(Handshaking) - 1
         /\ \A s \in Slots \ Handshaking :
              Cardinality(Handshaking \cup {s}) = Cardinality(Handshaking) + 1
<1>1. IsFiniteSet(1 .. MaxClients)
  BY Numbers, FS_Interval
<1>2. IsFiniteSet(Handshaking)
  BY <1>1, FS_Subset DEF Handshaking, Slots
<1>3. Cardinality(Handshaking) \in Nat
  BY <1>2, FS_CardinalityType
<1>4. ASSUME NEW T, T \subseteq Handshaking
      PROVE  /\ IsFiniteSet(T) /\ Cardinality(T) \in Nat
             /\ Cardinality(Handshaking \ T) = Cardinality(Handshaking) - Cardinality(T)
  <2>1. IsFiniteSet(T) /\ Cardinality(T) \in Nat
    BY <1>2, <1>4, FS_Subset, FS_CardinalityType
  <2>2. Handshaking \cap T = T
    BY <1>4
  <2>3. Cardinality(Handshaking \ T) = Cardinality(Handshaking) - Cardinality(Handshaking \cap T)
    BY <1>2, FS_Difference
  <2> QED BY <2>1, <2>2, <2>3
<1>5. \A s \in Handshaking : Cardinality(Handshaking \ {s}) = Cardinality(Handshaking) - 1
  BY <1>2, FS_RemoveElement
<1>6. \A s \in Slots \ Handshaking :
        Cardinality(Handshaking \cup {s}) = Cardinality(Handshaking) + 1
  BY <1>2, FS_AddElement
<1> QED BY <1>2, <1>3, <1>4, <1>5, <1>6

\* The reads under way, when the slots that handshake do not become more, and
\* those whose client goes are counted.
LEMMA ReadsBounded ==
  ASSUME LiveTypeOK, NEW T \in SUBSET Slots, Handshaking' = Handshaking \ T,
         NEW k \in Nat, k <= Cardinality(T \cap Handshaking), orphans' = orphans + k
  PROVE  orphans' \in Nat /\ InFlightSnapshots' <= MaxClients
<1>1. T \cap Handshaking \subseteq Handshaking
      /\ Handshaking \ T = Handshaking \ (T \cap Handshaking)
  OBVIOUS
<1>2. Cardinality(Handshaking) \in Nat /\ Cardinality(T \cap Handshaking) \in Nat
      /\ Cardinality(Handshaking') = Cardinality(Handshaking) - Cardinality(T \cap Handshaking)
  BY <1>1, HandshakingCount
<1>3. orphans \in Nat /\ orphans + Cardinality(Handshaking) <= MaxClients
  BY TypedParts DEF InFlightSnapshots
<1>4. InFlightSnapshots' = orphans' + Cardinality(Handshaking')
  BY DEF InFlightSnapshots
<1> QED BY <1>2, <1>3, <1>4, Numbers

\* A read that goes on without its client is counted once.
LEMMA OrphansBounded ==
  ASSUME LiveTypeOK, NEW s \in Slots, Handshaking' = Handshaking \ {s},
         Orphan(s) \/ orphans' = orphans
  PROVE  orphans' \in Nat /\ InFlightSnapshots' <= MaxClients
<1>1. CASE orphans' = orphans
  <2>1. 0 <= Cardinality({s} \cap Handshaking)
    BY HandshakingCount
  <2>2. orphans' = orphans + 0
    BY <1>1, TypedParts
  <2> QED BY <2>1, <2>2, ReadsBounded
<1>2. CASE orphans' # orphans
  <2>1. slot[s].phase = "handshaking" /\ orphans' = orphans + 1
    BY <1>2 DEF Orphan
  <2>2. {s} \cap Handshaking = {s}
    BY <2>1 DEF Handshaking
  <2>3. Cardinality({s}) = 1
    BY FS_Singleton
  <2>4. 1 <= Cardinality({s} \cap Handshaking)
    BY <2>2, <2>3
  <2> QED BY <2>1, <2>4, ReadsBounded
<1> QED BY <1>1, <1>2

\* Reads are counted as before when neither kind changes.
LEMMA ReadsSame ==
  ASSUME LiveTypeOK, Handshaking' = Handshaking, orphans' = orphans
  PROVE  orphans' \in Nat /\ InFlightSnapshots' <= MaxClients
BY TypedParts DEF InFlightSnapshots

\* What is announced.
LEMMA AnnounceTyped ==
  ASSUME LiveTypeOK, NEW clients \in SUBSET Slots, NEW k \in {"log", "fact"},
         NEW v \in 0 .. MaxFacts, NEW rest \in SUBSET owed,
         Announce(clients, k, v, rest)
  PROVE  seq' \in Nat /\ seq' >= seq /\ owed' \in SUBSET Deliveries
<1>1. seq \in Nat /\ rest \in SUBSET Deliveries
  BY TypedParts
<1>2. seq' \in Nat /\ seq' >= seq
  BY <1>1 DEF Announce
<1>3. Numbered(k, v) \in Envelopes
  BY <1>1 DEF Numbered, Envelope, Envelopes
<1>4. {[to |-> s, what |-> Numbered(k, v)] : s \in clients} \subseteq Deliveries
  BY <1>3 DEF Deliveries
<1> QED BY <1>1, <1>2, <1>4 DEF Announce

-----------------------------------------------------------------------------
(* The shape of the state. *)

\* Steps that leave alone the variables that are not named.
LEMMA TypedFrom ==
  ASSUME LiveTypeOK, AuthorityTypeOK',
         slot' \in [Slots -> Clients], \A t \in Slots : SlotTypeOK(slot[t])',
         wire' \in [Slots -> Seq(Envelopes)], seq' \in Nat,
         orphans' \in Nat, InFlightSnapshots' <= MaxClients,
         timer' \in BOOLEAN, owed' \in SUBSET Deliveries,
         web' \in [Viewers -> Browsers], up' \in BOOLEAN,
         facts' \in 0 .. MaxFacts, disturbances' \in 0 .. MaxDisturbances
  PROVE  LiveTypeOK'
BY DEF LiveTypeOK

\* Slots that do not change keep their shape and their sets.
LEMMA SlotsSame ==
  ASSUME LiveTypeOK, slot' = slot
  PROVE  /\ slot' \in [Slots -> Clients] /\ \A t \in Slots : SlotTypeOK(slot[t])'
         /\ Handshaking' = Handshaking /\ Connected' = Connected
BY TypedParts DEF Handshaking, Connected, SlotTypeOK, FreeSlot, NotRead

\* The registry keeps its shape when it is not written.
LEMMA AuthoritySame ==
  ASSUME AuthorityTypeOK, UNCHANGED authVars
  PROVE  AuthorityTypeOK'
BY DEF AuthorityTypeOK, authVars

\* Disturbances stay within their bound.
LEMMA Disturbed ==
  ASSUME LiveTypeOK, Disturb(1) \/ UNCHANGED disturbances
  PROVE  disturbances' \in 0 .. MaxDisturbances
BY TypedParts, Numbers DEF Disturb

\* The timer runs or it does not.
LEMMA TimerTyped ==
  ASSUME SyncTimer
  PROVE  timer' \in BOOLEAN
BY DEF SyncTimer

\* The first delivery of a broadcast that is due, and how it ends.
LEMMA ReportTyped ==
  ASSUME LiveTypeOK, AuthorityTypeOK', NEW d \in owed, CloseAndReport(d),
         timer' \in BOOLEAN, UNCHANGED <<web, up, facts>>,
         disturbances' \in 0 .. MaxDisturbances
  PROVE  LiveTypeOK'
<1>1. d.to \in Slots /\ owed \ {d} \in SUBSET owed /\ Connected \ {d.to} \in SUBSET Slots
      /\ 0 \in 0 .. MaxFacts
  BY TypedParts, Numbers DEF Deliveries, Connected
<1>2. seq' \in Nat /\ owed' \in SUBSET Deliveries
  BY <1>1, AnnounceTyped DEF CloseAndReport
<1>3. /\ slot' \in [Slots -> Clients] /\ \A t \in Slots : SlotTypeOK(slot[t])'
      /\ Handshaking' = Handshaking \ {d.to}
  BY <1>1, Closes DEF CloseAndReport
<1>4. orphans' \in Nat /\ InFlightSnapshots' <= MaxClients
  BY <1>1, <1>3, OrphansBounded DEF CloseAndReport
<1>5. /\ wire' \in [Slots -> Seq(Envelopes)] /\ web' \in [Viewers -> Browsers]
      /\ up' \in BOOLEAN /\ facts' \in 0 .. MaxFacts
  BY TypedParts DEF CloseAndReport
<1> QED BY <1>2, <1>3, <1>4, <1>5, TypedFrom

\* One delivery of a broadcast.
LEMMA DeliverTyped ==
  ASSUME LiveTypeOK, AuthorityTypeOK', Deliver
  PROVE  LiveTypeOK'
<1>1. PICK d \in owed : Keep(d) \/ Overflow(d) \/ Send(d) \/ SendFails(d) \/ Skip(d)
  BY DEF Deliver
<1>2. d.to \in Slots /\ d.what \in Envelopes /\ owed \ {d} \in SUBSET Deliveries
  BY TypedParts DEF Deliveries
<1>3. /\ timer' \in BOOLEAN /\ web' \in [Viewers -> Browsers] /\ UNCHANGED <<web, up, facts>>
      /\ up' \in BOOLEAN /\ facts' \in 0 .. MaxFacts
  BY TypedParts, TimerTyped DEF Deliver
<1>4. CASE Keep(d)
  <2> DEFINE c == [slot[d.to] EXCEPT !.pending = Append(slot[d.to].pending, d.what)]
  <2>1. slot[d.to] \in Clients /\ slot[d.to].pending \in Seq(Envelopes)
        /\ SlotTypeOK(slot[d.to])
    BY <1>2, TypedParts DEF Clients
  <2>2. Append(slot[d.to].pending, d.what) \in Seq(Envelopes)
        /\ Len(Append(slot[d.to].pending, d.what)) = Len(slot[d.to].pending) + 1
        /\ Len(slot[d.to].pending) \in Nat
    BY <1>2, <2>1, AppendedFlow
  <2>3. c \in Clients /\ c.phase = "handshaking"
        /\ c.pending = Append(slot[d.to].pending, d.what)
    BY <1>4, <2>1, <2>2 DEF Clients, Keep
  <2>4. c # FreeSlot
    BY <2>3 DEF FreeSlot
  <2>5. SlotTypeOK(c)
    <3>1. Len(c.pending) <= MaxPending
      BY <1>4, <2>2, <2>3, Numbers DEF Keep
    <3> QED BY <2>3, <2>4, <3>1 DEF SlotTypeOK
  <2>6. slot' = [slot EXCEPT ![d.to] = c]
    BY <1>4 DEF Keep
  <2> HIDE DEF c
  <2>7. /\ slot' \in [Slots -> Clients] /\ \A t \in Slots : SlotTypeOK(slot[t])'
        /\ slot'[d.to] = c /\ \A t \in Slots : t # d.to => slot'[t] = slot[t]
    BY <1>2, <2>3, <2>5, <2>6, TypedParts, SlotBecomes
  <2>8. Handshaking' = Handshaking
    BY <1>4, <2>3, <2>7 DEF Handshaking, Keep
  <2>9. orphans' \in Nat /\ InFlightSnapshots' <= MaxClients
    BY <1>4, <2>8, ReadsSame DEF Keep
  <2> QED BY <1>2, <1>3, <1>4, <2>7, <2>9, TypedParts, TypedFrom DEF Keep
<1>5. CASE Overflow(d)
  BY <1>3, <1>5, ReportTyped, Disturbed DEF Overflow
<1>6. CASE SendFails(d)
  BY <1>3, <1>6, ReportTyped, Disturbed DEF SendFails
<1>7. CASE Send(d)
  <2>1. wire[d.to] \in Seq(Envelopes) /\ Append(wire[d.to], d.what) \in Seq(Envelopes)
    BY <1>2, TypedParts, AppendedFlow
  <2>2. wire' \in [Slots -> Seq(Envelopes)]
    BY <1>7, <2>1, TypedParts DEF Send
  <2>3. CASE Entitled(d.to)
    <3>1. slot' = slot /\ orphans' = orphans
      BY <1>7, <2>3 DEF Send
    <3>2. orphans' \in Nat /\ InFlightSnapshots' <= MaxClients
      BY <3>1, SlotsSame, ReadsSame
    <3> QED BY <1>2, <1>3, <1>7, <2>2, <3>1, <3>2, SlotsSame, TypedParts, TypedFrom DEF Send
  <2>4. CASE ~Entitled(d.to)
    <3>1. Close(d.to) /\ orphans' = orphans
      BY <1>7, <2>4 DEF Send
    <3>2. /\ slot' \in [Slots -> Clients] /\ \A t \in Slots : SlotTypeOK(slot[t])'
          /\ Handshaking' = Handshaking \ {d.to}
      BY <1>2, <3>1, Closes
    <3>3. orphans' \in Nat /\ InFlightSnapshots' <= MaxClients
      BY <1>2, <3>1, <3>2, OrphansBounded
    <3> QED BY <1>2, <1>3, <1>7, <2>2, <3>2, <3>3, TypedParts, TypedFrom DEF Send
  <2> QED BY <2>3, <2>4
<1>8. CASE Skip(d)
  <2>1. slot' = slot /\ orphans' = orphans
    BY <1>8 DEF Skip
  <2>2. orphans' \in Nat /\ InFlightSnapshots' <= MaxClients
    BY <2>1, SlotsSame, ReadsSame
  <2> QED BY <1>2, <1>3, <1>8, <2>1, <2>2, SlotsSame, TypedParts, TypedFrom DEF Skip
<1> QED BY <1>1, <1>4, <1>5, <1>6, <1>7, <1>8

\* A slot is reserved.
LEMMA ConnectTyped ==
  ASSUME LiveTypeOK, AuthorityTypeOK', NEW w \in Viewers, Connect(w)
  PROVE  LiveTypeOK'
<1>1. PICK s \in Slots :
        /\ slot[s].phase = "free"
        /\ slot' = [slot EXCEPT ![s] = [FreeSlot EXCEPT
                      !.phase = "reserved", !.who = w, !.secret = row[Ops].secret]]
        /\ web' = [web EXCEPT ![w] = Fresh(web[w], s)]
  BY DEF Connect
<1> DEFINE c == [FreeSlot EXCEPT !.phase = "reserved", !.who = w, !.secret = row[Ops].secret]
<1>2. row[Ops].secret \in Secrets
  BY TypedParts, LiveAssumption DEF Connect, HoldsScope, AuthorityTypeOK, Rows
<1>3. /\ c \in Clients /\ c.phase = "reserved" /\ c.snap = NotRead /\ c.pending = <<>>
  BY <1>2, FreeIs DEF Clients, FreeSlot
<1>4. SlotTypeOK(c)
  <2> HIDE DEF c
  <2>1. c # FreeSlot
    BY <1>3, FreeIs
  <2> QED BY <1>3, <2>1, EmptyFlow, Numbers DEF SlotTypeOK
<1>5. /\ slot' \in [Slots -> Clients] /\ \A t \in Slots : SlotTypeOK(slot[t])'
      /\ slot'[s].phase = "reserved" /\ \A t \in Slots : t # s => slot'[t] = slot[t]
  <2> HIDE DEF c
  <2>1. slot' = [slot EXCEPT ![s] = c]
    BY <1>1 DEF c
  <2> QED BY <1>3, <1>4, <2>1, TypedParts, SlotBecomes
<1>6. Handshaking' = Handshaking
  BY <1>1, <1>5 DEF Handshaking
<1>7. orphans' \in Nat /\ InFlightSnapshots' <= MaxClients
  BY <1>6, ReadsSame DEF Connect, countVars
<1>8. Fresh(web[w], s) \in Browsers
  <2>1. web[w] \in Browsers /\ s \in 0 .. MaxClients
    BY TypedParts, Numbers DEF Slots
  <2> QED BY <2>1 DEF Fresh, Browsers
<1>9. web' \in [Viewers -> Browsers]
  BY <1>1, <1>8, TypedParts
<1> QED BY <1>5, <1>7, <1>9, TypedParts, TypedFrom DEF Connect, countVars

\* One browser gets another record.
LEMMA BrowserBecomes ==
  ASSUME LiveTypeOK, NEW w, NEW v \in Browsers,
         web' = [web EXCEPT ![w] = v]
  PROVE  web' \in [Viewers -> Browsers]
BY TypedParts

\* Nothing but the browsers' side and the wire.
LEMMA QuietTyped ==
  ASSUME LiveTypeOK, AuthorityTypeOK', UNCHANGED <<slot, seq, orphans, timer, owed>>,
         wire' \in [Slots -> Seq(Envelopes)], web' \in [Viewers -> Browsers],
         up' \in BOOLEAN, facts' = facts, disturbances' \in 0 .. MaxDisturbances
  PROVE  LiveTypeOK'
<1>1. orphans' \in Nat /\ InFlightSnapshots' <= MaxClients
  BY SlotsSame, ReadsSame
<1> QED BY <1>1, SlotsSame, TypedParts, TypedFrom

\* A failed attempt, and a receipt.
LEMMA BrowserStepsTyped ==
  ASSUME LiveTypeOK, AuthorityTypeOK', NEW w \in Viewers, ConnectFails(w) \/ Receive(w)
  PROVE  LiveTypeOK'
<1>1. web[w] \in Browsers
  BY TypedParts
<1>2. CASE ConnectFails(w)
  <2>1. web' \in [Viewers -> Browsers]
    BY <1>1, <1>2, RescheduledIs, BrowserBecomes DEF ConnectFails
  <2> QED BY <1>2, <2>1, TypedParts, QuietTyped DEF ConnectFails, serverVars, countVars
<1>3. CASE Receive(w)
  <2> DEFINE s == web[w].slot
  <2>1. s \in Slots
    <3>1. web[w].slot \in 0 .. MaxClients /\ web[w].slot # 0
      BY <1>1, <1>3, BrowserFields DEF Receive
    <3> QED BY <3>1, Numbers DEF Slots
  <2>2. wire[s] \in Seq(Envelopes) /\ wire[s] # <<>>
    BY <1>3, <2>1, TypedParts DEF Receive
  <2>3. Head(wire[s]) \in Envelopes /\ Tail(wire[s]) \in Seq(Envelopes)
    BY <2>2, ShorterFlow
  <2>4. Accepted(web[w], Head(wire[s])) \in Browsers
    BY <1>1, <2>3, AcceptedIs
  <2>5. web' \in [Viewers -> Browsers]
    <3>1. web' = [web EXCEPT ![w] = Accepted(web[w], Head(wire[s]))]
      BY <1>3 DEF Receive
    <3> HIDE DEF s
    <3> QED BY <2>4, <3>1, BrowserBecomes
  <2>6. wire' \in [Slots -> Seq(Envelopes)]
    BY <1>3, <2>1, <2>3, TypedParts DEF Receive
  <2> QED BY <1>3, <2>5, <2>6, TypedParts, QuietTyped DEF Receive, countVars
<1> QED BY <1>2, <1>3

\* The handshake is a flow, one longer than what was kept.
LEMMA HandshakeIsTyped ==
  ASSUME LiveTypeOK, NEW s \in Slots, slot[s].snap # NotRead
  PROVE  /\ Handshake(s) \in Seq(Envelopes)
         /\ Len(Handshake(s)) = Len(slot[s].pending) + 1 /\ Len(slot[s].pending) \in Nat
<1>1. /\ slot[s].snap \in 0 .. MaxFacts /\ slot[s].cursor \in Nat
      /\ slot[s].pending \in Seq(Envelopes)
  BY TypedParts, Numbers DEF Clients, NotRead
<1>2. Envelope("snapshot", slot[s].cursor, slot[s].snap) \in Envelopes
  BY <1>1 DEF Envelope, Envelopes
<1>3. <<Envelope("snapshot", slot[s].cursor, slot[s].snap)>> \in Seq(Envelopes)
      /\ Len(<<Envelope("snapshot", slot[s].cursor, slot[s].snap)>>) = 1
  BY <1>2
<1>4. Len(slot[s].pending) \in Nat
  BY <1>1, LenProperties
<1> QED BY <1>1, <1>3, <1>4, ConcatProperties DEF Handshake

\* A slot is closed, and its read comes to an end or outlives it.
LEMMA ClosingTyped ==
  ASSUME LiveTypeOK, AuthorityTypeOK', NEW s \in Slots, Close(s),
         Orphan(s) \/ orphans' = orphans,
         wire' \in [Slots -> Seq(Envelopes)], seq' \in Nat, timer' \in BOOLEAN,
         owed' \in SUBSET Deliveries, UNCHANGED <<web, up, facts>>,
         disturbances' \in 0 .. MaxDisturbances
  PROVE  LiveTypeOK'
<1>1. /\ slot' \in [Slots -> Clients] /\ \A t \in Slots : SlotTypeOK(slot[t])'
      /\ Handshaking' = Handshaking \ {s}
  BY Closes
<1>2. orphans' \in Nat /\ InFlightSnapshots' <= MaxClients
  BY <1>1, OrphansBounded
<1> QED BY <1>1, <1>2, TypedParts, TypedFrom

\* A slot gets another record, in which it handshakes no more than before.
LEMMA RecordTyped ==
  ASSUME LiveTypeOK, AuthorityTypeOK', NEW s \in Slots, NEW c \in Clients, SlotTypeOK(c),
         slot' = [slot EXCEPT ![s] = c],
         c.phase = "handshaking" => slot[s].phase = "handshaking",
         (Orphan(s) /\ c.phase # "handshaking") \/ orphans' = orphans,
         wire' \in [Slots -> Seq(Envelopes)], UNCHANGED <<seq, owed>>, timer' \in BOOLEAN,
         web' \in [Viewers -> Browsers], UNCHANGED <<up, facts>>,
         disturbances' \in 0 .. MaxDisturbances
  PROVE  LiveTypeOK'
<1>1. /\ slot' \in [Slots -> Clients] /\ \A t \in Slots : SlotTypeOK(slot[t])'
      /\ slot'[s] = c /\ \A t \in Slots : t # s => slot'[t] = slot[t]
  BY TypedParts, SlotBecomes
<1>2. orphans' \in Nat /\ InFlightSnapshots' <= MaxClients
  <2>1. CASE c.phase = "handshaking"
    <3>1. Handshaking' = Handshaking
      BY <1>1, <2>1 DEF Handshaking
    <3> QED BY <2>1, <3>1, ReadsSame
  <2>2. CASE c.phase # "handshaking"
    <3>1. Handshaking' = Handshaking \ {s}
      BY <1>1, <2>2 DEF Handshaking
    <3> QED BY <3>1, OrphansBounded
  <2> QED BY <2>1, <2>2
<1> QED BY <1>1, <1>2, TypedParts, TypedFrom

\* The upgrade.
LEMMA UpgradeTyped ==
  ASSUME LiveTypeOK, AuthorityTypeOK', NEW s \in Slots, Upgrade(s)
  PROVE  LiveTypeOK'
<1>1. /\ slot[s] \in Clients /\ SlotTypeOK(slot[s]) /\ slot[s].phase = "reserved"
      /\ timer' \in BOOLEAN /\ UNCHANGED <<wire, orphans, owed, web, up, facts, disturbances>>
  BY TypedParts, TimerTyped DEF Upgrade, countVars
<1>2. CASE Close(s) /\ seq' \in {seq, IF seq = 0 THEN 1 ELSE seq}
  <2>1. seq' \in Nat
    BY <1>2, TypedParts
  <2> QED BY <1>1, <1>2, <2>1, TypedParts, ClosingTyped
<1>3. CASE InFlightSnapshots < MaxClients /\ Admit(s)
  <2> DEFINE n == IF seq = 0 THEN 1 ELSE seq
             c == [slot[s] EXCEPT !.phase = "handshaking", !.cursor = n]
  <2>1. n \in Nat /\ seq' = n
    BY <1>3, TypedParts DEF Admit
  <2>2. c \in Clients /\ c.phase = "handshaking" /\ c.pending = slot[s].pending
    BY <1>1, <2>1 DEF Clients
  <2>3. slot' = [slot EXCEPT ![s] = c]
    BY <1>1, <1>3, TypedParts DEF Admit
  <2> HIDE DEF c, n
  <2>4. SlotTypeOK(c)
    <3>1. c # FreeSlot
      BY <2>2, FreeIs
    <3> QED BY <1>1, <2>2, <3>1 DEF SlotTypeOK
  <2>5. /\ slot' \in [Slots -> Clients] /\ \A t \in Slots : SlotTypeOK(slot[t])'
        /\ slot'[s] = c /\ \A t \in Slots : t # s => slot'[t] = slot[t]
    BY <2>2, <2>3, <2>4, TypedParts, SlotBecomes
  <2>6. s \in Slots \ Handshaking /\ Handshaking' = Handshaking \cup {s}
    BY <1>1, <2>2, <2>5 DEF Handshaking
  <2>7. orphans' \in Nat /\ InFlightSnapshots' <= MaxClients
    <3>1. Cardinality(Handshaking') = Cardinality(Handshaking) + 1
          /\ Cardinality(Handshaking) \in Nat
      BY <2>6, HandshakingCount
    <3> QED BY <1>1, <1>3, <3>1, TypedParts, Numbers DEF InFlightSnapshots
  <2> QED BY <1>1, <2>1, <2>5, <2>7, TypedParts, TypedFrom
<1>4. InFlightSnapshots \in Int
  BY TypedParts, HandshakingCount DEF InFlightSnapshots
<1> QED BY <1>2, <1>3, <1>4, Numbers DEF Upgrade, Upgraded

\* The snapshot is read.
LEMMA SnapshotReadTyped ==
  ASSUME LiveTypeOK, AuthorityTypeOK', NEW s \in Slots, SnapshotRead(s)
  PROVE  LiveTypeOK'
<1> DEFINE c == [slot[s] EXCEPT !.snap = facts]
<1>1. slot[s] \in Clients /\ SlotTypeOK(slot[s]) /\ slot[s].phase = "handshaking"
  BY TypedParts DEF SnapshotRead
<1>2. facts \in NotRead .. MaxFacts
  BY TypedParts, Numbers DEF NotRead
<1>3. c \in Clients /\ c.phase = "handshaking" /\ c.pending = slot[s].pending
  BY <1>1, <1>2 DEF Clients
<1>4. slot' = [slot EXCEPT ![s] = c]
  BY DEF SnapshotRead
<1> HIDE DEF c
<1>5. SlotTypeOK(c)
  <2>1. c # FreeSlot
    BY <1>3, FreeIs
  <2> QED BY <1>1, <1>3, <2>1 DEF SlotTypeOK
<1> QED BY <1>1, <1>3, <1>4, <1>5, TypedParts, RecordTyped DEF SnapshotRead, countVars

\* The snapshot is sent.
LEMMA SnapshotSentTyped ==
  ASSUME LiveTypeOK, AuthorityTypeOK', NEW s \in Slots, SnapshotSent(s)
  PROVE  LiveTypeOK'
<1>1. /\ slot[s] \in Clients /\ slot[s].phase = "handshaking" /\ slot[s].snap # NotRead
      /\ timer' \in BOOLEAN
      /\ UNCHANGED <<seq, orphans, owed, web, up, facts, disturbances>>
  BY TypedParts, TimerTyped DEF SnapshotSent, countVars
<1>2. CASE Close(s) /\ UNCHANGED wire
  BY <1>1, <1>2, TypedParts, ClosingTyped
<1>3. CASE Greet(s)
  <2> DEFINE c == [slot[s] EXCEPT !.phase = "ready", !.snap = NotRead, !.pending = <<>>]
  <2>1. NotRead \in NotRead .. MaxFacts
    BY Numbers DEF NotRead
  <2>2. c \in Clients /\ c.phase = "ready" /\ c.snap = NotRead /\ c.pending = <<>>
    BY <1>1, <2>1, EmptyFlow DEF Clients
  <2>3. slot' = [slot EXCEPT ![s] = c]
    BY <1>1, <1>3, TypedParts DEF Greet
  <2> HIDE DEF c
  <2>4. SlotTypeOK(c)
    <3>1. c # FreeSlot
      BY <2>2, FreeIs
    <3> QED BY <2>2, <3>1, EmptyFlow, Numbers DEF SlotTypeOK
  <2>5. wire[s] \in Seq(Envelopes) /\ wire[s] \o Handshake(s) \in Seq(Envelopes)
    BY <1>1, HandshakeIsTyped, TypedParts, ConcatProperties
  <2>6. wire' \in [Slots -> Seq(Envelopes)]
    BY <1>3, <2>5, TypedParts DEF Greet
  <2> QED BY <1>1, <2>2, <2>3, <2>4, <2>6, TypedParts, RecordTyped
<1> QED BY <1>2, <1>3 DEF SnapshotSent, Greeted

\* A send of the handshake fails.
LEMMA HandshakeFailsTyped ==
  ASSUME LiveTypeOK, AuthorityTypeOK', NEW s \in Slots, HandshakeFails(s)
  PROVE  LiveTypeOK'
<1>1. /\ {} \in SUBSET owed /\ Connected \ {s} \in SUBSET Slots /\ 0 \in 0 .. MaxFacts
  BY Numbers DEF Connected
<1>2. seq' \in Nat /\ owed' \in SUBSET Deliveries
  BY <1>1, AnnounceTyped DEF HandshakeFails
<1>3. PICK k \in 0 .. Len(slot[s].pending) :
        wire' = [wire EXCEPT ![s] = wire[s] \o SubSeq(Handshake(s), 1, k)]
  BY DEF HandshakeFails
<1>4. Handshake(s) \in Seq(Envelopes) /\ Len(Handshake(s)) = Len(slot[s].pending) + 1
      /\ Len(slot[s].pending) \in Nat
  BY HandshakeIsTyped DEF HandshakeFails
<1>5. SubSeq(Handshake(s), 1, k) \in Seq(Envelopes)
  <2>1. \A i \in 1 .. k : Handshake(s)[i] \in Envelopes
    BY <1>3, <1>4
  <2>2. k \in Nat
    BY <1>3, <1>4
  <2> QED BY <1>4, <2>1, <2>2, SubSeqProperties
<1>6. wire[s] \o SubSeq(Handshake(s), 1, k) \in Seq(Envelopes)
  BY <1>5, TypedParts, ConcatProperties
<1>7. wire' \in [Slots -> Seq(Envelopes)]
  BY <1>3, <1>6, TypedParts
<1> QED BY <1>2, <1>7, TimerTyped, Disturbed, ClosingTyped DEF HandshakeFails

\* The read fails, or the deadline passes.
LEMMA SnapshotEndsTyped ==
  ASSUME LiveTypeOK, AuthorityTypeOK', NEW s \in Slots,
         SnapshotFails(s) \/ SnapshotTimesOut(s)
  PROVE  LiveTypeOK'
<1>1. CASE SnapshotFails(s)
  <2>1. /\ {} \in SUBSET owed /\ Connected \ {s} \in SUBSET Slots /\ 0 \in 0 .. MaxFacts
    BY Numbers DEF Connected
  <2>2. seq' \in Nat /\ owed' \in SUBSET Deliveries
    BY <1>1, <2>1, AnnounceTyped DEF SnapshotFails
  <2> QED BY <1>1, <2>2, TypedParts, TimerTyped, Disturbed, ClosingTyped DEF SnapshotFails
<1>2. CASE SnapshotTimesOut(s)
  BY <1>2, TypedParts, TimerTyped, ClosingTyped DEF SnapshotTimesOut, countVars
<1> QED BY <1>1, <1>2

\* A read without its client ends.
LEMMA OrphanEndsTyped ==
  ASSUME LiveTypeOK, AuthorityTypeOK', OrphanEnds
  PROVE  LiveTypeOK'
<1>1. Handshaking' = Handshaking
  BY SlotsSame DEF OrphanEnds
<1>2. orphans' \in Nat /\ InFlightSnapshots' <= MaxClients
  BY <1>1, TypedParts, HandshakingCount, Numbers DEF OrphanEnds, InFlightSnapshots
<1>3. slot' = slot
  BY DEF OrphanEnds
<1> QED BY <1>2, <1>3, SlotsSame, TypedParts, TypedFrom DEF OrphanEnds, countVars

\* A mutation is announced.
LEMMA PublishTyped ==
  ASSUME LiveTypeOK, AuthorityTypeOK', Publish
  PROVE  LiveTypeOK'
<1>1. /\ {} \in SUBSET owed /\ Connected \in SUBSET Slots
      /\ facts + 1 \in 0 .. MaxFacts
  BY TypedParts, Numbers DEF Connected, Publish
<1>2. seq' \in Nat /\ owed' \in SUBSET Deliveries
  BY <1>1, AnnounceTyped DEF Publish
<1>3. slot' = slot /\ orphans' = orphans
  BY DEF Publish
<1>4. orphans' \in Nat /\ InFlightSnapshots' <= MaxClients
  BY <1>3, SlotsSame, ReadsSame
<1> QED BY <1>1, <1>2, <1>3, <1>4, SlotsSame, TypedParts, TypedFrom DEF Publish

\* What a revalidation leaves.
LEMMA RevalidateCloses ==
  ASSUME LiveTypeOK, Revalidate
  PROVE  /\ slot' \in [Slots -> Clients] /\ \A t \in Slots : SlotTypeOK(slot[t])'
         /\ \A t \in Slots : slot'[t] = slot[t]
               \/ /\ t \in Connected /\ slot'[t].phase = "closing"
                  /\ slot'[t].who = slot[t].who
         /\ LET out == {s \in Connected : ~Entitled(s)}
            IN Handshaking' = Handshaking \ out
<1> DEFINE out == {s \in Connected : ~Entitled(s)}
<1>1. slot' = [s \in Slots |-> IF s \in out THEN Closed(slot[s]) ELSE slot[s]]
  BY DEF Revalidate, Closed
<1>2. \A t \in Slots : slot'[t] = (IF t \in out THEN Closed(slot[t]) ELSE slot[t])
  BY <1>1
<1>3. \A t \in Slots : slot'[t] \in Clients /\ SlotTypeOK(slot'[t])
                       /\ slot'[t].who = slot[t].who
                       /\ (t \in out => slot'[t].phase = "closing")
                       /\ (t \notin out => slot'[t] = slot[t])
  <2>1. SUFFICES ASSUME NEW t \in Slots
                 PROVE  slot'[t] \in Clients /\ SlotTypeOK(slot'[t])
                        /\ slot'[t].who = slot[t].who
                        /\ (t \in out => slot'[t].phase = "closing")
                        /\ (t \notin out => slot'[t] = slot[t])
    OBVIOUS
  <2>2. slot[t] \in Clients /\ SlotTypeOK(slot[t])
    BY TypedParts
  <2> HIDE DEF out
  <2> QED BY <1>2, <2>2, ClosedIs
<1>4. \A t \in Slots : SlotTypeOK(slot[t])'
  BY <1>3 DEF SlotTypeOK, FreeSlot, NotRead
<1>5. slot' \in [Slots -> Clients]
  <2> HIDE DEF out
  <2> QED BY <1>1, <1>3
<1>6. Handshaking' = Handshaking \ out
  <2> HIDE DEF out
  <2> QED BY <1>3 DEF Handshaking
<1> QED BY <1>3, <1>4, <1>5, <1>6

\* The clients that are not entitled any more are closed.
LEMMA RevalidateTyped ==
  ASSUME LiveTypeOK, AuthorityTypeOK', Revalidate
  PROVE  LiveTypeOK'
<1> DEFINE out == {s \in Connected : ~Entitled(s)}
<1>1. out \in SUBSET Slots /\ Handshaking' = Handshaking \ out
  BY RevalidateCloses DEF Connected
<1>2. orphans' = orphans + Cardinality(out \cap Handshaking)
  BY DEF Revalidate
<1> HIDE DEF out
<1>3. Cardinality(out \cap Handshaking) \in Nat
  <2>1. out \cap Handshaking \subseteq Handshaking
    OBVIOUS
  <2> QED BY <2>1, HandshakingCount
<1>4. orphans' \in Nat /\ InFlightSnapshots' <= MaxClients
  <2> DEFINE k == Cardinality(out \cap Handshaking)
  <2>1. k \in Nat /\ k <= Cardinality(out \cap Handshaking) /\ orphans' = orphans + k
    BY <1>2, <1>3
  <2> HIDE DEF k
  <2> QED BY <1>1, <2>1, ReadsBounded
<1> QED BY <1>4, RevalidateCloses, TimerTyped, TypedParts, TypedFrom DEF Revalidate, countVars

\* A slot is freed.
LEMMA FreedTyped ==
  ASSUME LiveTypeOK, AuthorityTypeOK', Taken, NEW s \in Slots, slot[s].phase # "free",
         Freed(s), UNCHANGED <<up, facts>>, disturbances' \in 0 .. MaxDisturbances
  PROVE  LiveTypeOK'
<1>1. wire' \in [Slots -> Seq(Envelopes)] /\ timer' \in BOOLEAN
  BY TypedParts, TimerTyped, EmptyFlow DEF Freed, Free
<1>2. web' \in [Viewers -> Browsers]
  <2>1. slot[s].who \in Viewers /\ web[slot[s].who] \in Browsers
    BY TypedParts DEF Taken
  <2>2. CASE Left(s)
    BY <2>2, TypedParts DEF Freed
  <2>3. CASE ~Left(s)
    BY <2>1, <2>3, RescheduledIs, BrowserBecomes DEF Freed
  <2> QED BY <2>2, <2>3
<1>3. slot' = [slot EXCEPT ![s] = FreeSlot] /\ Orphan(s) /\ UNCHANGED <<seq, owed>>
  BY DEF Freed, Free
<1> QED BY <1>1, <1>2, <1>3, FreeIs, RecordTyped

\* A transport has closed, or was lost.
LEMMA TransportTyped ==
  ASSUME LiveTypeOK, AuthorityTypeOK', Taken, NEW s \in Slots,
         TransportClosed(s) \/ TransportLost(s)
  PROVE  LiveTypeOK'
BY TypedParts, Disturbed, FreedTyped DEF TransportClosed, TransportLost, countVars

\* A browser session runs out.
LEMMA SessionLapsesTyped ==
  ASSUME LiveTypeOK, AuthorityTypeOK', NEW s \in Slots, SessionLapses(s)
  PROVE  LiveTypeOK'
<1> DEFINE c == [slot[s] EXCEPT !.secret = "lapsed"]
<1>1. slot[s] \in Clients /\ SlotTypeOK(slot[s]) /\ slot[s].phase # "free"
  BY TypedParts DEF SessionLapses
<1>2. /\ c \in Clients /\ c.phase = slot[s].phase /\ c.pending = slot[s].pending
      /\ c.snap = slot[s].snap
  BY <1>1 DEF Clients
<1>3. slot' = [slot EXCEPT ![s] = c]
  BY DEF SessionLapses
<1> HIDE DEF c
<1>4. SlotTypeOK(c)
  <2>1. c # FreeSlot
    BY <1>1, <1>2, FreeIs
  <2> QED BY <1>1, <1>2, <2>1 DEF SlotTypeOK
<1>5. disturbances' \in 0 .. MaxDisturbances
  BY Disturbed DEF SessionLapses
<1> QED BY <1>1, <1>2, <1>3, <1>4, <1>5, TypedParts, RecordTyped DEF SessionLapses

\* The daemon starts, or starts again, or the registry is written.
LEMMA DaemonTyped ==
  ASSUME LiveTypeOK, AuthorityTypeOK', DaemonStart \/ DaemonRestart \/ RegistryWrites
  PROVE  LiveTypeOK'
<1>1. CASE DaemonStart
  BY <1>1, TypedParts, QuietTyped DEF DaemonStart, serverVars
<1>2. CASE RegistryWrites
  <2>1. disturbances' \in 0 .. MaxDisturbances
    BY <1>2, Disturbed DEF RegistryWrites
  <2> QED BY <1>2, <2>1, TypedParts, QuietTyped DEF RegistryWrites, serverVars
<1>3. CASE DaemonRestart
  <2>1. \A t \in Slots : slot'[t] = FreeSlot
    BY <1>3 DEF DaemonRestart
  <2>2. slot' \in [Slots -> Clients]
    BY <1>3, FreeIs DEF DaemonRestart
  <2>3. \A t \in Slots : SlotTypeOK(slot[t])'
    BY <2>1, FreeIs DEF SlotTypeOK, FreeSlot, NotRead
  <2>4. Handshaking' = {} /\ Handshaking' = Handshaking \ Slots
    BY <2>1, FreeIs DEF Handshaking
  <2>5. orphans' \in Nat /\ InFlightSnapshots' <= MaxClients
    BY <1>3, <2>4, FS_EmptySet, Numbers DEF DaemonRestart, InFlightSnapshots
  <2>6. web' \in [Viewers -> Browsers]
    <3>1. \A w \in Viewers : Rescheduled(web[w]) \in Browsers /\ web[w] \in Browsers
      BY TypedParts, RescheduledIs
    <3> QED BY <1>3, <3>1 DEF DaemonRestart
  <2>7. wire' \in [Slots -> Seq(Envelopes)] /\ seq' \in Nat /\ timer' \in BOOLEAN
    BY <1>3, EmptyFlow DEF DaemonRestart
  <2>8. disturbances' \in 0 .. MaxDisturbances
    BY <1>3, Disturbed DEF DaemonRestart
  <2> QED BY <1>3, <2>2, <2>3, <2>5, <2>6, <2>7, <2>8, TypedParts, TypedFrom DEF DaemonRestart
<1> QED BY <1>1, <1>2, <1>3

-----------------------------------------------------------------------------
(* What a step has to show. *)

\* What the invariants say of one slot.
LEMMA SlotFacts ==
  ASSUME LiveTypeOK, SlotsOK, NEW s \in Slots
  PROVE  /\ slot[s] \in Clients /\ SlotTypeOK(slot[s]) /\ wire[s] \in Seq(Envelopes)
         /\ slot[s].phase # "free" => slot[s].who \in Viewers /\ Browser(s) \in Browsers
         /\ slot[s].phase \in {"free", "reserved", "handshaking"} => wire[s] = <<>>
         /\ slot[s].phase \in {"reserved", "handshaking"} /\ ~Left(s) => Browser(s).cursor = 0
         /\ slot[s].phase \in {"handshaking", "ready"} => slot[s].cursor \in 1 .. seq
BY TypedParts DEF SlotsOK, Browser

\* Slots and browsers still point at each other when no slot changes hands.
LEMMA SlotsKeep ==
  ASSUME LiveTypeOK, SlotsOK, UNCHANGED web,
         \A t \in Slots :
           /\ slot'[t].who = slot[t].who
           /\ slot'[t].phase = "free" <=> slot[t].phase = "free"
           /\ slot'[t].phase \in {"reserved", "handshaking"} =>
                wire'[t] = wire[t] /\ slot[t].phase \in {"reserved", "handshaking"}
           /\ slot'[t].phase = "free" => wire'[t] = wire[t]
           /\ slot'[t].phase \in {"handshaking", "ready"} => slot'[t].cursor \in 1 .. seq'
  PROVE  SlotsOK'
<1>1. ASSUME NEW w \in Viewers
      PROVE  /\ web'[w].slot = 0 <=> web'[w].state # "open"
             /\ web'[w].slot # 0 => /\ slot'[web'[w].slot].phase # "free"
                                    /\ slot'[web'[w].slot].who = w
  <2>1. web[w].slot # 0 => web[w].slot \in Slots
    <3>1. web[w].slot \in 0 .. MaxClients
      BY TypedParts, BrowserFields
    <3> QED BY <3>1, Numbers DEF Slots
  <2> QED BY <2>1 DEF SlotsOK
<1>2. ASSUME NEW s \in Slots
      PROVE  /\ slot'[s].phase # "free" => slot'[s].who \in Viewers
             /\ slot'[s].phase \in {"free", "reserved", "handshaking"} => wire'[s] = <<>>
             /\ slot'[s].phase \in {"reserved", "handshaking"}
                  /\ web'[slot'[s].who].slot = s => web'[slot'[s].who].cursor = 0
             /\ slot'[s].phase \in {"handshaking", "ready"} => slot'[s].cursor \in 1 .. seq'
  BY DEF SlotsOK, Left, Browser
<1> QED BY <1>1, <1>2 DEF SlotsOK, Left, Browser

\* One slot is closed.
LEMMA SlotsKeepClosing ==
  ASSUME LiveTypeOK, SlotsOK, UNCHANGED web, NEW s \in Slots, slot[s].phase # "free",
         Close(s), \A t \in Slots : t # s => wire'[t] = wire[t],
         seq' \in Nat, seq' >= seq
  PROVE  SlotsOK'
<1>1. ASSUME NEW t \in Slots
      PROVE  /\ slot'[t].who = slot[t].who
             /\ slot'[t].phase = "free" <=> slot[t].phase = "free"
             /\ slot'[t].phase \in {"reserved", "handshaking"} =>
                  wire'[t] = wire[t] /\ slot[t].phase \in {"reserved", "handshaking"}
             /\ slot'[t].phase = "free" => wire'[t] = wire[t]
             /\ slot'[t].phase \in {"handshaking", "ready"} => slot'[t].cursor \in 1 .. seq'
  <2>1. CASE t = s
    BY <2>1, Closes
  <2>2. CASE t # s
    <3>1. slot'[t] = slot[t] /\ wire'[t] = wire[t]
      BY <2>2, Closes
    <3>2. slot[t].phase \in {"handshaking", "ready"} => slot[t].cursor \in 1 .. seq'
      BY SlotFacts, TypedParts
    <3> QED BY <3>1, <3>2
  <2> QED BY <2>1, <2>2
<1> QED BY <1>1, SlotsKeep

\* No slot changes.
LEMMA SlotsKeepSame ==
  ASSUME LiveTypeOK, SlotsOK, UNCHANGED <<web, slot>>,
         \A t \in Slots : slot[t].phase \in {"free", "reserved", "handshaking"} =>
                            wire'[t] = wire[t],
         seq' \in Nat, seq' >= seq
  PROVE  SlotsOK'
<1>1. ASSUME NEW t \in Slots
      PROVE  slot[t].phase \in {"handshaking", "ready"} => slot[t].cursor \in 1 .. seq'
  BY SlotFacts, TypedParts
<1> QED BY <1>1, SlotsKeep

\* No broadcast is under way.
LEMMA OwedNothing ==
  ASSUME owed' = {}
  PROVE  OwedOK'
BY DEF OwedOK

\* Deliveries have been made.
LEMMA OwedLess ==
  ASSUME LiveTypeOK, OwedOK, owed' \subseteq owed, UNCHANGED <<seq, facts>>,
         \A t \in Slots : slot[t].phase \in {"handshaking", "ready", "closing"} =>
                            slot'[t].phase \in {"handshaking", "ready", "closing"}
  PROVE  OwedOK'
<1>1. \A d \in owed' : d \in owed /\ d.to \in Slots
  BY TypedParts DEF Deliveries
<1> QED BY <1>1 DEF OwedOK

\* What is owed after an announcement.
LEMMA AnnouncedOwed ==
  ASSUME LiveTypeOK, NEW clients, NEW k, NEW v, NEW rest, Announce(clients, k, v, rest),
         clients \subseteq Slots, k \in Kinds, v \in 0 .. MaxFacts, rest \subseteq owed
  PROVE  /\ \A d \in owed' : d \in rest \/ /\ d.to \in clients
                                           /\ d.what = Numbered(k, v)
         /\ \A t \in clients : [to |-> t, what |-> Numbered(k, v)] \in owed'
         /\ rest \subseteq owed'
         /\ clients # {} => seq' = seq + 1
         /\ clients = {} => seq' = seq
         /\ Numbered(k, v) \in Envelopes
         /\ Numbered(k, v).event = k /\ Numbered(k, v).seq = seq + 1
         /\ Numbered(k, v).fact = v
BY TypedParts DEF Kinds, Announce, Numbered, Envelope, Envelopes

\* What a new broadcast owes has the highest number.
LEMMA OwedMore ==
  ASSUME LiveTypeOK, OwedOK, NEW k \in Kinds, NEW v \in 0 .. MaxFacts,
         NEW rest \in SUBSET owed, NEW clients \in SUBSET Slots,
         Connected' = clients, Announce(clients, k, v, rest),
         k = "fact" => v = facts' /\ rest = {},
         k = "log" => facts' = facts,
         \A t \in Slots : slot[t].phase \in {"handshaking", "ready", "closing"} =>
                            slot'[t].phase \in {"handshaking", "ready", "closing"}
  PROVE  OwedOK'
<1> DEFINE e == Numbered(k, v)
<1>1. seq \in Nat /\ rest \in SUBSET Deliveries
  BY TypedParts
<1>2. /\ \A d \in owed' : d \in rest \/ (d.to \in clients /\ d.what = e)
      /\ clients # {} => seq' = seq + 1
      /\ clients = {} => seq' = seq
      /\ e.event = k /\ e.seq = seq + 1 /\ e.fact = v
  BY <1>1, AnnouncedOwed
<1> HIDE DEF e
<1>3. ASSUME NEW d \in rest
      PROVE  /\ slot'[d.to].phase \in {"handshaking", "ready", "closing"}
             /\ d.what.seq \in 1 .. seq /\ d.what.seq \in 1 .. seq'
             /\ d.what.event \in {"log", "fact"}
             /\ d.what.event = "fact" => d.what.fact = facts'
  <2>1. d.to \in Slots
    BY <1>1 DEF Deliveries
  <2>2. d.what.seq \in 1 .. seq
    BY DEF OwedOK
  <2>3. d.what.seq \in 1 .. seq'
    BY <1>1, <1>2, <2>2
  <2>4. facts' = facts
    BY DEF Kinds
  <2>5. d \in owed
    OBVIOUS
  <2>6. /\ slot[d.to].phase \in {"handshaking", "ready", "closing"}
        /\ d.what.event \in {"log", "fact"}
        /\ d.what.event = "fact" => d.what.fact = facts
    BY <2>5 DEF OwedOK
  <2> QED BY <2>1, <2>2, <2>3, <2>4, <2>6
<1>4. ASSUME NEW d \in owed', d \notin rest
      PROVE  /\ slot'[d.to].phase \in {"handshaking", "ready", "closing"}
             /\ d.what = e /\ d.what.seq \in 1 .. seq'
             /\ d.what.event \in {"log", "fact"}
             /\ d.what.event = "fact" => d.what.fact = facts'
  BY <1>1, <1>2, <1>4 DEF Connected, Kinds
<1>5. ASSUME NEW d \in owed', NEW o \in owed', d.what.seq = o.what.seq
      PROVE  d.what = o.what
  <2>1. CASE d \in rest /\ o \in rest
    BY <2>1, <1>5 DEF OwedOK
  <2>2. CASE d \notin rest /\ o \notin rest
    BY <2>2, <1>4
  <2>3. CASE ~(d \in rest <=> o \in rest)
    <3>1. seq + 1 \in 1 .. seq
      BY <2>3, <1>2, <1>3, <1>4, <1>5
    <3> QED BY <1>1, <3>1
  <2> QED BY <2>1, <2>2, <2>3
<1> QED BY <1>3, <1>4, <1>5 DEF OwedOK

\* A flow is a sequence of envelopes.
LEMMA FlowIsTyped ==
  ASSUME NEW c \in Clients, NEW sent \in Seq(Envelopes), NEW f \in 0 .. MaxFacts
  PROVE  Flow(c, sent, f) \in Seq(Envelopes)
<1>1. CASE c.phase = "handshaking"
  <2> DEFINE x == IF c.snap = NotRead THEN f ELSE c.snap
  <2>1. x \in 0 .. MaxFacts
    BY Numbers DEF Clients, NotRead
  <2>2. Envelope("snapshot", c.cursor, x) \in Envelopes
    BY <2>1 DEF Clients, Envelope, Envelopes
  <2> HIDE DEF x
  <2>3. <<Envelope("snapshot", c.cursor, x)>> \in Seq(Envelopes)
        /\ c.pending \in Seq(Envelopes)
    BY <2>2 DEF Clients
  <2>4. <<Envelope("snapshot", c.cursor, x)>> \o c.pending \in Seq(Envelopes)
    BY <2>3, ConcatProperties
  <2> QED BY <1>1, <2>4 DEF Flow, x
<1>2. CASE c.phase # "handshaking"
  BY <1>2 DEF Flow
<1> QED BY <1>1, <1>2

\* The flows that a step leaves alone, and those shown to be in order after it.
LEMMA FlowsKeep ==
  ASSUME LiveTypeOK, FlowsOK, UNCHANGED <<seq, facts>>,
         \A t \in Slots : t \in Connected' /\ ~Left(t)' =>
            \/ /\ t \in Connected /\ ~Left(t)
               /\ FlowOf(t)' = FlowOf(t) /\ Browser(t)' = Browser(t)
               /\ OwedTo(t)' = OwedTo(t)
            \/ FlowOK(Browser(t)', FlowOf(t)', seq', facts', OwedTo(t)')
  PROVE  FlowsOK'
<1>1. ASSUME NEW t \in Connected', ~Left(t)'
      PROVE  FlowOK(Browser(t)', FlowOf(t)', seq', facts', OwedTo(t)')
  <2>1. t \in Slots
    BY DEF Connected, Slots
  <2>2. CASE t \in Connected /\ ~Left(t)
    <3>1. FlowOK(Browser(t), FlowOf(t), seq, facts, OwedTo(t))
      BY <2>2 DEF FlowsOK
    <3> QED BY <1>1, <2>1, <3>1
  <2> QED BY <1>1, <2>1, <2>2
<1> QED BY <1>1 DEF FlowsOK, FlowOK, SnapshotFirst, StreamOK, InStep, Skips, Base, Continues, Shows

\* The flows that are owed an announcement.
LEMMA FlowsAnnounced ==
  ASSUME LiveTypeOK, LiveTypeOK', SlotsOK, FlowsOK,
         NEW k \in Kinds, NEW v \in 0 .. MaxFacts,
         NEW rest \in SUBSET owed, NEW clients \in SUBSET Slots,
         Connected' = clients, Announce(clients, k, v, rest),
         k = "log" => facts' = facts,
         \A t \in Slots : t \in Connected' /\ ~Left(t)' =>
            /\ t \in Connected /\ ~Left(t)
            /\ Browser(t)' = Browser(t)
            /\ Len(FlowOf(t)') = Len(FlowOf(t))
            /\ \A i \in 1 .. Len(FlowOf(t)) : /\ FlowOf(t)'[i].seq = FlowOf(t)[i].seq
                                              /\ FlowOf(t)'[i].event = FlowOf(t)[i].event
            /\ k = "log" => FlowOf(t)' = FlowOf(t)
            /\ \A d \in owed \ rest : d.to # t
  PROVE  FlowsOK'
<1> DEFINE e == Numbered(k, v)
<1>1. seq \in Nat
  BY TypedParts
<1>2. /\ \A d \in owed' : d \in rest \/ (d.to \in clients /\ d.what = e)
      /\ \A t \in clients : [to |-> t, what |-> e] \in owed'
      /\ rest \subseteq owed' /\ owed' \subseteq Deliveries
      /\ clients # {} => seq' = seq + 1
      /\ e \in Envelopes /\ e.event = k /\ e.seq = seq + 1
  <2>1. owed' \subseteq Deliveries
    BY DEF LiveTypeOK
  <2> QED BY <1>1, <2>1, AnnouncedOwed
<1> HIDE DEF e
<1>3. ASSUME NEW t \in Connected', ~Left(t)'
      PROVE  FlowOK(Browser(t)', FlowOf(t)', seq', facts', OwedTo(t)')
  <2> DEFINE d == [to |-> t, what |-> e]
  <2>1. t \in Slots /\ t \in Connected /\ ~Left(t) /\ Browser(t)' = Browser(t)
        /\ seq' = seq + 1
    BY <1>1, <1>2, <1>3
  <2>2. d \in Deliveries /\ d.to = t /\ d.what = e
    BY <1>2, <2>1 DEF Deliveries
  <2> HIDE DEF d
  <2>3. OwedTo(t)' = OwedTo(t) \cup {d}
    <3>1. \A x \in owed' : x.to = t => x \in OwedTo(t) \cup {d}
      <4>1. SUFFICES ASSUME NEW x \in owed', x.to = t PROVE x \in OwedTo(t) \cup {d}
        OBVIOUS
      <4>2. CASE x \in rest
        BY <4>1, <4>2 DEF OwedTo
      <4>3. CASE x.to \in clients /\ x.what = e
        <5>1. x \in Deliveries
          BY <1>2
        <5>2. x = [to |-> t, what |-> e]
          BY <4>1, <4>3, <5>1 DEF Deliveries
        <5> QED BY <5>2 DEF d
      <4> QED BY <4>2, <4>3, <1>2
    <3>2. \A x \in owed : x.to = t => x \in owed'
      BY <1>2, <1>3, <2>1
    <3>3. d \in owed'
      BY <1>2 DEF d
    <3> QED BY <2>2, <3>1, <3>2, <3>3 DEF OwedTo
  <2>4. FlowOK(Browser(t), FlowOf(t), seq, facts, OwedTo(t))
    BY <2>1 DEF FlowsOK
  <2>5. Browser(t) \in Browsers
    BY <2>1, SlotFacts DEF Connected
  <2>6. FlowOf(t) \in Seq(Envelopes) /\ FlowOf(t)' \in Seq(Envelopes)
    <3>1. slot[t] \in Clients /\ wire[t] \in Seq(Envelopes) /\ facts \in 0 .. MaxFacts
      BY <2>1, TypedParts
    <3>2. slot'[t] \in Clients /\ wire'[t] \in Seq(Envelopes) /\ facts' \in 0 .. MaxFacts
      BY <2>1 DEF LiveTypeOK
    <3> QED BY <3>1, <3>2, FlowIsTyped DEF FlowOf
  <2>7. OwedTo(t) \in SUBSET Deliveries
    BY TypedParts DEF OwedTo
  <2>8. d.what.event = "fact" \/ (FlowOf(t)' = FlowOf(t) /\ facts = facts')
    BY <1>2, <1>3, <2>1, <2>2 DEF Kinds
  <2>9. Len(FlowOf(t)') = Len(FlowOf(t))
        /\ \A i \in 1 .. Len(FlowOf(t)) : /\ FlowOf(t)'[i].seq = FlowOf(t)[i].seq
                                          /\ FlowOf(t)'[i].event = FlowOf(t)[i].event
    BY <1>3, <2>1
  <2>10. d.what.seq = seq + 1
    BY <1>2, <2>2
  <2>11. FlowOK(Browser(t), FlowOf(t)', seq + 1, facts', OwedTo(t) \cup {d})
    BY <1>1, <2>2, <2>4, <2>5, <2>6, <2>7, <2>8, <2>9, <2>10, FlowAnnounced
  <2> QED BY <2>1, <2>3, <2>11
<1> QED BY <1>3 DEF FlowsOK, FlowOK, SnapshotFirst, StreamOK, InStep, Skips, Base, Continues, Shows

-----------------------------------------------------------------------------
(* The steps of the server. *)

\* A slot that nothing changes keeps its flow and its browser.
LEMMA SlotSame ==
  ASSUME NEW t, slot'[t] = slot[t], wire'[t] = wire[t], UNCHANGED facts,
         web'[slot[t].who] = web[slot[t].who]
  PROVE  /\ FlowOf(t)' = FlowOf(t) /\ Browser(t)' = Browser(t)
         /\ Left(t)' <=> Left(t)
         /\ t \in Connected' <=> t \in Connected
BY DEF FlowOf, Flow, Browser, Left, Connected, Envelope, NotRead, Slots

\* A client is closed, and no one is told.
LEMMA ClosingKeeps ==
  ASSUME LiveTypeOK, LiveOrder, NEW s \in Slots, slot[s].phase # "free", Close(s),
         \A t \in Slots : t # s => wire'[t] = wire[t],
         UNCHANGED <<web, facts, seq>>, owed' \subseteq owed,
         \A d \in owed \ owed' : d.to = s
  PROVE  LiveOrder'
<1>1. SlotsOK /\ OwedOK /\ FlowsOK /\ seq \in Nat
  BY TypedParts DEF LiveOrder
<1>2. SlotsOK'
  BY <1>1, SlotsKeepClosing
<1>3. OwedOK'
  BY <1>1, Closes, OwedLess
<1>4. ASSUME NEW t \in Slots, t \in Connected', ~Left(t)'
      PROVE  /\ t \in Connected /\ ~Left(t)
             /\ FlowOf(t)' = FlowOf(t) /\ Browser(t)' = Browser(t)
             /\ OwedTo(t)' = OwedTo(t)
  <2>1. t # s /\ slot'[t] = slot[t] /\ wire'[t] = wire[t]
    BY <1>4, Closes
  <2>2. OwedTo(t)' = OwedTo(t)
    BY <2>1 DEF OwedTo
  <2> QED BY <1>4, <2>1, <2>2, SlotSame
<1>5. FlowsOK'
  BY <1>1, <1>4, FlowsKeep
<1> QED BY <1>2, <1>3, <1>5 DEF LiveOrder

\* A client is closed, and a log line tells the others.
LEMMA ClosingReported ==
  ASSUME LiveTypeOK, LiveTypeOK', LiveOrder, NEW s \in Slots, slot[s].phase # "free",
         Close(s), \A t \in Slots : t # s => wire'[t] = wire[t],
         UNCHANGED <<web, facts>>, NEW rest \in SUBSET owed,
         \A d \in owed \ rest : d.to = s,
         Announce(Connected \ {s}, "log", 0, rest)
  PROVE  LiveOrder'
<1>1. SlotsOK /\ OwedOK /\ FlowsOK /\ seq \in Nat
      /\ 0 \in 0 .. MaxFacts /\ "log" \in Kinds /\ "log" # "fact"
      /\ Connected \ {s} \in SUBSET Slots
  BY TypedParts, Numbers DEF LiveOrder, Kinds, Connected
<1>2. Connected' = Connected \ {s}
  BY Closes
<1>3. SlotsOK'
  <2>1. seq' \in Nat /\ seq' >= seq
    BY <1>1 DEF Announce
  <2> QED BY <1>1, <2>1, SlotsKeepClosing
<1>4. OwedOK'
  <2>1. \A t \in Slots : slot[t].phase \in {"handshaking", "ready", "closing"} =>
                           slot'[t].phase \in {"handshaking", "ready", "closing"}
    BY Closes
  <2> QED BY <1>1, <1>2, <2>1, OwedMore
<1>5. ASSUME NEW t \in Slots, t \in Connected', ~Left(t)'
      PROVE  /\ t \in Connected /\ ~Left(t)
             /\ FlowOf(t)' = FlowOf(t) /\ Browser(t)' = Browser(t)
             /\ \A d \in owed \ rest : d.to # t
  <2>1. t # s /\ slot'[t] = slot[t] /\ wire'[t] = wire[t]
    BY <1>5, Closes
  <2> QED BY <1>5, <2>1, SlotSame
<1>6. FlowsOK'
  <2> HIDE DEF FlowOf
  <2> QED BY <1>1, <1>2, <1>5, FlowsAnnounced
<1> QED BY <1>3, <1>4, <1>6 DEF LiveOrder

\* The delivery of the highest number owed goes to the end of a flow: it
\* continues the flow when nothing else is owed to it, and leaves a gap that
\* will be seen otherwise.
LEMMA FlowDelivered ==
  ASSUME NEW v \in Browsers, NEW q \in Seq(Envelopes), NEW n \in Nat, NEW f,
         NEW o \in SUBSET Deliveries, NEW d \in o,
         \A x \in o : x.what.seq <= d.what.seq,
         \A x \in o : x.what.seq = d.what.seq => x = d,
         d.what.seq \in 1 .. n, d.what.event \in {"log", "fact"},
         d.what.event = "fact" => d.what.fact = f,
         FlowOK(v, q, n, f, o)
  PROVE  FlowOK(v, Append(q, d.what), n, f, o \ {d})
<1>1. d.what \in Envelopes /\ d.what.event # "snapshot" /\ SnapshotFirst(q)
  BY DEF Deliveries, FlowOK
<1>2. StreamOK(v, Append(q, d.what), n, f, o \ {d})
  BY <1>1, StreamDelivered DEF FlowOK
<1>3. CASE q = <<>>
  <2>1. Len(Append(q, d.what)) = 1 /\ Append(q, d.what)[1] = d.what
    BY <1>1, <1>3, AppendedFlow, EmptyFlow
  <2>2. SnapshotFirst(Append(q, d.what))
    BY <2>1 DEF SnapshotFirst
  <2> QED BY <1>1, <1>2, <2>1, <2>2 DEF FlowOK
<1>4. CASE q # <<>>
  BY <1>1, <1>2, <1>4, FlowGrows DEF FlowOK
<1> QED BY <1>3, <1>4

\* To keep an envelope is to lengthen the flow of the client that keeps it.
LEMMA AppendToConcat ==
  ASSUME NEW x \in Envelopes, NEW p \in Seq(Envelopes), NEW e \in Envelopes
  PROVE  <<x>> \o Append(p, e) = Append(<<x>> \o p, e)
<1> DEFINE l == <<x>> \o Append(p, e)
           r == Append(<<x>> \o p, e)
<1>1. <<x>> \in Seq(Envelopes) /\ Len(<<x>>) = 1 /\ Append(p, e) \in Seq(Envelopes)
      /\ Len(p) \in Nat /\ Len(Append(p, e)) = Len(p) + 1
      /\ <<x>> \o p \in Seq(Envelopes) /\ Len(<<x>> \o p) = Len(p) + 1
  BY AppendedFlow, ConcatProperties
<1>2. l \in Seq(Envelopes) /\ r \in Seq(Envelopes)
      /\ Len(l) = Len(p) + 2 /\ Len(r) = Len(p) + 2
  BY <1>1, AppendedFlow, ConcatProperties
<1>3. ASSUME NEW i \in 1 .. Len(p) + 2 PROVE l[i] = r[i]
  <2>1. CASE i = 1
    BY <1>1, <2>1, AppendedFlow, ConcatProperties
  <2>2. CASE i \in 2 .. Len(p) + 1
    <3>1. l[i] = Append(p, e)[i - 1] /\ Append(p, e)[i - 1] = p[i - 1]
      BY <1>1, <2>2, AppendedFlow, ConcatProperties
    <3>2. r[i] = (<<x>> \o p)[i] /\ (<<x>> \o p)[i] = p[i - 1]
      BY <1>1, <2>2, AppendedFlow, ConcatProperties
    <3> QED BY <3>1, <3>2
  <2>3. CASE i = Len(p) + 2
    <3>1. l[i] = Append(p, e)[Len(p) + 1] /\ Append(p, e)[Len(p) + 1] = e
      BY <1>1, <2>3, AppendedFlow, ConcatProperties
    <3>2. r[i] = e
      BY <1>1, <2>3, AppendedFlow
    <3> QED BY <3>1, <3>2
  <2> QED BY <1>1, <2>1, <2>2, <2>3
<1> HIDE DEF l, r
<1>4. l = r
  BY <1>2, <1>3, SeqEqual
<1> QED BY <1>4 DEF l, r

\* The delivery d is made to s: its flow is longer by it.
LEMMA DeliveredKeeps ==
  ASSUME LiveTypeOK, LiveOrder, SlotsOK', NEW d \in owed,
         \A o \in owed : o.what.seq <= d.what.seq,
         owed' = owed \ {d}, UNCHANGED <<web, seq, facts>>,
         slot[d.to].phase \in {"handshaking", "ready"},
         slot'[d.to].phase = slot[d.to].phase, slot'[d.to].who = slot[d.to].who,
         \A t \in Slots : t # d.to => slot'[t] = slot[t] /\ wire'[t] = wire[t],
         FlowOf(d.to)' = Append(FlowOf(d.to), d.what)
  PROVE  LiveOrder'
<1> DEFINE s == d.to
<1>1. SlotsOK /\ OwedOK /\ FlowsOK /\ seq \in Nat /\ s \in Slots /\ owed \in SUBSET Deliveries
  BY TypedParts DEF LiveOrder, Deliveries
<1>2. OwedOK'
  <2>1. \A t \in Slots : slot'[t].phase = slot[t].phase
    OBVIOUS
  <2> QED BY <1>1, <2>1, OwedLess
<1>3. ASSUME NEW t \in Slots, t # s, t \in Connected', ~Left(t)'
      PROVE  /\ t \in Connected /\ ~Left(t)
             /\ FlowOf(t)' = FlowOf(t) /\ Browser(t)' = Browser(t)
             /\ OwedTo(t)' = OwedTo(t)
  <2>1. OwedTo(t)' = OwedTo(t)
    BY <1>3 DEF OwedTo
  <2> QED BY <1>3, <2>1, SlotSame
<1>4. ASSUME s \in Connected', ~Left(s)'
      PROVE  FlowOK(Browser(s)', FlowOf(s)', seq', facts', OwedTo(s)')
  <2>1. s \in Connected /\ ~Left(s) /\ Browser(s)' = Browser(s)
    BY <1>1, <1>4 DEF Connected, Left, Browser
  <2>2. FlowOK(Browser(s), FlowOf(s), seq, facts, OwedTo(s))
    BY <1>1, <2>1 DEF FlowsOK
  <2>3. Browser(s) \in Browsers
    BY <1>1, <2>1, SlotFacts DEF Connected
  <2>4. FlowOf(s) \in Seq(Envelopes)
    <3>1. slot[s] \in Clients /\ wire[s] \in Seq(Envelopes) /\ facts \in 0 .. MaxFacts
      BY <1>1, TypedParts
    <3> QED BY <3>1, FlowIsTyped DEF FlowOf
  <2>5. OwedTo(s) \in SUBSET Deliveries /\ d \in OwedTo(s) /\ OwedTo(s)' = OwedTo(s) \ {d}
    BY <1>1 DEF OwedTo
  <2>6. \A x \in OwedTo(s) : x.what.seq <= d.what.seq
    BY DEF OwedTo
  <2>7. \A x \in OwedTo(s) : x.what.seq = d.what.seq => x = d
    <3>1. ASSUME NEW x \in OwedTo(s), x.what.seq = d.what.seq PROVE x = d
      <4>1. x.to = d.to /\ x.what = d.what
        BY <1>1, <3>1 DEF OwedTo, OwedOK
      <4> QED BY <1>1, <2>5, <4>1 DEF Deliveries
    <3> QED BY <3>1
  <2>8. /\ d.what.seq \in 1 .. seq /\ d.what.event \in {"log", "fact"}
        /\ d.what.event = "fact" => d.what.fact = facts
    BY <1>1 DEF OwedOK
  <2>9. FlowOK(Browser(s), Append(FlowOf(s), d.what), seq, facts, OwedTo(s) \ {d})
    BY <1>1, <2>2, <2>3, <2>4, <2>5, <2>6, <2>7, <2>8, FlowDelivered
  <2> QED BY <2>1, <2>5, <2>9
<1>5. FlowsOK'
  BY <1>1, <1>3, <1>4, FlowsKeep
<1> QED BY <1>2, <1>5 DEF LiveOrder

\* The parts of the order, to cite without expanding it.
LEMMA OrderParts ==
  ASSUME LiveOrder
  PROVE  SlotsOK /\ OwedOK /\ FlowsOK
BY DEF LiveOrder

\* A client that waits for its snapshot keeps an event.
LEMMA KeepKeeps ==
  ASSUME LiveTypeOK, LiveOrder, NEW d \in owed, Keep(d),
         \A o \in owed : o.what.seq <= d.what.seq, UNCHANGED <<web, facts>>
  PROVE  LiveOrder'
<1> DEFINE s == d.to
           c == [slot[s] EXCEPT !.pending = Append(slot[s].pending, d.what)]
<1>1. s \in Slots /\ d.what \in Envelopes /\ slot[s] \in Clients
      /\ slot[s].phase = "handshaking" /\ UNCHANGED <<wire, seq>>
  BY TypedParts DEF Deliveries, Keep
<1>2. slot'[s] = c /\ \A t \in Slots : t # s => slot'[t] = slot[t]
  BY <1>1, TypedParts DEF Keep
<1>3. /\ c.phase = "handshaking" /\ c.who = slot[s].who /\ c.cursor = slot[s].cursor
      /\ c.snap = slot[s].snap /\ c.pending = Append(slot[s].pending, d.what)
  BY <1>1 DEF Clients
<1>4. FlowOf(s)' = Append(FlowOf(s), d.what)
  <2> DEFINE x == IF slot[s].snap = NotRead THEN facts ELSE slot[s].snap
             e == Envelope("snapshot", slot[s].cursor, x)
  <2>1. x \in 0 .. MaxFacts
    BY <1>1, TypedParts, Numbers DEF Clients, NotRead
  <2>2. e \in Envelopes /\ slot[s].pending \in Seq(Envelopes)
    BY <1>1, <2>1 DEF Clients, Envelope, Envelopes
  <2>3. FlowOf(s) = <<e>> \o slot[s].pending
    BY <1>1 DEF FlowOf, Flow
  <2>4. FlowOf(s)' = <<e>> \o Append(slot[s].pending, d.what)
    <3>1. Flow(c, wire'[s], facts) = <<e>> \o Append(slot[s].pending, d.what)
      <4> HIDE DEF c
      <4> QED BY <1>3 DEF Flow
    <3> HIDE DEF c, e
    <3> QED BY <1>2, <3>1 DEF FlowOf
  <2> HIDE DEF e
  <2> QED BY <1>1, <2>2, <2>3, <2>4, AppendToConcat
<1> HIDE DEF c
<1>5. SlotsOK'
  <2>1. ASSUME NEW t \in Slots
        PROVE  /\ slot'[t].who = slot[t].who
               /\ slot'[t].phase = "free" <=> slot[t].phase = "free"
               /\ slot'[t].phase \in {"reserved", "handshaking"} =>
                    wire'[t] = wire[t] /\ slot[t].phase \in {"reserved", "handshaking"}
               /\ slot'[t].phase = "free" => wire'[t] = wire[t]
               /\ slot'[t].phase \in {"handshaking", "ready"} => slot'[t].cursor \in 1 .. seq'
    <3>1. slot'[t].phase = slot[t].phase /\ slot'[t].who = slot[t].who
          /\ slot'[t].cursor = slot[t].cursor
      BY <1>1, <1>2, <1>3
    <3> QED BY <1>1, <3>1, SlotFacts, OrderParts
  <2> QED BY <2>1, SlotsKeep, OrderParts
<1> QED BY <1>1, <1>2, <1>3, <1>4, <1>5, DeliveredKeeps DEF Keep

\* An event is sent, or closes a client that is not entitled any more.
LEMMA SendKeeps ==
  ASSUME LiveTypeOK, LiveOrder, NEW d \in owed, Send(d),
         \A o \in owed : o.what.seq <= d.what.seq, UNCHANGED <<web, facts>>
  PROVE  LiveOrder'
<1> DEFINE s == d.to
<1>1. s \in Slots /\ slot[s].phase = "ready" /\ UNCHANGED seq /\ owed' = owed \ {d}
      /\ seq \in Nat
  BY TypedParts DEF Deliveries, Send
<1>2. CASE Entitled(s)
  <2>1. /\ wire'[s] = Append(wire[s], d.what)
        /\ \A t \in Slots : t # s => wire'[t] = wire[t]
        /\ slot' = slot
    BY <1>1, <1>2, TypedParts DEF Send
  <2>2. FlowOf(s)' = Append(FlowOf(s), d.what)
    BY <1>1, <2>1 DEF FlowOf, Flow
  <2>3. SlotsOK'
    BY <1>1, <2>1, SlotsKeepSame, OrderParts
  <2> QED BY <1>1, <2>1, <2>2, <2>3, DeliveredKeeps
<1>3. CASE ~Entitled(s)
  <2>1. Close(s) /\ wire' = wire
    BY <1>3 DEF Send
  <2>2. \A o \in owed \ owed' : o.to = s
    BY <1>1
  <2> QED BY <1>1, <2>1, <2>2, ClosingKeeps
<1> QED BY <1>2, <1>3

\* One delivery of a broadcast, whatever becomes of it.
LEMMA DeliverKeeps ==
  ASSUME LiveTypeOK, LiveTypeOK', LiveOrder, Deliver
  PROVE  LiveOrder'
<1>1. PICK d \in owed :
        /\ \A o \in owed : o.what.seq <= d.what.seq
        /\ Keep(d) \/ Overflow(d) \/ Send(d) \/ SendFails(d) \/ Skip(d)
  BY DEF Deliver
<1>2. d.to \in Slots /\ UNCHANGED <<web, facts>>
  BY TypedParts DEF Deliveries, Deliver
<1>3. CASE Keep(d)
  BY <1>1, <1>2, <1>3, KeepKeeps
<1>4. CASE Send(d)
  BY <1>1, <1>2, <1>4, SendKeeps
<1>5. CASE Overflow(d) \/ SendFails(d)
  <2>1. CloseAndReport(d) /\ slot[d.to].phase # "free"
    BY <1>5 DEF Overflow, SendFails
  <2>2. \A o \in owed \ (owed \ {d}) : o.to = d.to
    OBVIOUS
  <2>3. owed \ {d} \in SUBSET owed
    OBVIOUS
  <2> QED BY <1>2, <2>1, <2>2, <2>3, ClosingReported DEF CloseAndReport
<1>6. CASE Skip(d)
  <2>1. UNCHANGED <<slot, wire, seq>> /\ owed' = owed \ {d} /\ d.to \notin Connected
        /\ seq \in Nat
    BY <1>6, TypedParts DEF Skip, Connected
  <2>2. SlotsOK'
    BY <1>2, <2>1, SlotsKeepSame, OrderParts
  <2>3. OwedOK'
    BY <1>2, <2>1, OwedLess, OrderParts
  <2>4. ASSUME NEW t \in Slots, t \in Connected', ~Left(t)'
        PROVE  /\ t \in Connected /\ ~Left(t)
               /\ FlowOf(t)' = FlowOf(t) /\ Browser(t)' = Browser(t)
               /\ OwedTo(t)' = OwedTo(t)
    <3>1. t \in Connected /\ ~Left(t) /\ FlowOf(t)' = FlowOf(t) /\ Browser(t)' = Browser(t)
      BY <1>2, <2>1, <2>4, SlotSame
    <3>2. OwedTo(t)' = OwedTo(t)
      BY <2>1, <3>1 DEF OwedTo
    <3> QED BY <3>1, <3>2
  <2>5. FlowsOK'
    BY <1>2, <2>1, <2>4, FlowsKeep, OrderParts
  <2> QED BY <2>2, <2>3, <2>5 DEF LiveOrder
<1> QED BY <1>1, <1>3, <1>4, <1>5, <1>6

\* A client that gets its cursor has a flow of one snapshot of the present
\* facts, under the present number.
LEMMA UpgradeKeeps ==
  ASSUME LiveTypeOK, LiveOrder, NEW s \in Slots, Upgrade(s)
  PROVE  LiveOrder'
<1>1. /\ slot[s] \in Clients /\ SlotTypeOK(slot[s]) /\ slot[s].phase = "reserved"
      /\ UNCHANGED <<wire, owed, web, facts>> /\ owed = {} /\ seq \in Nat
      /\ facts \in 0 .. MaxFacts
  BY TypedParts DEF Upgrade, countVars, AtRest
<1>2. seq = 0 => Connected = {}
  BY SlotFacts, OrderParts DEF Connected
<1>3. CASE Close(s) /\ seq' = seq
  BY <1>1, <1>3, ClosingKeeps
<1>4. CASE Close(s) /\ seq = 0 /\ seq' = 1
  <2>1. Connected' = {}
    BY <1>2, <1>4, Closes
  <2>2. SlotsOK'
    BY <1>1, <1>4, SlotsKeepClosing, OrderParts
  <2> QED BY <1>1, <2>1, <2>2, OwedNothing DEF LiveOrder, FlowsOK
<1>5. CASE Admit(s)
  <2> DEFINE n == IF seq = 0 THEN 1 ELSE seq
             c == [slot[s] EXCEPT !.phase = "handshaking", !.cursor = n]
  <2>1. n \in Nat \ {0} /\ seq' = n /\ seq' >= seq
    BY <1>1, <1>5 DEF Admit
  <2>2. c.phase = "handshaking" /\ c.cursor = n /\ c.who = slot[s].who
        /\ c.snap = NotRead /\ c.pending = <<>>
    BY <1>1, <2>1 DEF Clients, SlotTypeOK
  <2>3. slot'[s] = c /\ \A t \in Slots : t # s => slot'[t] = slot[t]
    BY <1>1, <1>5, TypedParts DEF Admit
  <2> HIDE DEF c, n
  <2>4. SlotsOK'
    <3>1. ASSUME NEW t \in Slots
          PROVE  /\ slot'[t].who = slot[t].who
                 /\ slot'[t].phase = "free" <=> slot[t].phase = "free"
                 /\ slot'[t].phase \in {"reserved", "handshaking"} =>
                      wire'[t] = wire[t] /\ slot[t].phase \in {"reserved", "handshaking"}
                 /\ slot'[t].phase = "free" => wire'[t] = wire[t]
                 /\ slot'[t].phase \in {"handshaking", "ready"} => slot'[t].cursor \in 1 .. seq'
      <4>1. CASE t = s
        BY <1>1, <2>1, <2>2, <2>3, <4>1
      <4>2. CASE t # s
        <5>1. slot[t].phase \in {"handshaking", "ready"} => slot[t].cursor \in 1 .. seq'
          BY <1>1, <2>1, SlotFacts, OrderParts
        <5> QED BY <1>1, <2>3, <4>2, <5>1
      <4> QED BY <4>1, <4>2
    <3> QED BY <1>1, <3>1, SlotsKeep, OrderParts
  <2>5. ASSUME ~Left(s)'
        PROVE  FlowOK(Browser(s)', FlowOf(s)', seq', facts', OwedTo(s)')
    <3>1. Browser(s)' = Browser(s) /\ ~Left(s)
      BY <1>1, <2>2, <2>3, <2>5 DEF Browser, Left
    <3>2. Browser(s) \in Browsers /\ Browser(s).cursor = 0
      BY <1>1, <3>1, SlotFacts, OrderParts
    <3>3. OwedTo(s)' = {}
      BY <1>1 DEF OwedTo
    <3>4. FlowOf(s)' = <<Envelope("snapshot", n, facts)>>
      <4>1. Flow(c, wire[s], facts) = <<Envelope("snapshot", n, facts)>> \o <<>>
        BY <2>2 DEF Flow
      <4>2. <<Envelope("snapshot", n, facts)>> \o <<>> = <<Envelope("snapshot", n, facts)>>
        <5>1. Envelope("snapshot", n, facts) \in Envelopes
          BY <1>1, <2>1 DEF Envelope, Envelopes
        <5> HIDE DEF Envelope
        <5>2. <<Envelope("snapshot", n, facts)>> \in Seq(Envelopes)
          BY <5>1
        <5> QED BY <5>2, ConcatEmptySeq
      <4> QED BY <1>1, <2>3, <4>1, <4>2 DEF FlowOf
    <3>5. FlowOK(Browser(s), <<Envelope("snapshot", n, facts)>>, n, facts, {})
      BY <1>1, <2>1, <3>2, FlowBegins
    <3> QED BY <1>1, <2>1, <3>1, <3>3, <3>4, <3>5
  <2>6. ASSUME NEW t \in Slots, t # s, t \in Connected', ~Left(t)'
        PROVE  /\ t \in Connected /\ ~Left(t)
               /\ FlowOf(t)' = FlowOf(t) /\ Browser(t)' = Browser(t)
               /\ OwedTo(t)' = OwedTo(t)
    <3>1. slot'[t] = slot[t] /\ wire'[t] = wire[t] /\ OwedTo(t)' = OwedTo(t)
      BY <1>1, <2>3, <2>6 DEF OwedTo
    <3> QED BY <1>1, <2>6, <3>1, SlotSame
  <2>7. FlowsOK'
    <3>1. CASE seq = 0
      <4>1. \A t \in Slots : t \in Connected' /\ ~Left(t)' => t = s
        BY <1>2, <2>6, <3>1
      <4>2. \A t \in Connected' : t \in Slots
        BY DEF Connected, Slots
      <4>3. ASSUME NEW t \in Connected', ~Left(t)'
            PROVE  FlowOK(Browser(t)', FlowOf(t)', seq', facts', OwedTo(t)')
        BY <2>5, <4>1, <4>2, <4>3
      <4> QED BY <4>3 DEF FlowsOK, FlowOK, SnapshotFirst, StreamOK, InStep, Skips,
                          Base, Continues, Shows
    <3>2. CASE seq # 0
      <4>1. seq' = seq
        BY <2>1, <3>2 DEF n
      <4> QED BY <1>1, <2>5, <2>6, <4>1, FlowsKeep, OrderParts
    <3> QED BY <3>1, <3>2
  <2> QED BY <1>1, <2>4, <2>7, OwedNothing DEF LiveOrder
<1> QED BY <1>1, <1>3, <1>4, <1>5 DEF Upgrade, Upgraded

\* Nothing that the slots, the flows and the browsers consist of changes.
LEMMA QuietKeeps ==
  ASSUME LiveTypeOK, LiveOrder, UNCHANGED <<slot, wire, seq, owed, web, facts>>
  PROVE  LiveOrder'
<1>1. SlotsOK' /\ OwedOK'
  BY SlotsKeepSame, OwedLess, OrderParts, TypedParts
<1>2. ASSUME NEW t \in Slots, t \in Connected', ~Left(t)'
      PROVE  /\ t \in Connected /\ ~Left(t)
             /\ FlowOf(t)' = FlowOf(t) /\ Browser(t)' = Browser(t)
             /\ OwedTo(t)' = OwedTo(t)
  BY <1>2, SlotSame DEF OwedTo
<1>3. FlowsOK'
  BY <1>2, FlowsKeep, OrderParts
<1> QED BY <1>1, <1>3 DEF LiveOrder

\* One client gets another record that leaves its flow as it is.
LEMMA RecordKeeps ==
  ASSUME LiveTypeOK, LiveOrder, NEW s \in Slots, slot[s].phase # "free", NEW c \in Clients,
         slot' = [slot EXCEPT ![s] = c], c.who = slot[s].who, c.cursor = slot[s].cursor,
         c.phase = slot[s].phase \/ (slot[s].phase = "handshaking" /\ c.phase = "ready"),
         c.phase \in {"handshaking", "reserved"} => wire'[s] = wire[s],
         \A t \in Slots : t # s => wire'[t] = wire[t],
         Flow(c, wire'[s], facts) = FlowOf(s), UNCHANGED <<seq, owed, web, facts>>
  PROVE  LiveOrder'
<1>1. slot'[s] = c /\ (\A t \in Slots : t # s => slot'[t] = slot[t]) /\ seq \in Nat
  BY TypedParts
<1>2. SlotsOK'
  <2>1. ASSUME NEW t \in Slots
        PROVE  /\ slot'[t].who = slot[t].who
               /\ slot'[t].phase = "free" <=> slot[t].phase = "free"
               /\ slot'[t].phase \in {"reserved", "handshaking"} =>
                    wire'[t] = wire[t] /\ slot[t].phase \in {"reserved", "handshaking"}
               /\ slot'[t].phase = "free" => wire'[t] = wire[t]
               /\ slot'[t].phase \in {"handshaking", "ready"} => slot'[t].cursor \in 1 .. seq'
    <3>1. slot[t].phase \in {"handshaking", "ready"} => slot[t].cursor \in 1 .. seq
      BY SlotFacts, OrderParts
    <3>2. CASE t = s
      BY <1>1, <3>1, <3>2
    <3>3. CASE t # s
      BY <1>1, <3>1, <3>3
    <3> QED BY <3>2, <3>3
  <2> QED BY <2>1, SlotsKeep, OrderParts
<1>3. OwedOK'
  <2>1. \A t \in Slots : slot[t].phase \in {"handshaking", "ready", "closing"} =>
                           slot'[t].phase \in {"handshaking", "ready", "closing"}
    BY <1>1
  <2> QED BY <2>1, OwedLess, OrderParts
<1>4. ASSUME NEW t \in Slots, t \in Connected', ~Left(t)'
      PROVE  /\ t \in Connected /\ ~Left(t)
             /\ FlowOf(t)' = FlowOf(t) /\ Browser(t)' = Browser(t)
             /\ OwedTo(t)' = OwedTo(t)
  <2>1. OwedTo(t)' = OwedTo(t)
    BY DEF OwedTo
  <2>2. CASE t = s
    <3>1. FlowOf(t)' = FlowOf(t)
      BY <1>1, <2>2 DEF FlowOf
    <3>2. Browser(t)' = Browser(t) /\ ~Left(t)
      BY <1>1, <1>4, <2>2 DEF Browser, Left
    <3>3. t \in Connected
      BY <1>1, <1>4, <2>2 DEF Connected
    <3> QED BY <2>1, <3>1, <3>2, <3>3
  <2>3. CASE t # s
    BY <1>1, <1>4, <2>1, <2>3, SlotSame
  <2> QED BY <2>2, <2>3
<1>5. FlowsOK'
  BY <1>4, FlowsKeep, OrderParts
<1> QED BY <1>2, <1>3, <1>5 DEF LiveOrder

\* The facts that are read are the present ones, so the flow is the same.
LEMMA SnapshotReadKeeps ==
  ASSUME LiveTypeOK, LiveOrder, NEW s \in Slots, SnapshotRead(s)
  PROVE  LiveOrder'
<1> DEFINE c == [slot[s] EXCEPT !.snap = facts]
<1>1. slot[s] \in Clients /\ slot[s].phase = "handshaking" /\ slot[s].snap = NotRead
      /\ facts \in NotRead .. MaxFacts /\ facts # NotRead
      /\ UNCHANGED <<wire, seq, owed, web, facts>>
  BY TypedParts, Numbers DEF SnapshotRead, countVars, NotRead
<1>2. /\ c \in Clients /\ c.phase = slot[s].phase /\ c.who = slot[s].who
      /\ c.cursor = slot[s].cursor /\ c.snap = facts /\ c.pending = slot[s].pending
  BY <1>1 DEF Clients
<1>3. slot' = [slot EXCEPT ![s] = c]
  BY DEF SnapshotRead
<1> HIDE DEF c
<1>4. Flow(c, wire'[s], facts) = FlowOf(s)
  BY <1>1, <1>2 DEF Flow, FlowOf
<1> QED BY <1>1, <1>2, <1>3, <1>4, RecordKeeps

\* The flow goes on the wire, and is the same.
LEMMA SnapshotSentKeeps ==
  ASSUME LiveTypeOK, LiveOrder, NEW s \in Slots, SnapshotSent(s)
  PROVE  LiveOrder'
<1>1. slot[s] \in Clients /\ slot[s].phase = "handshaking" /\ slot[s].snap # NotRead
      /\ UNCHANGED <<seq, owed, web, facts>>
  BY TypedParts DEF SnapshotSent, countVars
<1>2. CASE Close(s) /\ UNCHANGED wire
  BY <1>1, <1>2, ClosingKeeps
<1>3. CASE Greet(s)
  <2> DEFINE c == [slot[s] EXCEPT !.phase = "ready", !.snap = NotRead, !.pending = <<>>]
  <2>1. NotRead \in NotRead .. MaxFacts
    BY Numbers DEF NotRead
  <2>2. c \in Clients /\ c.phase = "ready" /\ c.who = slot[s].who /\ c.cursor = slot[s].cursor
    BY <1>1, <2>1, EmptyFlow DEF Clients
  <2>3. slot' = [slot EXCEPT ![s] = c]
    BY <1>1, <1>3, TypedParts DEF Greet
  <2> HIDE DEF c
  <2>4. /\ wire'[s] = wire[s] \o Handshake(s)
        /\ \A t \in Slots : t # s => wire'[t] = wire[t]
    BY <1>3, TypedParts DEF Greet
  <2>5. wire'[s] = Handshake(s)
    <3>1. wire[s] = <<>>
      BY <1>1, SlotFacts, OrderParts
    <3>2. Handshake(s) \in Seq(Envelopes)
      BY <1>1, HandshakeIsTyped
    <3> QED BY <2>4, <3>1, <3>2, ConcatEmptySeq
  <2>6. Flow(c, wire'[s], facts) = FlowOf(s)
    BY <1>1, <2>2, <2>5 DEF Flow, FlowOf, Handshake
  <2> QED BY <1>1, <2>2, <2>3, <2>4, <2>6, RecordKeeps
<1> QED BY <1>2, <1>3 DEF SnapshotSent, Greeted

\* The read comes to nothing.
LEMMA SnapshotEndsKeep ==
  ASSUME LiveTypeOK, LiveTypeOK', LiveOrder, NEW s \in Slots,
         HandshakeFails(s) \/ SnapshotFails(s) \/ SnapshotTimesOut(s)
  PROVE  LiveOrder'
<1>1. slot[s].phase # "free" /\ owed = {} /\ Close(s) /\ UNCHANGED <<web, facts>>
  BY DEF HandshakeFails, SnapshotFails, SnapshotTimesOut, AtRest, countVars
<1>2. CASE HandshakeFails(s) \/ SnapshotFails(s)
  <2>1. \A t \in Slots : t # s => wire'[t] = wire[t]
    BY <1>2, TypedParts DEF HandshakeFails, SnapshotFails
  <2>2. Announce(Connected \ {s}, "log", 0, {}) /\ {} \in SUBSET owed
        /\ \A d \in owed \ {} : d.to = s
    BY <1>1, <1>2 DEF HandshakeFails, SnapshotFails
  <2> QED BY <1>1, <2>1, <2>2, ClosingReported
<1>3. CASE SnapshotTimesOut(s)
  BY <1>1, <1>3, ClosingKeeps DEF SnapshotTimesOut
<1> QED BY <1>2, <1>3

\* The new fact is owed to every connected client, as the next number.
LEMMA PublishKeeps ==
  ASSUME LiveTypeOK, LiveTypeOK', LiveOrder, Publish
  PROVE  LiveOrder'
<1>1. /\ owed = {} /\ UNCHANGED <<slot, wire, web>> /\ facts' = facts + 1
      /\ facts + 1 \in 0 .. MaxFacts /\ "fact" \in Kinds /\ "fact" # "log"
      /\ {} \in SUBSET owed /\ Connected \in SUBSET Slots /\ seq \in Nat
      /\ Announce(Connected, "fact", facts + 1, {})
  BY TypedParts, Numbers DEF Publish, AtRest, Kinds, Connected
<1>2. Connected' = Connected
  BY <1>1, SlotsSame
<1>3. SlotsOK'
  <2>1. seq' \in Nat /\ seq' >= seq
    BY <1>1 DEF Announce
  <2> QED BY <1>1, <2>1, SlotsKeepSame, OrderParts
<1>4. OwedOK'
  BY <1>1, <1>2, OwedMore, OrderParts
<1>5. ASSUME NEW t \in Slots, t \in Connected', ~Left(t)'
      PROVE  /\ t \in Connected /\ ~Left(t) /\ Browser(t)' = Browser(t)
             /\ Len(FlowOf(t)') = Len(FlowOf(t))
             /\ \A i \in 1 .. Len(FlowOf(t)) : /\ FlowOf(t)'[i].seq = FlowOf(t)[i].seq
                                               /\ FlowOf(t)'[i].event = FlowOf(t)[i].event
             /\ \A d \in owed \ {} : d.to # t
  <2>1. t \in Connected /\ ~Left(t) /\ Browser(t)' = Browser(t)
    BY <1>1, <1>2, <1>5 DEF Left, Browser
  <2>2. CASE slot[t].phase = "handshaking"
    <3> DEFINE x == IF slot[t].snap = NotRead THEN facts ELSE slot[t].snap
               y == IF slot[t].snap = NotRead THEN facts' ELSE slot[t].snap
               a == Envelope("snapshot", slot[t].cursor, x)
               b == Envelope("snapshot", slot[t].cursor, y)
               p == slot[t].pending
    <3>1. slot[t] \in Clients /\ facts \in 0 .. MaxFacts /\ facts' \in 0 .. MaxFacts
      BY <1>1, TypedParts
    <3>2. p \in Seq(Envelopes) /\ x \in 0 .. MaxFacts /\ y \in 0 .. MaxFacts
      BY <3>1, Numbers DEF Clients, NotRead
    <3>3. a \in Envelopes /\ b \in Envelopes /\ a.seq = b.seq /\ a.event = b.event
      BY <3>1, <3>2 DEF Clients, Envelope, Envelopes
    <3>4. FlowOf(t) = <<a>> \o p /\ FlowOf(t)' = <<b>> \o p
      BY <1>1, <2>2 DEF FlowOf, Flow
    <3> HIDE DEF a, b, x, y
    <3>5. <<a>> \in Seq(Envelopes) /\ <<b>> \in Seq(Envelopes)
          /\ Len(<<a>>) = 1 /\ Len(<<b>>) = 1 /\ Len(p) \in Nat
      BY <3>2, <3>3, LenProperties
    <3>6. Len(<<a>> \o p) = Len(p) + 1 /\ Len(<<b>> \o p) = Len(p) + 1
          /\ \A i \in 1 .. Len(p) + 1 :
               /\ (<<a>> \o p)[i] = IF i = 1 THEN a ELSE p[i - 1]
               /\ (<<b>> \o p)[i] = IF i = 1 THEN b ELSE p[i - 1]
      BY <3>2, <3>5, ConcatProperties
    <3>7. ASSUME NEW i \in 1 .. Len(p) + 1
          PROVE  /\ (<<b>> \o p)[i].seq = (<<a>> \o p)[i].seq
                 /\ (<<b>> \o p)[i].event = (<<a>> \o p)[i].event
      BY <3>3, <3>6
    <3> QED BY <1>1, <2>1, <3>4, <3>6, <3>7
  <2>3. CASE slot[t].phase # "handshaking"
    <3>1. FlowOf(t)' = FlowOf(t)
      BY <1>1, <2>3 DEF FlowOf, Flow
    <3> QED BY <1>1, <2>1, <3>1
  <2> QED BY <2>2, <2>3
<1>6. FlowsOK'
  <2> HIDE DEF FlowOf
  <2> QED BY <1>1, <1>2, <1>5, FlowsAnnounced, OrderParts
<1> QED BY <1>3, <1>4, <1>6 DEF LiveOrder

\* Only closures.
LEMMA RevalidateKeeps ==
  ASSUME LiveTypeOK, LiveOrder, Revalidate
  PROVE  LiveOrder'
<1>1. /\ owed' = {} /\ owed = {} /\ UNCHANGED <<wire, seq, web, facts>> /\ seq \in Nat
  BY TypedParts DEF Revalidate, AtRest, countVars
<1>2. ASSUME NEW t \in Slots
      PROVE  slot'[t] = slot[t] \/ /\ t \in Connected /\ slot'[t].phase = "closing"
                                   /\ slot'[t].who = slot[t].who
  BY RevalidateCloses
<1>3. SlotsOK'
  <2>1. ASSUME NEW t \in Slots
        PROVE  /\ slot'[t].who = slot[t].who
               /\ slot'[t].phase = "free" <=> slot[t].phase = "free"
               /\ slot'[t].phase \in {"reserved", "handshaking"} =>
                    wire'[t] = wire[t] /\ slot[t].phase \in {"reserved", "handshaking"}
               /\ slot'[t].phase = "free" => wire'[t] = wire[t]
               /\ slot'[t].phase \in {"handshaking", "ready"} => slot'[t].cursor \in 1 .. seq'
    <3>1. slot[t].phase \in {"handshaking", "ready"} => slot[t].cursor \in 1 .. seq
      BY SlotFacts, OrderParts
    <3> QED BY <1>1, <1>2, <3>1 DEF Connected
  <2> QED BY <1>1, <2>1, SlotsKeep, OrderParts
<1>4. ASSUME NEW t \in Slots, t \in Connected', ~Left(t)'
      PROVE  /\ t \in Connected /\ ~Left(t)
             /\ FlowOf(t)' = FlowOf(t) /\ Browser(t)' = Browser(t)
             /\ OwedTo(t)' = OwedTo(t)
  <2>1. slot'[t] = slot[t] /\ OwedTo(t)' = OwedTo(t)
    BY <1>1, <1>2, <1>4 DEF Connected, OwedTo
  <2> QED BY <1>1, <1>4, <2>1, SlotSame
<1>5. FlowsOK'
  BY <1>1, <1>4, FlowsKeep, OrderParts
<1> QED BY <1>1, <1>3, <1>5, OwedNothing DEF LiveOrder

\* The principal of a slot says nothing about its flow.
LEMMA SessionLapsesKeeps ==
  ASSUME LiveTypeOK, LiveOrder, NEW s \in Slots, SessionLapses(s)
  PROVE  LiveOrder'
<1> DEFINE c == [slot[s] EXCEPT !.secret = "lapsed"]
<1>1. slot[s] \in Clients /\ slot[s].phase # "free"
      /\ UNCHANGED <<wire, seq, owed, web, facts>>
  BY TypedParts DEF SessionLapses
<1>2. /\ c \in Clients /\ c.phase = slot[s].phase /\ c.who = slot[s].who
      /\ c.cursor = slot[s].cursor /\ c.snap = slot[s].snap /\ c.pending = slot[s].pending
  BY <1>1 DEF Clients
<1>3. slot' = [slot EXCEPT ![s] = c]
  BY DEF SessionLapses
<1> HIDE DEF c
<1>4. Flow(c, wire'[s], facts) = FlowOf(s)
  BY <1>1, <1>2 DEF Flow, FlowOf
<1> QED BY <1>1, <1>2, <1>3, <1>4, RecordKeeps

-----------------------------------------------------------------------------
(* The steps of the browsers, and of what comes between. *)

\* What the invariants say of one browser.
LEMMA BrowserFacts ==
  ASSUME LiveTypeOK, SlotsOK, NEW w \in Viewers
  PROVE  /\ web[w] \in Browsers
         /\ web[w].slot = 0 <=> web[w].state # "open"
         /\ web[w].slot # 0 => /\ web[w].slot \in Slots
                               /\ slot[web[w].slot].phase # "free"
                               /\ slot[web[w].slot].who = w
<1>1. web[w] \in Browsers /\ web[w].slot \in 0 .. MaxClients
  BY TypedParts, BrowserFields
<1>2. web[w].slot # 0 => web[w].slot \in Slots
  BY <1>1, Numbers DEF Slots
<1> QED BY <1>1, <1>2 DEF SlotsOK

\* A browser without a slot gets one that was free, and starts from nothing.
LEMMA ConnectKeeps ==
  ASSUME LiveTypeOK, LiveOrder, NEW w \in Viewers, Connect(w)
  PROVE  LiveOrder'
<1>1. PICK s \in Slots :
        /\ slot[s].phase = "free"
        /\ slot' = [slot EXCEPT ![s] = [FreeSlot EXCEPT
                      !.phase = "reserved", !.who = w, !.secret = row[Ops].secret]]
        /\ web' = [web EXCEPT ![w] = Fresh(web[w], s)]
  BY DEF Connect
<1> DEFINE c == [FreeSlot EXCEPT !.phase = "reserved", !.who = w, !.secret = row[Ops].secret]
           v == Fresh(web[w], s)
<1>2. /\ owed = {} /\ UNCHANGED <<wire, seq, owed, facts>> /\ seq \in Nat
      /\ web[w].state = "waiting" /\ web[w].slot = 0 /\ s # 0
  BY TypedParts, OrderParts, BrowserFacts DEF Connect, AtRest, countVars, Slots
<1>3. c.phase = "reserved" /\ c.who = w
  BY DEF FreeSlot
<1>4. v.state = "open" /\ v.slot = s /\ v.cursor = 0
  BY TypedParts DEF Fresh, Browsers
<1>5. /\ slot'[s] = c /\ \A t \in Slots : t # s => slot'[t] = slot[t]
      /\ web'[w] = v /\ \A u \in Viewers : u # w => web'[u] = web[u]
  BY <1>1, TypedParts
<1> HIDE DEF c, v
<1>6. SlotsOK'
  <2>1. ASSUME NEW u \in Viewers
        PROVE  /\ web'[u].slot = 0 <=> web'[u].state # "open"
               /\ web'[u].slot # 0 => /\ slot'[web'[u].slot].phase # "free"
                                      /\ slot'[web'[u].slot].who = u
    <3>1. CASE u = w
      BY <1>2, <1>3, <1>4, <1>5, <3>1
    <3>2. CASE u # w
      <4>1. web'[u] = web[u]
        BY <1>5, <3>2
      <4> QED BY <1>1, <1>5, <4>1, BrowserFacts, OrderParts
    <3> QED BY <3>1, <3>2
  <2>2. ASSUME NEW t \in Slots
        PROVE  /\ slot'[t].phase # "free" => slot'[t].who \in Viewers
               /\ slot'[t].phase \in {"free", "reserved", "handshaking"} => wire'[t] = <<>>
               /\ slot'[t].phase \in {"reserved", "handshaking"}
                    /\ web'[slot'[t].who].slot = t => web'[slot'[t].who].cursor = 0
               /\ slot'[t].phase \in {"handshaking", "ready"} => slot'[t].cursor \in 1 .. seq'
    <3>1. CASE t = s
      <4>1. wire[t] = <<>>
        BY <1>1, <3>1, SlotFacts, OrderParts
      <4> QED BY <1>2, <1>3, <1>4, <1>5, <3>1, <4>1
    <3>2. CASE t # s
      <4>1. slot'[t] = slot[t] /\ wire'[t] = wire[t]
        BY <1>2, <1>5, <3>2
      <4>2. slot[t].phase # "free" /\ slot[t].who # w => web'[slot[t].who] = web[slot[t].who]
        BY <1>5, SlotFacts, OrderParts
      <4>3. slot[t].who = w => web'[slot[t].who].slot # t
        BY <1>4, <1>5, <3>2
      <4> QED BY <1>2, <4>1, <4>2, <4>3, SlotFacts, OrderParts DEF Left, Browser
    <3> QED BY <3>1, <3>2
  <2> QED BY <2>1, <2>2 DEF SlotsOK, Left, Browser
<1>7. ASSUME NEW t \in Slots, t \in Connected', ~Left(t)'
      PROVE  /\ t \in Connected /\ ~Left(t)
             /\ FlowOf(t)' = FlowOf(t) /\ Browser(t)' = Browser(t)
             /\ OwedTo(t)' = OwedTo(t)
  <2>1. t # s /\ slot'[t] = slot[t] /\ wire'[t] = wire[t] /\ OwedTo(t)' = OwedTo(t)
    BY <1>2, <1>3, <1>5, <1>7 DEF Connected, OwedTo
  <2>2. slot[t].who # w
    BY <1>4, <1>5, <1>7, <2>1 DEF Left
  <2>3. t \in Connected /\ slot[t].who \in Viewers
    <3>1. t \in Connected
      BY <1>7, <2>1 DEF Connected
    <3> QED BY <3>1, SlotFacts, OrderParts DEF Connected
  <2>4. web'[slot[t].who] = web[slot[t].who]
    BY <1>5, <2>2, <2>3
  <2> QED BY <1>2, <1>7, <2>1, <2>4, SlotSame
<1>8. FlowsOK'
  BY <1>2, <1>7, FlowsKeep, OrderParts
<1> QED BY <1>2, <1>6, <1>8, OwedNothing DEF LiveOrder

\* A browser that has no slot, or gives its slot up, while the slots stay.
LEMMA BrowserLeaves ==
  ASSUME LiveTypeOK, LiveOrder, NEW w \in Viewers,
         web' = [web EXCEPT ![w] = Rescheduled(web[w])],
         UNCHANGED <<slot, seq, owed, facts>>,
         \A t \in Slots : t # web[w].slot => wire'[t] = wire[t],
         \A t \in Slots : wire[t] = <<>> => wire'[t] = <<>>
  PROVE  LiveOrder'
<1> DEFINE v == Rescheduled(web[w])
<1>1. v.slot = 0 /\ v.state # "open" /\ web[w] \in Browsers /\ 0 \notin Slots
      /\ seq \in Nat
  BY TypedParts, RescheduledIs DEF Slots
<1>2. web'[w] = v /\ \A u \in Viewers : u # w => web'[u] = web[u]
  BY TypedParts
<1> HIDE DEF v
<1>3. SlotsOK'
  <2>1. ASSUME NEW u \in Viewers
        PROVE  /\ web'[u].slot = 0 <=> web'[u].state # "open"
               /\ web'[u].slot # 0 => /\ slot'[web'[u].slot].phase # "free"
                                      /\ slot'[web'[u].slot].who = u
    <3>1. CASE u = w
      BY <1>1, <1>2, <3>1
    <3>2. CASE u # w
      <4>1. web'[u] = web[u]
        BY <1>2, <3>2
      <4> QED BY <4>1, BrowserFacts, OrderParts
    <3> QED BY <3>1, <3>2
  <2>2. ASSUME NEW t \in Slots
        PROVE  /\ slot'[t].phase # "free" => slot'[t].who \in Viewers
               /\ slot'[t].phase \in {"free", "reserved", "handshaking"} => wire'[t] = <<>>
               /\ slot'[t].phase \in {"reserved", "handshaking"}
                    /\ web'[slot'[t].who].slot = t => web'[slot'[t].who].cursor = 0
               /\ slot'[t].phase \in {"handshaking", "ready"} => slot'[t].cursor \in 1 .. seq'
    <3>1. slot[t].phase # "free" /\ slot[t].who # w => web'[slot[t].who] = web[slot[t].who]
      BY <1>2, SlotFacts, OrderParts
    <3>2. slot[t].who = w => web'[slot[t].who].slot # t
      BY <1>1, <1>2
    <3> QED BY <3>1, <3>2, SlotFacts, OrderParts DEF Left, Browser
  <2> QED BY <2>1, <2>2 DEF SlotsOK, Left, Browser
<1>4. OwedOK'
  BY OwedLess, OrderParts
<1>5. ASSUME NEW t \in Slots, t \in Connected', ~Left(t)'
      PROVE  /\ t \in Connected /\ ~Left(t)
             /\ FlowOf(t)' = FlowOf(t) /\ Browser(t)' = Browser(t)
             /\ OwedTo(t)' = OwedTo(t)
  <2>1. slot[t].who # w
    BY <1>1, <1>2, <1>5 DEF Left
  <2>2. t \in Connected /\ slot[t].who \in Viewers /\ slot[t].phase # "free"
    <3>1. t \in Connected
      BY <1>5 DEF Connected
    <3> QED BY <3>1, SlotFacts, OrderParts DEF Connected
  <2>3. web'[slot[t].who] = web[slot[t].who]
    BY <1>2, <2>1, <2>2
  <2>4. t # web[w].slot
    <3>1. t # 0
      BY <1>1
    <3> QED BY <2>1, <3>1, BrowserFacts, OrderParts
  <2>5. wire'[t] = wire[t] /\ OwedTo(t)' = OwedTo(t)
    BY <2>4 DEF OwedTo
  <2> QED BY <1>5, <2>3, <2>5, SlotSame
<1>6. FlowsOK'
  BY <1>5, FlowsKeep, OrderParts
<1> QED BY <1>3, <1>4, <1>6 DEF LiveOrder

\* The head of a flow is applied, or passed over, or the browser leaves.
LEMMA ReceiveKeeps ==
  ASSUME LiveTypeOK, LiveTypeOK', LiveOrder, NEW w \in Viewers, Receive(w)
  PROVE  LiveOrder'
<1>0. PICK s \in Slots : s = web[w].slot
  BY BrowserFacts, OrderParts DEF Receive
<1> DEFINE v == Accepted(web[w], Head(wire[s]))
<1>1. /\ s = web[w].slot /\ s # 0 /\ wire[s] # <<>> /\ wire[s] \in Seq(Envelopes)
      /\ web[w] \in Browsers /\ web[w].state = "open"
      /\ slot[s].phase # "free" /\ slot[s].who = w
      /\ UNCHANGED <<slot, seq, owed, facts>> /\ seq \in Nat
  BY <1>0, TypedParts, BrowserFacts, OrderParts DEF Receive, countVars
<1>2. slot[s].phase \notin {"reserved", "handshaking"}
  BY <1>1, SlotFacts, OrderParts
<1>3. /\ web' = [web EXCEPT ![w] = v]
      /\ wire' = [wire EXCEPT ![s] = Tail(wire[s])]
  BY <1>0 DEF Receive
<1>4. /\ web'[w] = v /\ \A u \in Viewers : u # w => web'[u] = web[u]
      /\ wire'[s] = Tail(wire[s]) /\ \A t \in Slots : t # s => wire'[t] = wire[t]
  BY <1>1, <1>3, TypedParts
<1>5. Head(wire[s]) \in Envelopes
  BY <1>1, ShorterFlow
<1>6. CASE v = Rescheduled(web[w])
  <2>1. \A t \in Slots : wire[t] = <<>> => wire'[t] = <<>>
    BY <1>1, <1>4
  <2> QED BY <1>1, <1>3, <1>4, <1>6, <2>1, BrowserLeaves
<1>7. CASE v # Rescheduled(web[w])
  <2>1. v.slot = s /\ v.state = "open"
    BY <1>1, <1>5, <1>7, AcceptedIs
  <2> HIDE DEF v
  <2>2. SlotsOK'
    <3>1. ASSUME NEW u \in Viewers
          PROVE  /\ web'[u].slot = 0 <=> web'[u].state # "open"
                 /\ web'[u].slot # 0 => /\ slot'[web'[u].slot].phase # "free"
                                        /\ slot'[web'[u].slot].who = u
      <4>1. CASE u = w
        BY <1>1, <1>4, <2>1, <4>1
      <4>2. CASE u # w
        <5>1. web'[u] = web[u]
          BY <1>4, <4>2
        <5> QED BY <1>1, <5>1, BrowserFacts, OrderParts
      <4> QED BY <4>1, <4>2
    <3>2. ASSUME NEW t \in Slots
          PROVE  /\ slot'[t].phase # "free" => slot'[t].who \in Viewers
                 /\ slot'[t].phase \in {"free", "reserved", "handshaking"} => wire'[t] = <<>>
                 /\ slot'[t].phase \in {"reserved", "handshaking"}
                      /\ web'[slot'[t].who].slot = t => web'[slot'[t].who].cursor = 0
                 /\ slot'[t].phase \in {"handshaking", "ready"} => slot'[t].cursor \in 1 .. seq'
      <4>1. CASE t = s
        BY <1>1, <1>2, <4>1, SlotFacts, OrderParts
      <4>2. CASE t # s
        <5>1. slot[t].phase # "free" /\ slot[t].who # w =>
                web'[slot[t].who] = web[slot[t].who]
          BY <1>4, SlotFacts, OrderParts
        <5>2. slot[t].who = w => web'[slot[t].who].slot # t
          BY <1>4, <2>1, <4>2
        <5> QED BY <1>1, <1>4, <4>2, <5>1, <5>2, SlotFacts, OrderParts DEF Left, Browser
      <4> QED BY <4>1, <4>2
    <3> QED BY <3>1, <3>2 DEF SlotsOK, Left, Browser
  <2>3. OwedOK'
    BY <1>1, OwedLess, OrderParts
  <2>4. ASSUME NEW t \in Slots, t # s, t \in Connected', ~Left(t)'
        PROVE  /\ t \in Connected /\ ~Left(t)
               /\ FlowOf(t)' = FlowOf(t) /\ Browser(t)' = Browser(t)
               /\ OwedTo(t)' = OwedTo(t)
    <3>1. slot[t].who # w
      BY <1>1, <1>4, <2>1, <2>4 DEF Left
    <3>2. slot[t].who \in Viewers
      <4>1. t \in Connected
        BY <1>1, <2>4 DEF Connected
      <4> QED BY <4>1, SlotFacts, OrderParts DEF Connected
    <3>3. web'[slot[t].who] = web[slot[t].who] /\ wire'[t] = wire[t]
          /\ OwedTo(t)' = OwedTo(t)
      BY <1>1, <1>4, <2>4, <3>1, <3>2 DEF OwedTo
    <3> QED BY <1>1, <2>4, <3>3, SlotSame
  <2>5. ASSUME s \in Connected'
        PROVE  FlowOK(Browser(s)', FlowOf(s)', seq', facts', OwedTo(s)')
    <3>1. s \in Connected /\ slot[s].phase = "ready"
      BY <1>1, <1>2, <2>5 DEF Connected
    <3>2. ~Left(s) /\ Browser(s) = web[w]
      BY <1>1 DEF Left, Browser
    <3>3. FlowOf(s) = wire[s]
      BY <3>1 DEF FlowOf, Flow
    <3>4. FlowOf(s)' = Tail(wire[s]) /\ Browser(s)' = v /\ OwedTo(s)' = OwedTo(s)
      <4>1. slot'[s] = slot[s] /\ wire'[s] = Tail(wire[s]) /\ web'[w] = v /\ owed' = owed
        BY <1>1, <1>4
      <4>2. FlowOf(s)' = Tail(wire[s])
        BY <3>1, <4>1 DEF FlowOf, Flow
      <4>3. Browser(s)' = v
        BY <1>1, <4>1 DEF Browser
      <4>4. OwedTo(s)' = OwedTo(s)
        BY <4>1 DEF OwedTo
      <4> QED BY <4>2, <4>3, <4>4
    <3>5. FlowOK(web[w], wire[s], seq, facts, OwedTo(s))
      BY <3>1, <3>2, <3>3, OrderParts DEF FlowsOK
    <3>6. OwedTo(s) \in SUBSET Deliveries
      BY TypedParts DEF OwedTo
    <3>7. FlowOK(v, Tail(wire[s]), seq, facts, OwedTo(s))
      BY <1>1, <1>7, <3>5, <3>6, FlowReceived DEF v
    <3> QED BY <1>1, <3>4, <3>7
  <2>6. FlowsOK'
    <3>1. ASSUME NEW t \in Slots, t \in Connected', ~Left(t)'
          PROVE  \/ /\ t \in Connected /\ ~Left(t)
                    /\ FlowOf(t)' = FlowOf(t) /\ Browser(t)' = Browser(t)
                    /\ OwedTo(t)' = OwedTo(t)
                 \/ FlowOK(Browser(t)', FlowOf(t)', seq', facts', OwedTo(t)')
      <4>1. CASE t = s
        BY <2>5, <3>1, <4>1
      <4>2. CASE t # s
        BY <2>4, <3>1, <4>2
      <4> QED BY <4>1, <4>2
    <3> QED BY <1>1, <3>1, FlowsKeep, OrderParts
  <2> QED BY <2>2, <2>3, <2>6 DEF LiveOrder
<1> QED BY <1>6, <1>7

\* Nobody points at a slot that was freed.
LEMMA FreedKeeps ==
  ASSUME LiveTypeOK, LiveOrder, NEW s \in Slots, slot[s].phase # "free", owed = {},
         Freed(s), UNCHANGED facts
  PROVE  LiveOrder'
<1> DEFINE w == slot[s].who
<1>1. /\ w \in Viewers /\ web[w] \in Browsers
      /\ UNCHANGED <<seq, owed, facts>> /\ seq \in Nat /\ 0 \notin Slots
  BY TypedParts, SlotFacts, BrowserFacts, OrderParts DEF Freed, Free, Slots
<1>2. /\ slot'[s] = FreeSlot /\ \A t \in Slots : t # s => slot'[t] = slot[t]
      /\ wire'[s] = <<>> /\ \A t \in Slots : t # s => wire'[t] = wire[t]
  BY TypedParts DEF Freed, Free
<1>3. \A u \in Viewers : u # w => web'[u] = web[u]
  BY TypedParts DEF Freed
<1>4. web'[w].slot # s /\ (web'[w].slot = 0 <=> web'[w].state # "open")
      /\ (web'[w].slot # 0 => web'[w] = web[w])
  <2>1. CASE Left(s)
    <3>1. web' = web
      BY <2>1 DEF Freed
    <3> QED BY <1>1, <2>1, <3>1, BrowserFacts, OrderParts DEF Left
  <2>2. CASE ~Left(s)
    <3>1. web'[w] = Rescheduled(web[w])
      BY <1>1, <2>2, TypedParts DEF Freed
    <3> QED BY <1>1, <3>1, RescheduledIs
  <2> QED BY <2>1, <2>2
<1> HIDE DEF w
<1>5. \A t \in Slots : t # s => web[w].slot # t \/ web'[w] = web[w]
  <2>1. CASE Left(s)
    BY <2>1 DEF Freed
  <2>2. CASE ~Left(s)
    BY <2>2 DEF Left, w
  <2> QED BY <2>1, <2>2
<1>6. SlotsOK'
  <2>1. ASSUME NEW u \in Viewers
        PROVE  /\ web'[u].slot = 0 <=> web'[u].state # "open"
               /\ web'[u].slot # 0 => /\ slot'[web'[u].slot].phase # "free"
                                      /\ slot'[web'[u].slot].who = u
    <3>1. web'[u].slot # s
      <4>1. CASE u = w
        BY <1>4, <4>1
      <4>2. CASE u # w
        <5>1. web'[u] = web[u] /\ slot[s].who # u /\ s # 0
          BY <1>1, <1>3, <4>2 DEF w
        <5> QED BY <5>1, BrowserFacts, OrderParts
      <4> QED BY <4>1, <4>2
    <3>2. web'[u].slot # 0 => web'[u] = web[u]
      BY <1>3, <1>4
    <3>3. web'[u].slot = 0 <=> web'[u].state # "open"
      BY <1>3, <1>4, BrowserFacts, OrderParts
    <3> QED BY <1>2, <3>1, <3>2, <3>3, BrowserFacts, OrderParts
  <2>2. ASSUME NEW t \in Slots
        PROVE  /\ slot'[t].phase # "free" => slot'[t].who \in Viewers
               /\ slot'[t].phase \in {"free", "reserved", "handshaking"} => wire'[t] = <<>>
               /\ slot'[t].phase \in {"reserved", "handshaking"}
                    /\ web'[slot'[t].who].slot = t => web'[slot'[t].who].cursor = 0
               /\ slot'[t].phase \in {"handshaking", "ready"} => slot'[t].cursor \in 1 .. seq'
    <3>1. CASE t = s
      BY <1>2, <3>1, FreeIs
    <3>2. CASE t # s
      <4>1. slot'[t] = slot[t] /\ wire'[t] = wire[t] /\ seq' = seq
        BY <1>1, <1>2, <3>2
      <4>2. slot[t].phase # "free" /\ web'[slot[t].who].slot = t =>
              web'[slot[t].who] = web[slot[t].who]
        <5>1. t # 0
          BY <1>1
        <5> QED BY <1>3, <1>4, <5>1, SlotFacts, OrderParts
      <4> QED BY <4>1, <4>2, SlotFacts, OrderParts DEF Left, Browser
    <3> QED BY <3>1, <3>2
  <2> QED BY <2>1, <2>2 DEF SlotsOK, Left, Browser
<1>7. ASSUME NEW t \in Slots, t \in Connected', ~Left(t)'
      PROVE  /\ t \in Connected /\ ~Left(t)
             /\ FlowOf(t)' = FlowOf(t) /\ Browser(t)' = Browser(t)
             /\ OwedTo(t)' = OwedTo(t)
  <2>1. t # s /\ slot'[t] = slot[t] /\ wire'[t] = wire[t] /\ OwedTo(t)' = OwedTo(t)
    BY <1>1, <1>2, <1>7, FreeIs DEF Connected, OwedTo
  <2>2. t \in Connected /\ slot[t].who \in Viewers
    <3>1. t \in Connected
      BY <1>7, <2>1 DEF Connected
    <3> QED BY <3>1, SlotFacts, OrderParts DEF Connected
  <2>3. web'[slot[t].who].slot = t /\ t # 0
    BY <1>1, <1>7, <2>1 DEF Left
  <2>4. web'[slot[t].who] = web[slot[t].who]
    BY <1>3, <1>4, <2>2, <2>3
  <2> QED BY <1>1, <1>7, <2>1, <2>4, SlotSame
<1>8. FlowsOK'
  BY <1>1, <1>7, FlowsKeep, OrderParts
<1> QED BY <1>1, <1>6, <1>8, OwedNothing DEF LiveOrder

\* Nothing is left of what a daemon had sent when it starts again.
LEMMA RestartKeeps ==
  ASSUME LiveTypeOK, LiveOrder, DaemonRestart
  PROVE  LiveOrder'
<1>1. /\ \A t \in Slots : slot'[t] = FreeSlot /\ wire'[t] = <<>>
      /\ \A w \in Viewers : web'[w] = IF web[w].state = "open"
                                      THEN Rescheduled(web[w]) ELSE web[w]
      /\ owed' = {}
  BY DEF DaemonRestart, AtRest
<1>2. \A w \in Viewers : web'[w].slot = 0 /\ web'[w].state # "open"
  BY <1>1, BrowserFacts, RescheduledIs, OrderParts
<1>3. SlotsOK'
  BY <1>1, <1>2, FreeIs DEF SlotsOK
<1>4. Connected' = {}
  BY <1>1, FreeIs DEF Connected
<1>5. FlowsOK'
  BY <1>4 DEF FlowsOK
<1> QED BY <1>1, <1>3, <1>5, OwedNothing DEF LiveOrder

-----------------------------------------------------------------------------
(* The theorems. *)

\* No daemon, no client, nothing sent.
LEMMA LiveSafeInitially == LiveInit => LiveSafe
<1>1. SUFFICES ASSUME LiveInit PROVE LiveSafe
  OBVIOUS
<1>2. AuthorityInv
  BY <1>1, AuthorityInvInitially DEF LiveInit
<1>3. /\ \A s \in Slots : slot[s] = FreeSlot /\ wire[s] = <<>>
      /\ \A w \in Viewers : web[w] = [state |-> "waiting", slot |-> 0, cursor |-> 0,
                                      view |-> 0, attempts |-> 0]
      /\ seq = 0 /\ orphans = 0 /\ timer = FALSE /\ owed = {} /\ up = FALSE
      /\ facts = 0 /\ disturbances = 0
  BY <1>1 DEF LiveInit
<1>4. LiveTypeOK
  <2>1. slot \in [Slots -> Clients] /\ \A s \in Slots : SlotTypeOK(slot[s])
    BY <1>1, <1>3, FreeIs DEF LiveInit
  <2>2. wire \in [Slots -> Seq(Envelopes)]
    BY <1>1, EmptyFlow DEF LiveInit
  <2>3. Handshaking = {}
    BY <1>3, FreeIs DEF Handshaking
  <2>4. InFlightSnapshots <= MaxClients
    BY <1>3, <2>3, FS_EmptySet, Numbers DEF InFlightSnapshots
  <2>5. web \in [Viewers -> Browsers]
    <3>1. 0 \in 0 .. MaxClients /\ 0 \in 0 .. MaxFacts /\ 0 \in 0 .. MaxReconnects
      BY Numbers
    <3> QED BY <1>1, <3>1 DEF LiveInit, Browsers
  <2>6. AuthorityTypeOK
    BY <1>2 DEF AuthorityInv
  <2>7. /\ seq \in Nat /\ orphans \in Nat /\ timer \in BOOLEAN /\ owed \in SUBSET Deliveries
        /\ up \in BOOLEAN /\ facts \in 0 .. MaxFacts /\ disturbances \in 0 .. MaxDisturbances
    <3>1. 0 \in 0 .. MaxFacts /\ 0 \in 0 .. MaxDisturbances
      BY Numbers
    <3>2. timer \in BOOLEAN /\ up \in BOOLEAN
      BY <1>3
    <3> QED BY <1>3, <3>1, <3>2
  <2> QED BY <2>1, <2>2, <2>4, <2>5, <2>6, <2>7 DEF LiveTypeOK
<1>5. SlotsOK
  BY <1>3, FreeIs DEF SlotsOK
<1>6. OwedOK
  BY <1>3 DEF OwedOK
<1>7. FlowsOK
  BY <1>3, FreeIs DEF FlowsOK, Connected
<1> QED BY <1>2, <1>4, <1>5, <1>6, <1>7 DEF LiveSafe, LiveOrder

\* A step of the live view is one of the registry, or leaves it alone.
LEMMA LiveStepsRegistry == LiveNext => [AuthorityNext]_authVars
<1>1. SUFFICES ASSUME LiveNext PROVE [AuthorityNext]_authVars
  OBVIOUS
<1>2. CASE RegistryWrites
  BY <1>2 DEF RegistryWrites, AuthorityNext
<1>3. ASSUME NEW w \in Viewers, Connect(w) \/ ConnectFails(w) \/ Receive(w)
      PROVE  UNCHANGED authVars
  BY <1>3 DEF Connect, ConnectFails, Receive
<1>4. ASSUME NEW s \in Slots,
             \/ Upgrade(s) \/ SnapshotRead(s) \/ SnapshotSent(s)
             \/ HandshakeFails(s) \/ SnapshotFails(s) \/ SnapshotTimesOut(s)
             \/ TransportClosed(s) \/ TransportLost(s) \/ SessionLapses(s)
      PROVE  UNCHANGED authVars
  BY <1>4 DEF Upgrade, SnapshotRead, SnapshotSent, HandshakeFails, SnapshotFails,
              SnapshotTimesOut, TransportClosed, TransportLost, SessionLapses
<1>5. CASE Deliver \/ OrphanEnds \/ Publish \/ Revalidate \/ DaemonStart \/ DaemonRestart
  BY <1>5 DEF Deliver, OrphanEnds, Publish, Revalidate, DaemonStart, DaemonRestart
<1> QED BY <1>1, <1>2, <1>3, <1>4, <1>5 DEF LiveNext

\* Every action keeps the shape.
LEMMA LiveNextTyped ==
  ASSUME LiveSafe, LiveNext, AuthorityTypeOK'
  PROVE  LiveTypeOK'
<1>1. LiveTypeOK /\ Taken
  BY DEF LiveSafe, LiveOrder, SlotsOK, Taken
<1>2. ASSUME NEW w \in Viewers, Connect(w) \/ ConnectFails(w) \/ Receive(w)
      PROVE  LiveTypeOK'
  BY <1>1, <1>2, ConnectTyped, BrowserStepsTyped
<1>3. ASSUME NEW s \in Slots,
             \/ Upgrade(s) \/ SnapshotRead(s) \/ SnapshotSent(s)
             \/ HandshakeFails(s) \/ SnapshotFails(s) \/ SnapshotTimesOut(s)
             \/ TransportClosed(s) \/ TransportLost(s) \/ SessionLapses(s)
      PROVE  LiveTypeOK'
  BY <1>1, <1>3, UpgradeTyped, SnapshotReadTyped, SnapshotSentTyped, HandshakeFailsTyped,
     SnapshotEndsTyped, TransportTyped, SessionLapsesTyped
<1>4. CASE \/ Deliver \/ OrphanEnds \/ Publish \/ Revalidate
           \/ DaemonStart \/ DaemonRestart \/ RegistryWrites
  BY <1>1, <1>4, DeliverTyped, OrphanEndsTyped, PublishTyped, RevalidateTyped, DaemonTyped
<1> QED BY <1>2, <1>3, <1>4 DEF LiveNext

\* Every action keeps the order.
LEMMA LiveNextKeeps ==
  ASSUME LiveSafe, LiveNext, LiveTypeOK'
  PROVE  LiveOrder'
<1>1. LiveTypeOK /\ LiveOrder
  BY DEF LiveSafe
<1>2. ASSUME NEW w \in Viewers, Connect(w) \/ ConnectFails(w) \/ Receive(w)
      PROVE  LiveOrder'
  <2>1. CASE Connect(w)
    BY <1>1, <2>1, ConnectKeeps
  <2>2. CASE ConnectFails(w)
    BY <1>1, <2>2, BrowserLeaves DEF ConnectFails, serverVars, countVars
  <2>3. CASE Receive(w)
    BY <1>1, <2>3, ReceiveKeeps
  <2> QED BY <1>2, <2>1, <2>2, <2>3
<1>3. ASSUME NEW s \in Slots,
             \/ Upgrade(s) \/ SnapshotRead(s) \/ SnapshotSent(s)
             \/ HandshakeFails(s) \/ SnapshotFails(s) \/ SnapshotTimesOut(s)
             \/ TransportClosed(s) \/ TransportLost(s) \/ SessionLapses(s)
      PROVE  LiveOrder'
  <2>1. CASE Upgrade(s)
    BY <1>1, <2>1, UpgradeKeeps
  <2>2. CASE SnapshotRead(s)
    BY <1>1, <2>2, SnapshotReadKeeps
  <2>3. CASE SnapshotSent(s)
    BY <1>1, <2>3, SnapshotSentKeeps
  <2>4. CASE HandshakeFails(s) \/ SnapshotFails(s) \/ SnapshotTimesOut(s)
    BY <1>1, <2>4, SnapshotEndsKeep
  <2>5. CASE TransportClosed(s) \/ TransportLost(s)
    BY <1>1, <2>5, FreedKeeps DEF TransportClosed, TransportLost, AtRest, countVars
  <2>6. CASE SessionLapses(s)
    BY <1>1, <2>6, SessionLapsesKeeps
  <2> QED BY <1>3, <2>1, <2>2, <2>3, <2>4, <2>5, <2>6
<1>4. CASE Deliver \/ Publish \/ Revalidate \/ DaemonRestart
  BY <1>1, <1>4, DeliverKeeps, PublishKeeps, RevalidateKeeps, RestartKeeps
<1>5. CASE OrphanEnds \/ DaemonStart \/ RegistryWrites
  BY <1>1, <1>5, QuietKeeps DEF OrphanEnds, DaemonStart, RegistryWrites, serverVars, countVars
<1> QED BY <1>2, <1>3, <1>4, <1>5 DEF LiveNext

\* The invariant is inductive.
LEMMA LiveSafeInductive == LiveSafe /\ [LiveNext]_liveVars => LiveSafe'
<1>1. ASSUME LiveSafe, LiveNext PROVE LiveSafe'
  <2>1. AuthorityInv'
    BY <1>1, LiveStepsRegistry, AuthorityInvInductive DEF LiveSafe
  <2>2. AuthorityTypeOK'
    BY <2>1 DEF AuthorityInv
  <2>3. LiveTypeOK'
    BY <1>1, <2>2, LiveNextTyped
  <2>4. LiveOrder'
    BY <1>1, <2>3, LiveNextKeeps
  <2> QED BY <2>1, <2>3, <2>4 DEF LiveSafe
<1>2. ASSUME LiveSafe, UNCHANGED liveVars PROVE LiveSafe'
  <2>1. UNCHANGED <<slot, wire, seq, orphans, timer, owed, web, up, facts,
                    disturbances, authVars>>
    BY <1>2 DEF liveVars, serverVars, countVars
  <2>2. AuthorityInv'
    BY <1>2, <2>1, AuthorityInvInductive DEF LiveSafe
  <2>3. AuthorityTypeOK'
    BY <2>2 DEF AuthorityInv
  <2>4. LiveTypeOK'
    BY <1>2, <2>1, <2>3, QuietTyped, TypedParts DEF LiveSafe
  <2>5. LiveOrder'
    BY <1>2, <2>1, QuietKeeps DEF LiveSafe
  <2> QED BY <2>2, <2>4, <2>5 DEF LiveSafe
<1> QED BY <1>1, <1>2

\* Every number that the daemon gives out reaches each browser it is meant for,
\* or the browser gets to see that it did not, through every interleaving of
\* nested broadcasts, closures, handshakes and restarts
\* (daemon-projection.ts:128-370, daemon-event-stream.ts:62-109).
THEOREM LiveIsSafe == LiveSpec => []LiveSafe
BY LiveSafeInitially, LiveSafeInductive, PTL DEF LiveSpec

\* The live view keeps its shape; no more snapshot reads are under way than the
\* projection admits clients, those included whose client timed out or was lost
\* (daemon-projection.ts:114-192, 280-316).
THEOREM LiveIsTyped == LiveSpec => []LiveTypeOK
<1>1. LiveSafe => LiveTypeOK
  BY DEF LiveSafe
<1> QED BY LiveIsSafe, <1>1, PTL

\* With an empty flow and nothing owed, the browser's number is the server's.
LEMMA SafeIsCurrent == LiveSafe => CaughtUpIsCurrent
<1>1. SUFFICES ASSUME LiveSafe PROVE CaughtUpIsCurrent
  OBVIOUS
<1>2. LiveTypeOK /\ SlotsOK /\ FlowsOK /\ seq \in Nat
  BY <1>1, TypedParts DEF LiveSafe, LiveOrder
<1>3. ASSUME NEW w \in Viewers, NEW s, s = web[w].slot, s # 0,
             slot[s].phase = "ready", wire[s] = <<>>, \A d \in owed : d.to # s
      PROVE  Current(w)
  <2>1. s \in Slots /\ slot[s].who = w /\ web[w] \in Browsers
    BY <1>2, <1>3, BrowserFacts
  <2>2. s \in Connected /\ ~Left(s) /\ Browser(s) = web[w] /\ FlowOf(s) = <<>>
        /\ OwedTo(s) = {}
    BY <1>3, <2>1 DEF Connected, Left, Browser, FlowOf, Flow, OwedTo
  <2>3. FlowOK(web[w], <<>>, seq, facts, {})
    BY <1>2, <2>2 DEF FlowsOK
  <2> QED BY <1>2, <1>3, <2>1, <2>3, FlowEnds DEF Current
<1> QED BY <1>3 DEF CaughtUpIsCurrent

\* A browser that has received all that was sent and is owed shows every
\* committed fact under the server's number: between a snapshot, the events kept
\* for after it and a log line that overtakes its cause, no fact is missed for
\* good (daemon-projection.ts:128-261, daemon-event-stream.ts:62-109).
THEOREM LiveViewIsCurrent == LiveSpec => []CaughtUpIsCurrent
BY LiveIsSafe, SafeIsCurrent, PTL

\* Only three steps lengthen a wire, and each has asked about the principal.
LEMMA SendsToEntitled ==
  ASSUME LiveSafe, LiveNext, NEW s \in Slots, Len(wire'[s]) > Len(wire[s])
  PROVE  Entitled(s)
<1>1. LiveTypeOK /\ wire \in [Slots -> Seq(Envelopes)] /\ wire[s] \in Seq(Envelopes)
      /\ Len(wire[s]) \in Nat
  <2>1. LiveTypeOK /\ wire \in [Slots -> Seq(Envelopes)] /\ wire[s] \in Seq(Envelopes)
    BY TypedParts DEF LiveSafe
  <2> QED BY <2>1, LenProperties
<1>2. wire'[s] # wire[s] /\ wire'[s] # <<>>
  BY <1>1, EmptyFlow
<1>3. ASSUME NEW w \in Viewers, Receive(w) PROVE FALSE
  <2>1. web[w].slot \in Slots
    BY <1>1, <1>3, BrowserFacts DEF Receive, LiveSafe, LiveOrder
  <2>2. web[w].slot = s
    BY <1>1, <1>2, <1>3, <2>1 DEF Receive
  <2>3. wire'[s] = Tail(wire[s]) /\ wire[s] # <<>>
    BY <1>1, <1>3, <2>2 DEF Receive
  <2> QED BY <1>1, <2>3, ShorterFlow
<1>4. CASE Deliver
  <2>1. PICK d \in owed : Keep(d) \/ Overflow(d) \/ Send(d) \/ SendFails(d) \/ Skip(d)
    BY <1>4 DEF Deliver
  <2>2. Send(d)
    BY <1>2, <2>1 DEF Keep, Overflow, SendFails, Skip, CloseAndReport
  <2>3. Entitled(d.to) /\ wire' = [wire EXCEPT ![d.to] = Append(wire[d.to], d.what)]
    BY <1>2, <2>2 DEF Send
  <2>4. d.to = s
    BY <1>1, <1>2, <2>3
  <2> QED BY <2>3, <2>4
<1>5. ASSUME NEW t \in Slots, SnapshotSent(t) PROVE Entitled(s)
  <2>1. Entitled(t) /\ wire' = [wire EXCEPT ![t] = wire[t] \o Handshake(t)]
    BY <1>2, <1>5 DEF SnapshotSent, Greeted, Greet
  <2>2. t = s
    BY <1>1, <1>2, <2>1
  <2> QED BY <2>1, <2>2
<1>6. ASSUME NEW t \in Slots, HandshakeFails(t) PROVE Entitled(s)
  <2>1. Entitled(t) /\ \A u \in Slots : u # t => wire'[u] = wire[u]
    BY <1>1, <1>6 DEF HandshakeFails
  <2>2. t = s
    BY <1>2, <2>1
  <2> QED BY <2>1, <2>2
<1>7. ASSUME NEW t \in Slots, TransportClosed(t) \/ TransportLost(t) PROVE FALSE
  <2>1. wire' = [wire EXCEPT ![t] = <<>>]
    BY <1>7 DEF TransportClosed, TransportLost, Freed, Free
  <2> QED BY <1>1, <1>2, <2>1
<1>8. CASE DaemonRestart
  BY <1>2, <1>8 DEF DaemonRestart
<1>9. ASSUME NEW w \in Viewers, Connect(w) \/ ConnectFails(w) PROVE FALSE
  BY <1>2, <1>9 DEF Connect, ConnectFails, serverVars
<1>10. ASSUME NEW t \in Slots,
              \/ Upgrade(t) \/ SnapshotRead(t) \/ SnapshotFails(t)
              \/ SnapshotTimesOut(t) \/ SessionLapses(t)
       PROVE  FALSE
  BY <1>2, <1>10 DEF Upgrade, SnapshotRead, SnapshotFails, SnapshotTimesOut, SessionLapses
<1>11. CASE OrphanEnds \/ Publish \/ Revalidate \/ DaemonStart \/ RegistryWrites
  BY <1>2, <1>11 DEF OrphanEnds, Publish, Revalidate, DaemonStart, RegistryWrites, serverVars
<1> QED BY <1>3, <1>4, <1>5, <1>6, <1>7, <1>8, <1>9, <1>10, <1>11 DEF LiveNext

\* While a daemon runs and browsers come and go, a pair of client and epoch still
\* names one authority and a revoked one never returns
\* (local-control-auth.ts:130-165, 489-607).
THEOREM LiveEpochsNeverReused == LiveSpec => []EpochNamesOneAuthority
<1>1. LiveSafe => EpochNamesOneAuthority
  BY AuthorityInvSuffices DEF LiveSafe
<1> QED BY LiveIsSafe, <1>1, PTL

\* A send asks the registry first, at the upgrade, at the snapshot and at every
\* event, so nothing goes out after a revocation, however late it comes
\* (daemon-projection.ts:330-355, server.ts:788-828).
THEOREM LiveSendsToEntitled == LiveSpec => NothingToRevoked
<1>1. LiveSafe /\ [LiveNext]_liveVars =>
        [\A s \in Slots : Len(wire'[s]) > Len(wire[s]) => Entitled(s)]_liveVars
  BY SendsToEntitled
<1> QED BY LiveIsSafe, <1>1, PTL DEF LiveSpec, NothingToRevoked

\* Seen from the registry, the daemon and its browsers are nothing but the
\* writers that the registry expects: what is proved of it holds under them
\* (local-control-auth.ts:100-273).
THEOREM LiveRefinesAuthority == LiveSpec => AuthoritySpec
<1>1. LiveInit => AuthorityInit
  BY DEF LiveInit
<1>2. [LiveNext]_liveVars => [AuthorityNext]_authVars
  BY LiveStepsRegistry DEF liveVars
<1> QED BY <1>1, <1>2, PTL DEF LiveSpec, AuthoritySpec
=============================================================================
