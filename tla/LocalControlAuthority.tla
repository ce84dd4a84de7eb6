------------------------ MODULE LocalControlAuthority ------------------------
(***************************************************************************)
(* The credential registry of local control:                               *)
(* cli/src/daemon/local-control-auth.ts, class                             *)
(* LocalControlCredentialStore.                                            *)
(*                                                                         *)
(* One row per client holds the hash of its current secret, its scopes and *)
(* limits, whether it is revoked, an authority epoch and a credential      *)
(* generation.  A second table holds the highest epoch a client ever had.  *)
(* The database is a file that the daemon and the provisioning command     *)
(* open at once, and anything else may open it as well; its triggers are   *)
(* therefore part of the program, and RawUpdate stands for a writer that   *)
(* meets nothing but them.  Every operation is one transaction.            *)
(***************************************************************************)
EXTENDS Integers

CONSTANTS
    Principals,     \* the clients that may be provisioned
    Secrets,        \* the secrets a credential may have
    Scopes,         \* the scope sets it may be given
    Limits,         \* the entitlement limits it may be given
    Unlimited,      \* what a client without an assignment has: SQL NULL
    MaxOrdinal      \* MAX_AUTHORITY_ORDINAL

ASSUME LimitsAssumption == Unlimited \in Limits

ASSUME OrdinalAssumption == MaxOrdinal \in Nat \ {0}

VARIABLES
    row,        \* local_control_clients
    highWater,  \* local_control_authority_epochs; 0 where there is no row
    issued,     \* history: what every epoch of every client stood for
    ended       \* history: the epochs that ended in a revocation

authVars == <<row, highWater, issued, ended>>

NoRow == [none |-> TRUE]

Rows == [secret : Secrets, scopes : Scopes, limits : Limits, live : BOOLEAN,
         expired : BOOLEAN, epoch : 1 .. MaxOrdinal,
         generation : 1 .. MaxOrdinal]

Authorities == [client : Principals, epoch : 1 .. MaxOrdinal,
                scopes : Scopes, limits : Limits]

AuthorityTypeOK ==
    /\ row \in [Principals -> Rows \cup {NoRow}]
    /\ highWater \in [Principals -> 0 .. MaxOrdinal]
    /\ issued \in SUBSET Authorities
    /\ ended \in SUBSET (Principals \X (1 .. MaxOrdinal))

AuthorityOf(c, r) ==
    [client |-> c, epoch |-> r.epoch, scopes |-> r.scopes, limits |-> r.limits]

AuthorityInit ==
    /\ row = [c \in Principals |-> NoRow]
    /\ highWater = [c \in Principals |-> 0]
    /\ issued = {}
    /\ ended = {}

-----------------------------------------------------------------------------
(* The triggers of installIntegrityTriggers.  A write they raise on is     *)
(* rolled back, so what they allow is a guard of the write.                *)

SameAuthority(r, s) == r.scopes = s.scopes /\ r.limits = s.limits

\* enforce_client_authority_epoch_insert_monotonicity; also fires when the
\* insert then turns into an update.
InsertAllowed(c, r) ==
    /\ r.epoch <= highWater[c] + 1
    /\ r.epoch <= highWater[c] =>
         /\ row[c] # NoRow
         /\ row[c].live
         /\ row[c].epoch = highWater[c]
         /\ r.epoch = row[c].epoch
         /\ r.generation = row[c].generation + 1
         /\ r.secret # row[c].secret
         /\ SameAuthority(r, row[c])

\* Mutant of UpdateAllowed: a revoked row may come back under its old epoch.
UpdateAllowedReviving(c, r) ==
    LET old == row[c]
    IN /\ r.generation = IF r.secret # old.secret THEN old.generation + 1
                         ELSE old.generation
       /\ r.epoch \in {old.epoch, old.epoch + 1}
       /\ r.epoch >= highWater[c]
       /\ ~SameAuthority(r, old) => r.epoch > old.epoch
       /\ r.epoch > old.epoch => ~SameAuthority(r, old) \/ (~old.live /\ r.live)
       /\ (~old.live /\ ~r.live) => r.limits = old.limits

\* prevent_client_unauthorized_update.
UpdateAllowed(c, r) ==
    LET old == row[c]
    IN /\ r.generation = IF r.secret # old.secret THEN old.generation + 1
                         ELSE old.generation
       /\ r.epoch \in {old.epoch, old.epoch + 1}
       /\ r.epoch >= highWater[c]
       /\ ~SameAuthority(r, old) => r.epoch > old.epoch
       /\ r.epoch > old.epoch => ~SameAuthority(r, old) \/ (~old.live /\ r.live)
       /\ (~old.live /\ ~r.live) => r.limits = old.limits
       /\ (~old.live /\ r.live) => r.epoch > old.epoch /\ r.secret # old.secret

\* The row is written and the sync triggers raise the high-water mark.
Write(c, r) ==
    /\ row' = [row EXCEPT ![c] = r]
    /\ highWater' = [highWater EXCEPT ![c] = IF r.epoch > @ THEN r.epoch ELSE @]
    /\ issued' = issued \cup {AuthorityOf(c, r)}
    /\ ended' = IF row[c] # NoRow /\ row[c].live /\ ~r.live
                THEN ended \cup {<<c, row[c].epoch>>} ELSE ended

-----------------------------------------------------------------------------
(* The operations of the class *)

\* provision, no row: a fresh client starts above everything it ever had.
ProvisionNew(c, secret, scopes, limits) ==
    /\ row[c] = NoRow
    /\ highWater[c] < MaxOrdinal
    /\ LET r == [secret |-> secret, scopes |-> scopes, limits |-> limits,
                 live |-> TRUE, expired |-> FALSE,
                 epoch |-> highWater[c] + 1, generation |-> 1]
       IN InsertAllowed(c, r) /\ Write(c, r)

\* provision, existing row: always a new secret and generation; a new epoch
\* when the client comes back from a revocation or its authority changes.
\* Without explicit limits the stored ones stay, unless it was revoked.
Rotate(c, secret, scopes, explicit, limits) ==
    /\ row[c] # NoRow
    /\ secret # row[c].secret
    /\ row[c].generation < MaxOrdinal
    /\ LET old     == row[c]
           next    == IF explicit THEN limits
                      ELSE IF old.live THEN old.limits ELSE Unlimited
           changed == ~old.live \/ scopes # old.scopes \/ next # old.limits
           r == [secret |-> secret, scopes |-> scopes, limits |-> next,
                 live |-> TRUE, expired |-> FALSE,
                 epoch |-> old.epoch + (IF changed THEN 1 ELSE 0),
                 generation |-> old.generation + 1]
       IN /\ changed => old.epoch < MaxOrdinal
          /\ InsertAllowed(c, r)
          /\ UpdateAllowed(c, r)
          /\ Write(c, r)

\* setEntitlementLimits: refused for a missing or revoked client, nothing
\* when the limits are the stored ones, otherwise exactly one epoch further.
SetEntitlementLimits(c, limits) ==
    /\ row[c] # NoRow
    /\ row[c].live
    /\ limits # row[c].limits
    /\ row[c].epoch < MaxOrdinal
    /\ LET r == [row[c] EXCEPT !.limits = limits, !.epoch = @ + 1]
       IN UpdateAllowed(c, r) /\ Write(c, r)

\* revoke: nothing when the client is revoked already.
Revoke(c) ==
    /\ row[c] # NoRow
    /\ row[c].live
    /\ LET r == [row[c] EXCEPT !.live = FALSE]
       IN UpdateAllowed(c, r) /\ Write(c, r)

\* The expiry of the current credential passes.
Expire(c) ==
    /\ row[c] # NoRow
    /\ ~row[c].expired
    /\ row' = [row EXCEPT ![c].expired = TRUE]
    /\ UNCHANGED <<highWater, issued, ended>>

\* Another program updates the row, stopped by nothing but the triggers.
RawUpdate(c, r) ==
    /\ row[c] # NoRow
    /\ r # row[c]
    /\ r.expired = row[c].expired
    /\ UpdateAllowed(c, r)
    /\ Write(c, r)

\* Another program inserts a row, stopped by nothing but the triggers.
RawInsert(c, r) ==
    /\ row[c] = NoRow
    /\ InsertAllowed(c, r)
    /\ Write(c, r)

\* Another program moves a high-water mark: one further at a time, never back.
RawHighWater(c) ==
    /\ highWater[c] < MaxOrdinal
    /\ highWater' = [highWater EXCEPT ![c] = @ + 1]
    /\ UNCHANGED <<row, issued, ended>>

\* What the class does, and what the clock does to it.
RegistryStep(c) ==
    \/ \E s \in Secrets, p \in Scopes, l \in Limits :
         \/ ProvisionNew(c, s, p, l)
         \/ \E explicit \in BOOLEAN : Rotate(c, s, p, explicit, l)
    \/ \E l \in Limits : SetEntitlementLimits(c, l)
    \/ Revoke(c)
    \/ Expire(c)

\* What any other program can do.
RawStep(c) ==
    \/ RawHighWater(c)
    \/ \E r \in Rows : RawUpdate(c, r) \/ RawInsert(c, r)

AuthorityNext == \E c \in Principals : RegistryStep(c) \/ RawStep(c)

AuthoritySpec == AuthorityInit /\ [][AuthorityNext]_authVars

\* clientRow and authorizeTokenForVersion, isClientStillAuthorized: the
\* secret is the current one, unrevoked, unexpired and has the scope.
HoldsScope(c, secret, scope) ==
    /\ row[c] # NoRow
    /\ row[c].live
    /\ ~row[c].expired
    /\ row[c].secret = secret
    /\ scope \in row[c].scopes

-----------------------------------------------------------------------------

\* A grant is bound to <client, epoch>: whoever writes the registry, through
\* the class or past it, no epoch ever stands for two different authorities,
\* and an authority that a revocation ended is never in force again under the
\* epoch it had (the triggers, local-control-auth.ts:483-596, and the epochs
\* provision chooses, 127-172).
EpochNamesOneAuthority ==
    /\ \A a, b \in issued :
         a.client = b.client /\ a.epoch = b.epoch => a = b
    /\ \A c \in Principals :
         row[c] # NoRow /\ row[c].live => <<c, row[c].epoch>> \notin ended

=============================================================================
