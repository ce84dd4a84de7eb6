---------------------------- MODULE MCDispatchSeam ----------------------------
(***************************************************************************)
(* Small instances of DispatchSeam for TLC.                                *)
(***************************************************************************)
EXTENDS DispatchSeam, TLC

CONSTANTS s1, s2, e1, e2, d1

Capability(idempotent, maxAttempts, cancellation, reconciles, mustVerify) ==
  [idempotent |-> idempotent, maxAttempts |-> maxAttempts,
   cancellation |-> cancellation, reconciles |-> reconciles,
   mustVerify |-> mustVerify]

(* One retryable and cancellable, one that must be verified, one mute, one *)
(* that is neither retried nor cancelled but can be reconciled.            *)
Retryable == Capability(TRUE, 2, "hard", TRUE, FALSE)
Verified  == Capability(FALSE, 1, "cooperative", TRUE, TRUE)
Mute      == Capability(FALSE, 1, "none", FALSE, FALSE)
Once      == Capability(FALSE, 1, "none", TRUE, FALSE)

AllKinds == {Retryable, Verified, Mute}
OnceOnly == {Once}
MuteOnly == {Mute}

(* One step, one effect. *)
OneEffectOf == s1 :> e1
OneDeps     == s1 :> {}

(* Two steps, the second waiting for the first. *)
ChainEffectOf == s1 :> e1 @@ s2 :> e2
ChainDeps     == s1 :> {} @@ s2 :> {s1}

(* Two steps that stand for the same logical effect. *)
SharedEffectOf == s1 :> e1 @@ s2 :> e1
SharedDeps     == s1 :> {} @@ s2 :> {}
===============================================================================
