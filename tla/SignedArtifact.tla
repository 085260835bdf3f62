-------------------------- MODULE SignedArtifact --------------------------
(***************************************************************************)
(* What the verifiers of the signed governance artifacts have in common    *)
(* (session tokens, delegation receipts, reviewer decisions, step-up       *)
(* attestations): a shape, a validity window that is read with a clock     *)
(* skew, an issuer key and a signature.                                    *)
(*                                                                         *)
(* An artifact is a record with at least iat, nbf, exp (seconds) and       *)
(* `genuine`: its fields are well formed, the issuer lookup knows its key  *)
(* and the signature verifies under it.  None of these depends on the      *)
(* clock or on other state.                                                *)
(***************************************************************************)
EXTENDS Integers

\* The window is in order and not longer than maxTtl.
WellFormedWindow(a, maxTtl) ==
    /\ a.iat <= a.nbf /\ a.nbf <= a.exp
    /\ a.exp - a.nbf <= maxTtl

\* The artifact is current at time t.
Current(a, t, skew) == a.nbf <= t + skew /\ t - skew <= a.exp

=============================================================================
