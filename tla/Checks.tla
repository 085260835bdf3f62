------------------------------ MODULE Checks ------------------------------
(***************************************************************************)
(* A verifier of the safety kernel is a list of checks, each of which      *)
(* raises (or returns a denial) with a reason of its own.  Here it is a    *)
(* sequence of pairs <<fails, reason>>.                                    *)
(***************************************************************************)
EXTENDS Naturals, Sequences

\* The reason of the first check that fails, "ok" if none does.
FirstFailure(checks) ==
    LET failing == {i \in DOMAIN checks : checks[i][1]}
    IN  IF failing = {} THEN "ok"
        ELSE checks[CHOOSE i \in failing : \A j \in failing : i <= j][2]

=============================================================================
