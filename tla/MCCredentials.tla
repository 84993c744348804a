--------------------------- MODULE MCCredentials ---------------------------
(***************************************************************************)
(* The instance of Credentials that is checked: which secret is which      *)
(* makes no difference, and no property checked here is a liveness one.    *)
(***************************************************************************)
EXTENDS Credentials, TLC

SecretSymmetry == Permutations(Secrets)

=============================================================================
