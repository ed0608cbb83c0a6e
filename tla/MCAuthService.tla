--------------------------- MODULE MCAuthService ---------------------------
(* A small instance of the auth service. *)
EXTENDS AuthService, TLC

(* Nothing tells requests, names or emails apart. *)
Symmetries == Permutations(Requests) \cup Permutations(Names) \cup Permutations(Emails)
=============================================================================
