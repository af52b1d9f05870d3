--------------------------- MODULE MCCurlLifecycle ---------------------------
(* Small instances of CurlLifecycle for TLC. *)
EXTENDS CurlLifecycle, TLC

\* Requests are interchangeable.
ClientSymmetry == Permutations(Clients)

=============================================================================
