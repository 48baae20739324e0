----------------------------- MODULE MCAccounts -----------------------------
(***************************************************************************)
(* Small instances of Accounts for TLC.                                    *)
(***************************************************************************)
EXTENDS Accounts, TLC

\* Users other than the root user, browsers and requests are interchangeable.
Symmetry ==
    Permutations(Users \ {Root}) \cup Permutations(Browsers) \cup Permutations(Requests)
=============================================================================
