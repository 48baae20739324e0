---------------------------- MODULE MCTokenStore ----------------------------
(***************************************************************************)
(* Two channels of two users.                                              *)
(***************************************************************************)
EXTENDS TokenStore, TLC

CONSTANTS c1, c2, u1, u2

Owners == [c \in Channels |-> IF c = c1 THEN u1 ELSE u2]

\* Whole credentials of a test account; corp_app channels whose secret is left
\* blank, which an update fills with the old one, and whose app_id can or
\* cannot be parsed.
Credentials ==
    {r \in Row : \/ r.type = "test" /\ r.secret # Blank /\ r.app # Malformed
                 \/ r.type = "corp_app" /\ r.secret = Blank}

\* Requests and secrets are interchangeable, and so are the two channels
\* together with their users.
Symmetry ==
    Permutations(Requests) \cup Permutations(Secrets)
      \cup {c1 :> c2 @@ c2 :> c1 @@ u1 :> u2 @@ u2 :> u1}
============================================================================
