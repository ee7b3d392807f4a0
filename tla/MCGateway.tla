----------------------------- MODULE MCGateway -----------------------------
(* Instances of the gateway.                                               *)
EXTENDS Gateway, TLC

CONSTANTS r1, r2, r3, r4, alice, c1, c2

(* One identity with two conversations at once, a streamed request in the  *)
(* first of them, and a request without identity.                          *)
Identities == r1 :> alice @@ r2 :> alice @@ r3 :> alice @@ r4 :> NoKey
Conversations == r1 :> c1 @@ r2 :> c2 @@ r3 :> c1 @@ r4 :> c2
Openings == c1 :> "first" @@ c2 :> "second"
=============================================================================
