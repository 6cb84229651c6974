----------------------------- MODULE MCRateLimit ----------------------------
(***************************************************************************)
(* One client address with two requests in flight.  The global window is   *)
(* one second and lets two requests through, the auth window two seconds   *)
(* and one request, so that either budget can be spent while the other is  *)
(* not and the two windows drift against each other.                       *)
(***************************************************************************)
EXTENDS RateLimit, TLC

CONSTANTS c1, r1, r2

MCClients == {c1}
MCRequests == {r1, r2}
MCClientOf == (r1 :> c1) @@ (r2 :> c1)
MCLimit == ("global" :> 2) @@ ("auth" :> 1)
MCWindow == ("global" :> 1) @@ ("auth" :> 2)
=============================================================================
