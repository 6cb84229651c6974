----------------------------- MODULE MCAccounts -----------------------------
(***************************************************************************)
(* Three requests on two workers.  "ANN" and "ann" are two spellings of    *)
(* one address; "longlong" stands for a password whose first 72 bytes are  *)
(* "long" (so it can log in where "long" was registered, but cannot be     *)
(* registered itself).  One connection per worker: a second request of a   *)
(* worker meets an exhausted pool.                                         *)
(***************************************************************************)
EXTENDS Accounts, TLC

CONSTANTS r1, r2, r3, w1, w2

MCRequests == {r1, r2, r3}
MCWorkers == {w1, w2}
MCWorkerOf == (r1 :> w1) @@ (r2 :> w1) @@ (r3 :> w2)
MCRawEmails == {"ANN", "ann", "nobody"}
MCEmails == {"ann"}
MCTrimmed == [e \in MCRawEmails |-> IF e = "nobody" THEN NoEmail ELSE "ann"]
MCPasswords == {"long", "longlong", "other"}
MCAcceptable == {"long", "other"}
MCFirst72 == [p \in MCPasswords |-> IF p = "longlong" THEN "long" ELSE p]
Ask(k, e, p) == [kind |-> k, email |-> e, password |-> p]
MCCalls ==
    {Ask("register", "ann", "long"), Ask("register", "ANN", "other"),
     Ask("register", "ann", "longlong"),
     Ask("login", "ANN", "longlong"), Ask("login", "nobody", "long")}
=============================================================================
