----------------------------- MODULE AccountBook ----------------------------
(***************************************************************************)
(* What the account endpoints promise their clients: every call takes      *)
(* effect at one instant between its arrival and its reply, at most once,  *)
(* and the reply tells what the accounts were at that instant.  A reply    *)
(* of 500 says nothing about whether a registration took effect.           *)
(***************************************************************************)
EXTENDS AccountCalls

VARIABLES
    accounts,   \* the accounts that exist
    calls,      \* what each request asks, fixed from the start
    status,     \* "new", "open", "settled", "replied" or "lost"
    result      \* the status code decided for a settled call, 0 before

bookVars == <<accounts, calls, status, result>>

BookInit ==
    /\ accounts = {}
    /\ calls \in [Requests -> Calls]
    /\ status = [r \in Requests |-> "new"]
    /\ result = [r \in Requests |-> 0]

Arrive(r) ==
    /\ status[r] = "new"
    /\ status' = [status EXCEPT ![r] = "open"]
    /\ UNCHANGED <<accounts, calls, result>>

Decide(r, code) ==
    /\ status[r] = "open"
    /\ status' = [status EXCEPT ![r] = "settled"]
    /\ result' = [result EXCEPT ![r] = code]
    /\ UNCHANGED calls

\* The registration takes effect; the client may learn of it or not.
Enrol(r) ==
    /\ calls[r].kind = "register" /\ Valid(calls[r])
    /\ ~Registered(accounts, NormalizeEmail(calls[r]))
    /\ accounts' = accounts \cup {NewUser(r, calls[r])}
    /\ Decide(r, 201) \/ Decide(r, 500)

\* The call is answered from the accounts as they are and changes nothing.
Consult(r) ==
    /\ LET c == calls[r] IN
        \/ c.kind = "register" /\ Registered(accounts, NormalizeEmail(c))
           /\ Decide(r, 409)
        \/ c.kind = "login" /\ Matches(accounts, c) # {} /\ Decide(r, 200)
        \/ c.kind = "login" /\ Matches(accounts, c) = {} /\ Decide(r, 401)
        \/ ~Valid(c) /\ Decide(r, 422)
        \/ Decide(r, 500)
    /\ UNCHANGED accounts

\* Undoing a refused call may fail too; the refusal is then lost.
Blur(r) ==
    /\ status[r] = "settled" /\ result[r] \in {401, 409}
    /\ result' = [result EXCEPT ![r] = 500]
    /\ UNCHANGED <<accounts, calls, status>>

Reply(r) ==
    /\ status[r] = "settled"
    /\ status' = [status EXCEPT ![r] = "replied"]
    /\ UNCHANGED <<accounts, calls, result>>

\* The process serving a set of calls dies: they never get a reply.
Lose(S) ==
    /\ \A r \in S : status[r] \in {"open", "settled"}
    /\ status' = [r \in Requests |-> IF r \in S THEN "lost" ELSE status[r]]
    /\ UNCHANGED <<accounts, calls, result>>

BookNext ==
    \/ \E r \in Requests :
          Arrive(r) \/ Enrol(r) \/ Consult(r) \/ Blur(r) \/ Reply(r)
    \/ \E S \in SUBSET Requests : Lose(S)

Book == BookInit /\ [][BookNext]_bookVars
=============================================================================
