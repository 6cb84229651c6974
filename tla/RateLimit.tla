------------------------------ MODULE RateLimit -----------------------------
(***************************************************************************)
(* The Redis fixed-window limiter and the two scopes the routers stack in  *)
(* front of the endpoints: every v1 route but health passes "global", the  *)
(* auth routes pass "auth" after it.  One counter per scope and client     *)
(* address, shared by all workers.  Time is discrete: TicksPerSecond ticks *)
(* make a second.                                                          *)
(***************************************************************************)
EXTENDS Naturals

CONSTANTS
    Clients,        \* client addresses
    Requests,       \* slots, each used by one request of its client at a time
    ClientOf,       \* [Requests -> Clients]
    Limit,          \* [Scopes -> Nat]: rate_limit_global, rate_limit_auth_per_minute;
                    \* not validated, one below 0 acts like 0
    Window,         \* [Scopes -> Nat]: window lengths in seconds, not validated: 0
                    \* is legal, and one below 0 acts like it
    TicksPerSecond,
    MaxCount        \* bound: higher counts are not told apart from this one

Scopes == {"global", "auth"}

ASSUME LimitAssumption ==
    /\ ClientOf \in [Requests -> Clients]
    /\ Limit \in [Scopes -> Nat]
    /\ Window \in [Scopes -> Nat]
    /\ TicksPerSecond \in Nat \ {0}
    /\ MaxCount \in Nat
    /\ \A s \in Scopes : Limit[s] < MaxCount

Keys == Scopes \X Clients       \* rl:{scope}:{client address}

VARIABLES
    count,      \* the counter of each key, 0 when Redis has no such key
    ttl,        \* ticks until a key expires, 0 when it has no expiry
    pc,         \* the scope a request is to pass next, or what became of it
    route,      \* the kind of route a request goes to
    due,        \* ticks a refused client is still asked to wait (Retry-After)
    resetIn,    \* history: ticks until the window that refused it is over
    watch       \* history: an observer that counts the requests one key lets
                \* through, for the length of a window

vars == <<count, ttl, pc, route, due, resetIn, watch>>

Ticks(s) == Window[s] * TicksPerSecond

TypeOK ==
    /\ count \in [Keys -> Nat]
    /\ ttl \in [Keys -> Nat]
    /\ pc \in [Requests -> Scopes \cup {"idle", "served", "refused"}]
    /\ route \in [Requests -> {"auth", "other", "health"}]
    /\ due \in [Requests -> Nat]
    /\ resetIn \in [Requests -> Nat]
    /\ watch \in [key : Keys, left : Nat, seen : Nat]

Init ==
    /\ count = [k \in Keys |-> 0]
    /\ ttl = [k \in Keys |-> 0]
    /\ pc = [r \in Requests |-> "idle"]
    /\ route = [r \in Requests |-> "other"]
    /\ due = [r \in Requests |-> 0]
    /\ resetIn = [r \in Requests |-> 0]
    /\ watch \in [key : Keys, left : {0}, seen : {0}]

-----------------------------------------------------------------------------
\* Mutants of Expiring: the script stops after INCR; every hit pushes the
\* expiry back.
ExpiringLost(k) == ttl
ExpiringAgain(k) == [ttl EXCEPT ![k] = Ticks(k[1])]

\* The Lua script: INCR, EXPIRE when the counter was created, all at once.  An
\* empty window: EXPIRE deletes the key.
Counted(k) ==
    [count EXCEPT ![k] = IF Ticks(k[1]) > 0 /\ @ < MaxCount THEN @ + 1 ELSE @]
Expiring(k) == IF count[k] = 0 THEN [ttl EXCEPT ![k] = Ticks(k[1])] ELSE ttl

\* Mutant of WithinLimit: the count before the hit is compared.
WithinLimitLate(k) == count[k] <= Limit[k[1]]

\* current <= limit, where current is the count after this hit.
WithinLimit(k) == count[k] + 1 <= Limit[k[1]]

\* Redis' TTL rounds to the nearest second, hit() makes that at least 1.
NearestSecond(t) == (2 * t + TicksPerSecond) \div (2 * TicksPerSecond)
AtLeastOne(n) == IF n = 0 THEN 1 ELSE n

\* Mutant of RetryAfter: RateLimitedError always has its default.
RetryAfterDefault(t) == 1

RetryAfter(t) == AtLeastOne(NearestSecond(t))

\* The observer of a key counts the requests it lets through while watching.
Idle == [watch EXCEPT !.left = 0, !.seen = 0]
Seen(k) == IF watch.left > 0 /\ watch.key = k THEN [watch EXCEPT !.seen = @ + 1]
                                              ELSE watch

\* A request enters the application.
Arrive(r) ==
    /\ pc[r] \in {"idle", "served", "refused"}
    /\ \E kind \in {"auth", "other", "health"} :
        /\ route' = [route EXCEPT ![r] = kind]
        /\ pc' = [pc EXCEPT ![r] = IF kind = "health" THEN "served" ELSE "global"]
    /\ due' = [due EXCEPT ![r] = 0]
    /\ resetIn' = [resetIn EXCEPT ![r] = 0]
    /\ UNCHANGED <<count, ttl, watch>>

\* Mutant of Onward: a route's own name is the scope of its second limiter.
OnwardByRoute(r, s) == IF s = "global" THEN route[r] ELSE "served"

\* Where a request goes that passes scope s.
Onward(r, s) == IF s = "global" /\ route[r] = "auth" THEN "auth" ELSE "served"

Pass(r, s) ==
    /\ pc' = [pc EXCEPT ![r] = Onward(r, s)]
    /\ UNCHANGED <<route, due, resetIn>>

\* rate_limit's dependency: hit() counts the request and decides.
Admit(r) == \E s \in Scopes :
    LET k == <<s, ClientOf[r]>> IN
    /\ pc[r] = s /\ WithinLimit(k)
    /\ count' = Counted(k) /\ ttl' = Expiring(k)
    /\ watch' = Seen(k)
    /\ Pass(r, s)

Refuse(r) == \E s \in Scopes :
    LET k == <<s, ClientOf[r]>> IN
    /\ pc[r] = s /\ ~WithinLimit(k)
    /\ count' = Counted(k) /\ ttl' = Expiring(k)
    /\ pc' = [pc EXCEPT ![r] = "refused"]
    /\ due' = [due EXCEPT ![r] = RetryAfter(ttl'[k]) * TicksPerSecond]
    /\ resetIn' = [resetIn EXCEPT ![r] = ttl'[k]]
    /\ UNCHANGED <<route, watch>>

\* hit() raises and fails open; Redis may have run the script before that.
FailOpen(r) == \E s \in Scopes :
    LET k == <<s, ClientOf[r]>> IN
    /\ pc[r] = s
    /\ \/ count' = Counted(k) /\ ttl' = Expiring(k)
       \/ UNCHANGED <<count, ttl>>
    /\ UNCHANGED watch
    /\ Pass(r, s)

-----------------------------------------------------------------------------
Less(n) == IF n = 0 THEN 0 ELSE n - 1

\* One tick: a key whose time is over is gone.
Tick ==
    /\ ttl' = [k \in Keys |-> Less(ttl[k])]
    /\ count' = [k \in Keys |-> IF ttl[k] = 1 THEN 0 ELSE count[k]]
    /\ due' = [r \in Requests |-> Less(due[r])]
    /\ resetIn' = [r \in Requests |-> Less(resetIn[r])]
    /\ watch' = IF watch.left > 1 THEN [watch EXCEPT !.left = @ - 1] ELSE Idle
    /\ UNCHANGED <<pc, route>>

\* Redis restarts with no keys (the compose file gives it no volume).
RedisRestart ==
    /\ count' = [k \in Keys |-> 0]
    /\ ttl' = [k \in Keys |-> 0]
    /\ resetIn' = [r \in Requests |-> 0]
    /\ watch' = Idle
    /\ UNCHANGED <<pc, route, due>>

\* The observer begins to watch its key, at any moment.
Observe ==
    /\ watch.left = 0
    /\ watch' = [watch EXCEPT !.left = Ticks(watch.key[1])]
    /\ UNCHANGED <<count, ttl, pc, route, due, resetIn>>

Next ==
    \/ \E r \in Requests : Arrive(r) \/ Admit(r) \/ Refuse(r) \/ FailOpen(r)
    \/ Tick \/ RedisRestart \/ Observe

\* Time passes, and requests under way get their decision.
Fairness ==
    /\ WF_vars(Tick)
    /\ \A r \in Requests : WF_vars(Admit(r) \/ Refuse(r))

Spec == Init /\ [][Next]_vars /\ Fairness

-----------------------------------------------------------------------------
\* A counter never outlives its window: every key Redis holds expires, no
\* later than one window from now (the script is atomic, hit counts do not
\* push the expiry back).
NoImmortalKey ==
    \A k \in Keys : count[k] > 0 => ttl[k] \in 1 .. Ticks(k[1])

\* Over any stretch of time as long as the window, wherever it begins, a
\* scope lets a client through at most twice its limit (and not limit times
\* the requests): the price of a fixed window, not counting fail-open.
AtMostTwiceLimit == watch.seen <= 2 * Limit[watch.key[1]]

\* A client that waits for Retry-After seconds finds the window that refused
\* it over, or less than half a second away.
RetryAfterIsClose ==
    \A r \in Requests :
        pc[r] = "refused" /\ due[r] = 0 => 2 * resetIn[r] < TicksPerSecond

\* r passes scope s in this step.
Passes(r, s) == pc[r] = s /\ pc'[r] = Onward(r, s)

\* A client address that goes on asking goes on being let through, by each of
\* the scopes it comes to: what it is refused does not prolong the window.
NeverLockedOut ==
    \A k \in Keys : Limit[k[1]] > 0 =>
        LET mine == {r \in Requests : ClientOf[r] = k[2]} IN
        []<>(\E r \in mine : pc[r] = k[1])
            => []<><<\E r \in mine : Passes(r, k[1])>>_vars

\* What the documentation of the port says of retry_after: "seconds until the
\* window resets".  A client that has waited that long is not refused by the
\* same window again.
RetryAfterIsReset ==
    \A r \in Requests : pc[r] = "refused" /\ due[r] = 0 => resetIn[r] = 0

\* What README.md says of the two scopes, that running out of either budget
\* does not affect the other: an auth request beyond the auth budget leaves
\* the global budget alone, and one within the auth budget is not refused.
BudgetsAreIndependent ==
    [][\A r \in Requests :
         LET global == <<"global", ClientOf[r]>>
             auth == <<"auth", ClientOf[r]>> IN
         route[r] = "auth" /\ pc[r] = "global" =>
            /\ count[auth] >= Limit["auth"] /\ ttl[global] # 1
                  => count'[global] = count[global]
            /\ count[auth] < Limit["auth"] => pc'[r] # "refused"]_vars
=============================================================================
