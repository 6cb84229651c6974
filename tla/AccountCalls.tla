---------------------------- MODULE AccountCalls ----------------------------
(***************************************************************************)
(* What clients may ask of POST /auth/register and POST /auth/login, and   *)
(* the pure functions the two use cases apply to it.  Shared by the        *)
(* detailed specification (Accounts) and the abstract one (AccountBook).   *)
(***************************************************************************)
EXTENDS Naturals

CONSTANTS
    Requests,       \* identities of HTTP requests; uuid4() of a new user is one
    RawEmails,      \* email spellings a client may type
    Emails,         \* normal forms
    NoEmail,        \* what normalisation makes of a malformed address
    Trimmed,        \* [RawEmails -> Emails \cup {NoEmail}]: strip().lower()
    Passwords,      \* plain passwords
    Acceptable,     \* those of 8 characters or more and at most 72 bytes
    First72,        \* [Passwords -> Passwords]: the first 72 bytes
    Calls           \* the calls the clients may make

ASSUME CallAssumption ==
    /\ NoEmail \notin Emails
    /\ Trimmed \in [RawEmails -> Emails \cup {NoEmail}]
    /\ Acceptable \subseteq Passwords
    /\ First72 \in [Passwords -> Passwords]
    /\ \A p \in Acceptable : First72[p] = p
    /\ Calls \subseteq [kind : {"register", "login"},
                        email : RawEmails, password : Passwords]

NormalizeEmail(c) == Trimmed[c.email]

\* The request schema: a malformed address is refused for both calls, the
\* length limits of a password for registration only.
Valid(c) ==
    /\ NormalizeEmail(c) # NoEmail
    /\ c.kind = "register" => c.password \in Acceptable

\* A row of the users table.  bcrypt is taken as collision free, so the
\* digest of a password is the bytes bcrypt reads of it.
UserRow == [id : Requests, email : Emails, digest : Passwords]

\* Mutant of NewUser: the address is stored as it was typed.
NewUserAsTyped(r, c) == [id |-> r, email |-> c.email, digest |-> c.password]

NewUser(r, c) == [id |-> r, email |-> NormalizeEmail(c), digest |-> c.password]

\* checkpw compares the first 72 bytes with the stored digest.
Verify(password, row) == First72[password] = row.digest

Registered(rows, email) == \E u \in rows : u.email = email

\* Mutant of Matches: the password is not compared.
MatchesAnyPassword(rows, c) == {u \in rows : u.email = NormalizeEmail(c)}

Matches(rows, c) ==
    {u \in rows : u.email = NormalizeEmail(c) /\ Verify(c.password, u)}
=============================================================================
