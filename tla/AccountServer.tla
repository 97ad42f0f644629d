---------------------------- MODULE AccountServer ----------------------------
(***************************************************************************)
(* The account API of the rendezvous server (apps/rendezvous): accounts,   *)
(* devices, their bearer tokens, console sessions, passkeys and tickets.   *)
(*                                                                         *)
(* A handler is a task that awaits each SQL statement, so its statements   *)
(* interleave with every other handler's; SQLite runs one at a time.  One  *)
(* that reads, and then writes what nobody else's step can spoil, is a     *)
(* single action.  What lives in memory (throttle, permits, tickets,       *)
(* ceremonies) dies with the process.  A session or token is presented     *)
(* only by whoever it was returned to; a password sent along with another  *)
(* request is a login before it.  Names, keys, roles, clocks, hashes and   *)
(* the permits they take are left out.                                     *)
(***************************************************************************)
EXTENDS Naturals

CONSTANTS
    Users,         \* accounts, each with the person who knows its password
    Devices,       \* device ids: machines, each with the key behind its id
    Requests,      \* bound: the requests of a behaviour, in order of arrival
    RowIds,        \* bound: row ids of the devices table, 1..n
    NoOne,
    FreeAttempts,  \* FREE_ATTEMPTS
    OperatorToken, \* whether RMD_RZ_BOOTSTRAP_TOKEN is set
    OpenAtFirst,   \* allow_open_registration, the seed of the setting
    MayRestart     \* whether the server may restart, once

ASSUME AccountAssumption ==
    /\ RowIds \subseteq Nat /\ Requests \subseteq Nat
    /\ NoOne \notin Users
    /\ FreeAttempts \in Nat
    /\ OperatorToken \in BOOLEAN /\ OpenAtFirst \in BOOLEAN /\ MayRestart \in BOOLEAN

VARIABLES
    \* the database
    users,      \* usernames
    open,       \* the open_registration setting
    rows,       \* devices: [pk, owner, dev]
    tokens,     \* device_tokens: [of, dev, pk], returned to request `of` of machine `dev`
    sessions,   \* user_sessions: [by, user], returned to `by`
    passkeys,   \* webauthn_credentials: [by, user], on the authenticator of `by`
    \* memory
    fails,      \* LoginThrottle: failures by user, capped once it is armed
    locked,     \* users under a lockout
    tickets,    \* TicketStore: [of, user, dev], dev = NoOne for a viewer's
    ceremonies, \* ChallengeStore: [of, user, keys], keys = {} when enrolling
    \* the handlers
    req,
    restarted,
    opened      \* history: registration has been open

database == <<users, open, rows, tokens, sessions, passkeys>>
memory   == <<fails, locked, tickets, ceremonies>>
vars     == <<database, memory, req, restarted, opened>>

\* by: who sends it; as: the account it names; dev: the device it is about; pk,
\* allowed (effective_open, or that the user exists), bootstrap (allow_bootstrap):
\* locals of the handler.
Unused ==
    [kind |-> "none", at |-> "idle", by |-> NoOne, as |-> NoOne, dev |-> NoOne,
     pk |-> 0, allowed |-> FALSE, bootstrap |-> FALSE]

Final == {"idle", "done", "refused", "cut"}

\* A server just installed, or one in use by people who are signed in.
Init ==
    /\ users \in {{}, Users}
    /\ open = OpenAtFirst
    /\ opened = (OpenAtFirst \/ users # {})
    /\ sessions = {[by |-> u, user |-> u] : u \in users}
    /\ passkeys = sessions
    /\ rows = {} /\ tokens = {}
    /\ fails = [u \in Users |-> 0] /\ locked = {}
    /\ tickets = {} /\ ceremonies = {}
    /\ req = [r \in Requests |-> Unused]
    /\ restarted = FALSE

-----------------------------------------------------------------------------

Goes(r, from, to) ==
    /\ req[r].at = from
    /\ req' = [req EXCEPT ![r].at = to]

\* An answered request keeps what the properties ask for.
Refused == [Unused EXCEPT !.at = "refused"]

Answer(r, from, granted) ==
    /\ req[r].at = from
    /\ req' = [req EXCEPT ![r] =
                 IF granted THEN [@ EXCEPT !.at = "done", !.allowed = FALSE] ELSE Refused]

Free(r) == req[r].at = "idle" /\ \A q \in Requests : q < r => req[q].at # "idle"

\* A request comes in; `first` is where its handler starts.
Arrive(r, kind, by, as, dev, first) ==
    /\ Free(r)
    /\ req' = [req EXCEPT ![r] =
                 [kind |-> kind, at |-> first, by |-> by, as |-> as, dev |-> dev,
                  pk |-> 0, allowed |-> FALSE, bootstrap |-> FALSE]]
    /\ UNCHANGED <<database, memory, restarted, opened>>

AnswerAtOnce(r, kind, granted) ==
    /\ Free(r)
    /\ req' = [req EXCEPT ![r] =
                 IF granted THEN [Unused EXCEPT !.kind = kind, !.at = "done"] ELSE Refused]

-----------------------------------------------------------------------------
(* login and authenticate_user                                              *)

\* LoginThrottle.check, then the row of the user, if there is one.
CheckThrottle(r) ==
    /\ req[r].at = "password"
    /\ IF req[r].as \in locked
         THEN Answer(r, "password", FALSE)
         ELSE req' = [req EXCEPT ![r].at = "argon2", ![r].allowed = req[r].as \in users]
    /\ UNCHANGED <<database, memory, restarted, opened>>

Right(r) == req[r].allowed /\ req[r].by = req[r].as

Verify(r) ==
    LET u == req[r].as IN
    /\ IF Right(r) THEN Goes(r, "argon2", "mint") ELSE Answer(r, "argon2", FALSE)
    /\ IF Right(r)
         THEN fails' = [fails EXCEPT ![u] = 0] /\ locked' = locked \ {u}
         ELSE /\ fails' = [fails EXCEPT ![u] = IF @ > FreeAttempts THEN @ ELSE @ + 1]
              /\ locked' = IF fails[u] >= FreeAttempts THEN locked \cup {u} ELSE locked
    /\ UNCHANGED <<database, tickets, ceremonies, restarted, opened>>

LockoutEnds(u) ==
    /\ u \in locked
    /\ locked' = locked \ {u}
    /\ UNCHANGED <<database, fails, tickets, ceremonies, req, restarted, opened>>

LoginRequest(r) ==
    \E by, as \in Users : Arrive(r, "login", by, as, NoOne, "password")

MintSession(r) ==
    /\ Answer(r, "mint", TRUE)
    /\ sessions' = sessions \cup {[by |-> req[r].by, user |-> req[r].as]}
    /\ UNCHANGED <<users, open, rows, tokens, passkeys, memory, restarted, opened>>

SessionExpires ==
    \E s \in sessions :
        /\ sessions' = sessions \ {s}
        /\ UNCHANGED <<users, open, rows, tokens, passkeys, memory, req, restarted, opened>>

-----------------------------------------------------------------------------
(* register_user and set_registration                                       *)

RegisterRequest(r) ==
    \E as \in Users : Arrive(r, "register", as, as, NoOne, "decide")

\* What it may do is settled by the setting as it is now, before the password is
\* hashed; the sender may know the operator's token.
Decide(r) ==
    \E operator \in {FALSE, OperatorToken} :
        /\ req[r].at = "decide"
        /\ LET allowed   == open \/ operator
               bootstrap == operator \/ ~OperatorToken
           IN  IF allowed \/ bootstrap
                 THEN req' = [req EXCEPT ![r].allowed = allowed, ![r].bootstrap = bootstrap,
                                         ![r].at = "insert"]
                 ELSE Answer(r, "decide", FALSE)
        /\ UNCHANGED <<database, memory, restarted, opened>>

\* create_user_if_allowed: a single statement.
MayInsertMutant(r) == req[r].allowed \/ req[r].bootstrap   \* mutant: no COUNT(*) in it
MayInsert(r) == req[r].allowed \/ (req[r].bootstrap /\ users = {})

InsertUser(r) ==
    /\ Answer(r, "insert", MayInsert(r) /\ req[r].as \notin users)
    /\ users' = IF MayInsert(r) THEN users \cup {req[r].as} ELSE users
    /\ UNCHANGED <<open, rows, tokens, sessions, passkeys, memory, restarted, opened>>

SetRegistration ==
    \E enabled \in BOOLEAN :
        /\ open' = enabled
        /\ opened' = (opened \/ enabled)
        /\ UNCHANGED <<users, rows, tokens, sessions, passkeys, memory, req, restarted>>

-----------------------------------------------------------------------------
(* register_device, refresh_token, delete_device                            *)

Row(dev) == {d \in rows : d.dev = dev}

\* INTEGER PRIMARY KEY without AUTOINCREMENT: one more than the largest in use.
NewRowId(n) ==
    /\ n \in RowIds
    /\ \A d \in rows : d.pk < n
    /\ n = 1 \/ \E d \in rows : d.pk = n - 1

\* authed_user: the account of the sender's session.
DeviceRequest(r) ==
    \E s \in sessions, dev \in Devices : Arrive(r, "device", s.by, s.user, dev, "device")

\* Find the device; that of another account is a conflict.  (The UPDATE of its name
\* and key changes nothing modelled here.)
FindDevice(r) ==
    /\ req[r].at = "device"
    /\ \/ /\ Row(req[r].dev) = {}
          /\ Goes(r, "device", "create")
       \/ \E d \in Row(req[r].dev) :
            IF d.owner = req[r].as
              THEN req' = [req EXCEPT ![r].pk = d.pk, ![r].at = "clear"]
              ELSE Answer(r, "device", FALSE)
    /\ UNCHANGED <<database, memory, restarted, opened>>

\* Two that both found none: the second INSERT violates UNIQUE.
CreateDevice(r) ==
    /\ req[r].at = "create"
    /\ IF Row(req[r].dev) = {}
         THEN \E n \in RowIds :
                /\ NewRowId(n)
                /\ rows' = rows \cup {[pk |-> n, owner |-> req[r].as, dev |-> req[r].dev]}
                /\ req' = [req EXCEPT ![r].pk = n, ![r].at = "clear"]
         ELSE Answer(r, "create", FALSE) /\ UNCHANGED rows
    /\ UNCHANGED <<users, open, tokens, sessions, passkeys, memory, restarted, opened>>

\* A refresh is signed with the device's own key; the device must be registered.
RefreshRequest(r) ==
    \E dev \in Devices : Arrive(r, "refresh", NoOne, NoOne, dev, "refresh")

FindForRefresh(r) ==
    /\ req[r].at = "refresh"
    /\ \/ Row(req[r].dev) = {} /\ Answer(r, "refresh", FALSE)
       \/ \E d \in Row(req[r].dev) : req' = [req EXCEPT ![r].pk = d.pk, ![r].at = "clear"]
    /\ UNCHANGED <<database, memory, restarted, opened>>

\* issue_device_token: a DELETE, and then an INSERT, which fails when the device
\* has been deleted meanwhile (FOREIGN KEY).
ClearTokens(r) ==
    /\ Goes(r, "clear", "issue")
    /\ tokens' = {t \in tokens : t.pk # req[r].pk}
    /\ UNCHANGED <<users, open, rows, sessions, passkeys, memory, restarted, opened>>

IssueTokenMutant(r) ==   \* mutant: the new token is deleted with the old ones
    /\ Goes(r, "issue", "done")
    /\ tokens' = {t \in tokens : t.pk # req[r].pk}
    /\ UNCHANGED <<users, open, rows, sessions, passkeys, memory, restarted, opened>>
IssueToken(r) ==
    LET registered == \E d \in rows : d.pk = req[r].pk IN
    /\ Answer(r, "issue", registered)
    /\ tokens' = IF registered THEN tokens \cup {[of |-> r, dev |-> req[r].dev, pk |-> req[r].pk]} ELSE tokens
    /\ UNCHANGED <<users, open, rows, sessions, passkeys, memory, restarted, opened>>

\* The tokens go with the device (ON DELETE CASCADE); its open sockets do not.
DeleteDevice(r) ==
    /\ \E s \in sessions, dev \in Devices :
          LET gone == {d \in Row(dev) : d.owner = s.user} IN
          /\ AnswerAtOnce(r, "delete", gone # {})
          /\ rows' = rows \ gone
          /\ tokens' = {t \in tokens : \A d \in gone : t.pk # d.pk}
    /\ UNCHANGED <<users, open, sessions, passkeys, memory, restarted, opened>>

-----------------------------------------------------------------------------
(* ws_ticket, and ws_handler's redeem.                                      *)

\* A session gives a viewer's ticket; a token, one in the name of the device it
\* resolves to.
TicketBySession(r) ==
    /\ \E s \in sessions :
          /\ AnswerAtOnce(r, "ticket", TRUE)
          /\ tickets' = tickets \cup {[of |-> r, user |-> s.user, dev |-> NoOne]}
    /\ UNCHANGED <<database, fails, locked, ceremonies, restarted, opened>>

TicketByToken(r) ==
    /\ \E t \in tokens, d \in rows :
          /\ t.pk = d.pk
          /\ AnswerAtOnce(r, "ticket", TRUE)
          /\ tickets' = tickets \cup {[of |-> r, user |-> d.owner, dev |-> d.dev]}
    /\ UNCHANGED <<database, fails, locked, ceremonies, restarted, opened>>

\* Redeemed or expired, a ticket is gone.
RedeemTicket(r) ==
    /\ \E t \in tickets :
          /\ AnswerAtOnce(r, "socket", TRUE)
          /\ tickets' = tickets \ {t}
    /\ UNCHANGED <<database, fails, locked, ceremonies, restarted, opened>>

-----------------------------------------------------------------------------
(* Passkeys (webauthn.rs).  A ceremony's id may be presented by anyone, and   *)
(* is spent by that.                                                        *)

RegisterStart(r) ==
    /\ \E s \in sessions :
          /\ AnswerAtOnce(r, "enrol", TRUE)
          /\ ceremonies' = ceremonies \cup {[of |-> r, user |-> s.user, keys |-> {}]}
    /\ UNCHANGED <<database, fails, locked, tickets, restarted, opened>>

OwnCeremonyMutant(c, s) == TRUE   \* mutant: whoever's ceremony it was
OwnCeremony(c, s) == c.user = s.user

RegisterFinish(r) ==
    /\ \E s \in sessions, c \in ceremonies :
          /\ c.keys = {}
          /\ ceremonies' = ceremonies \ {c}
          /\ AnswerAtOnce(r, "enrolled", OwnCeremony(c, s))
          /\ passkeys' = IF OwnCeremony(c, s)
                           THEN passkeys \cup {[by |-> s.by, user |-> c.user]} ELSE passkeys
    /\ UNCHANGED <<users, open, rows, tokens, sessions, fails, locked, tickets,
                   restarted, opened>>

\* Nobody is signed in for these two.  The second verifies an assertion against the
\* passkeys of the start, deleted since or not, and mints a session.
LoginStart(r) ==
    /\ \E u \in users :
          LET keys == {p \in passkeys : p.user = u} IN
          /\ AnswerAtOnce(r, "assert", keys # {})
          /\ ceremonies' = IF keys = {} THEN ceremonies
                             ELSE ceremonies \cup {[of |-> r, user |-> u, keys |-> keys]}
    /\ UNCHANGED <<database, fails, locked, tickets, restarted, opened>>

LoginFinish(r) ==
    /\ \E by \in Users, c \in ceremonies :
          LET verified == \E p \in c.keys : p.by = by IN
          /\ c.keys # {}
          /\ ceremonies' = ceremonies \ {c}
          /\ AnswerAtOnce(r, "asserted", verified)
          /\ sessions' = IF verified THEN sessions \cup {[by |-> by, user |-> c.user]}
                                     ELSE sessions
    /\ UNCHANGED <<users, open, rows, tokens, passkeys, fails, locked, tickets,
                   restarted, opened>>

DeleteCredential(r) ==
    /\ \E s \in sessions, p \in passkeys :
          /\ AnswerAtOnce(r, "forget", p.user = s.user)
          /\ passkeys' = IF p.user = s.user THEN passkeys \ {p} ELSE passkeys
    /\ UNCHANGED <<users, open, rows, tokens, sessions, memory, restarted, opened>>

-----------------------------------------------------------------------------

\* The process ends, and its successor starts with an empty memory.
Restart ==
    /\ MayRestart /\ ~restarted
    /\ restarted' = TRUE
    /\ req' = [r \in Requests |->
                 IF req[r].at \in Final THEN req[r] ELSE [req[r] EXCEPT !.at = "cut"]]
    /\ fails' = [u \in Users |-> 0] /\ locked' = {}
    /\ tickets' = {} /\ ceremonies' = {}
    /\ UNCHANGED <<database, opened>>

Arrival(r) ==
    \/ LoginRequest(r) \/ RegisterRequest(r) \/ DeviceRequest(r) \/ RefreshRequest(r)

AtOnce(r) ==
    \/ DeleteDevice(r)
    \/ TicketBySession(r) \/ TicketByToken(r) \/ RedeemTicket(r)
    \/ RegisterStart(r) \/ RegisterFinish(r) \/ DeleteCredential(r)
    \/ LoginStart(r) \/ LoginFinish(r)

Step(r) ==
    \/ CheckThrottle(r) \/ Verify(r) \/ MintSession(r)
    \/ Decide(r) \/ InsertUser(r)
    \/ FindDevice(r) \/ CreateDevice(r) \/ FindForRefresh(r)
    \/ ClearTokens(r) \/ IssueToken(r)

Next ==
    \/ \E r \in Requests : Arrival(r) \/ AtOnce(r) \/ Step(r)
    \/ (\E u \in Users : LockoutEnds(u)) \/ SessionExpires
    \/ SetRegistration \/ Restart

Spec == Init /\ [][Next]_vars

-----------------------------------------------------------------------------

\* A closed server takes one account for free, and none when an operator's token is
\* set, however many first registrations race (register_user, H4).
OneFreeAccount ==
    ~opened =>
        \A q, r \in Requests :
            req[q].kind = "register" /\ req[q].at = "done"
              /\ req[r].kind = "register" /\ req[r].at = "done"
            => q = r \/ (OperatorToken /\ req[q].bootstrap /\ req[r].bootstrap)

\* What signs in to an account was obtained by the person who knows its password,
\* over every chain of password, session, ceremony and passkey.
HeldByTheirOwner ==
    \A c \in sessions \cup passkeys : c.by = c.user

\* A registered device is left with a token that works, however registrations,
\* refreshes and deletions race: each DELETE is followed by an INSERT, unless the
\* server stopped between them.
RotationLeavesAToken ==
    \A d \in rows :
        \/ \E t \in tokens : t.pk = d.pk
        \/ \E r \in Requests : req[r].pk = d.pk /\ req[r].at \in {"clear", "issue", "cut"}

\* A token works for the device it was returned to, "so an attacker can't refresh
\* some other device's token with their own key" (api.rs:336).  It may not: a refresh
\* looks the row id up, the device is deleted, its id given to the next, and the
\* tokens of that one rotated.
TokenIsItsDevices ==
    \A t \in tokens, d \in rows : t.pk = d.pk => t.dev = d.dev

\* "Invalidate the device's prior tokens so they can't accumulate" (api.rs:259): two
\* rotations that interleave leave both tokens.
AtMostOneToken ==
    \A s, t \in tokens : s.pk = t.pk => s = t
=============================================================================
