------------------------- MODULE AccountServer_proofs -------------------------
(***************************************************************************)
(* For every set of accounts, devices and requests, with or without an     *)
(* operator's token, restarts included: a closed server takes one account  *)
(* for free, what signs in to an account was obtained by its owner, and a  *)
(* registered device is left with a token.                                 *)
(*                                                                         *)
(* Each of the three holds of the database only with what goes with it in  *)
(* the handlers and in memory: where a request stands says what it may     *)
(* still write.                                                            *)
(***************************************************************************)
EXTENDS AccountServer, TLAPS

Kinds ==
    {"none", "login", "register", "device", "refresh", "delete", "ticket", "socket",
     "enrol", "enrolled", "assert", "asserted", "forget"}

LoginSteps    == {"password", "argon2", "mint"}
RegisterSteps == {"decide", "insert"}
DeviceSteps   == {"device", "create"}
RotateSteps   == {"clear", "issue"}
Steps         == LoginSteps \cup RegisterSteps \cup DeviceSteps \cup {"refresh"} \cup RotateSteps

Key == [by : Users, user : Users]

Request ==
    [kind : Kinds, at : Steps \cup Final, by : Users \cup {NoOne}, as : Users \cup {NoOne},
     dev : Devices \cup {NoOne}, pk : RowIds \cup {0}, allowed : BOOLEAN, bootstrap : BOOLEAN]

\* Where a request stands says which handler it is in, and what that handler knows.
HandlerOK(q) ==
    /\ q.at \in LoginSteps => q.kind = "login" /\ q.by \in Users /\ q.as \in Users
    /\ q.at \in RegisterSteps => q.kind = "register" /\ q.as \in Users
    /\ q.at \in DeviceSteps => q.kind = "device" /\ q.as \in Users /\ q.dev \in Devices
    /\ q.at = "refresh" => q.kind = "refresh" /\ q.dev \in Devices
    /\ q.at \in RotateSteps => q.kind \in {"device", "refresh"} /\ q.dev \in Devices

TypeOK ==
    /\ users \subseteq Users
    /\ open \in BOOLEAN /\ opened \in BOOLEAN /\ restarted \in BOOLEAN
    /\ rows \subseteq [pk : RowIds, owner : Users, dev : Devices]
    /\ tokens \subseteq [of : Requests, dev : Devices, pk : RowIds]
    /\ sessions \subseteq Key /\ passkeys \subseteq Key
    /\ fails \in [Users -> Nat] /\ locked \subseteq Users
    /\ tickets \subseteq [of : Requests, user : Users, dev : Devices \cup {NoOne}]
    /\ ceremonies \subseteq [of : Requests, user : Users, keys : SUBSET Key]
    /\ req \in [Requests -> Request]
    /\ \A r \in Requests : HandlerOK(req[r])

-----------------------------------------------------------------------------
(* What the operators that move a request do to it.                         *)

USE DEF Kinds, LoginSteps, RegisterSteps, DeviceSteps, RotateSteps, Steps, Final

LEMMA GoesMoves ==
  ASSUME req \in [Requests -> Request], NEW r \in Requests, NEW from, NEW to \in Steps \cup Final,
         Goes(r, from, to)
  PROVE  /\ req[r].at = from
         /\ req' \in [Requests -> Request]
         /\ req'[r] = [req[r] EXCEPT !.at = to]
         /\ \A q \in Requests : q # r => req'[q] = req[q]
  BY SMTT(60) DEF Goes, Request

\* A request answered keeps its fields; one refused loses them.
LEMMA AnswerMoves ==
  ASSUME req \in [Requests -> Request], NEW r \in Requests, NEW from,
         NEW granted \in BOOLEAN, Answer(r, from, granted)
  PROVE  /\ req[r].at = from
         /\ req' \in [Requests -> Request]
         /\ granted => /\ req'[r].at = "done" /\ req'[r].kind = req[r].kind
                       /\ req'[r].pk = req[r].pk /\ req'[r].bootstrap = req[r].bootstrap
         /\ ~granted => req'[r].at = "refused" /\ req'[r].kind = "none"
         /\ \A q \in Requests : q # r => req'[q] = req[q]
<1> DEFINE answered == [req[r] EXCEPT !.at = "done", !.allowed = FALSE]
<1>1. /\ answered \in Request
      /\ answered.at = "done" /\ answered.kind = req[r].kind
      /\ answered.pk = req[r].pk /\ answered.bootstrap = req[r].bootstrap
  BY ZenonT(60) DEF Request
<1>2. Refused \in Request /\ Refused.at = "refused" /\ Refused.kind = "none"
  BY DEF Request, Refused, Unused
<1>3. req[r].at = from /\ req' = [req EXCEPT ![r] = IF granted THEN answered ELSE Refused]
  BY DEF Answer
<1> HIDE DEF answered
<1> QED
  BY <1>1, <1>2, <1>3

\* Registration is decided.
LEMMA DecideMoves ==
  ASSUME req \in [Requests -> Request], NEW r \in Requests,
         NEW allowed \in BOOLEAN, NEW bootstrap \in BOOLEAN,
         req' = [req EXCEPT ![r].allowed = allowed, ![r].bootstrap = bootstrap,
                            ![r].at = "insert"]
  PROVE  /\ req' \in [Requests -> Request]
         /\ req'[r].at = "insert" /\ req'[r].kind = req[r].kind /\ req'[r].as = req[r].as
         /\ req'[r].allowed = allowed /\ req'[r].bootstrap = bootstrap
         /\ \A q \in Requests : q # r => req'[q] = req[q]
<1>1. "insert" \in Steps
  OBVIOUS
<1> HIDE DEF Kinds, Steps, Final
<1> QED
  BY <1>1, ZenonT(60) DEF Request

\* The row of the device is known.
LEMMA FoundMoves ==
  ASSUME req \in [Requests -> Request], NEW r \in Requests, NEW n \in RowIds,
         req' = [req EXCEPT ![r].pk = n, ![r].at = "clear"]
  PROVE  /\ req' \in [Requests -> Request]
         /\ req'[r].at = "clear" /\ req'[r].pk = n
         /\ req'[r].kind = req[r].kind /\ req'[r].dev = req[r].dev
         /\ \A q \in Requests : q # r => req'[q] = req[q]
<1>1. "clear" \in Steps
  OBVIOUS
<1> HIDE DEF Kinds, Steps, Final
<1> QED
  BY <1>1, ZenonT(60) DEF Request

\* A request that arrives was idle, and has not found anything yet.
LEMMA ArriveMoves ==
  ASSUME req \in [Requests -> Request], NEW r \in Requests,
         NEW kind \in Kinds, NEW by \in Users \cup {NoOne}, NEW as \in Users \cup {NoOne},
         NEW dev \in Devices \cup {NoOne}, NEW first \in Steps,
         Arrive(r, kind, by, as, dev, first)
  PROVE  /\ req[r].at = "idle"
         /\ req' \in [Requests -> Request]
         /\ req'[r].kind = kind /\ req'[r].at = first /\ req'[r].by = by
         /\ req'[r].as = as /\ req'[r].dev = dev
         /\ \A q \in Requests : q # r => req'[q] = req[q]
         /\ UNCHANGED <<database, memory, restarted, opened>>
<1> HIDE DEF Kinds, Steps, Final
<1> DEFINE arrived == [kind |-> kind, at |-> first, by |-> by, as |-> as, dev |-> dev,
                       pk |-> 0, allowed |-> FALSE, bootstrap |-> FALSE]
<1>1. /\ arrived \in Request
      /\ arrived.kind = kind /\ arrived.at = first /\ arrived.by = by
      /\ arrived.as = as /\ arrived.dev = dev
  BY DEF Request
<1>2. req' = [req EXCEPT ![r] = arrived]
  BY DEF Arrive
<1>3. req[r].at = "idle" /\ UNCHANGED <<database, memory, restarted, opened>>
  BY DEF Arrive, Free
<1> HIDE DEF arrived
<1> QED
  BY <1>1, <1>2, <1>3

\* A handler that is a single action leaves an answer and nothing else.
LEMMA AtOnceMoves ==
  ASSUME req \in [Requests -> Request], NEW r \in Requests,
         NEW kind \in Kinds, NEW granted \in BOOLEAN, AnswerAtOnce(r, kind, granted)
  PROVE  /\ req[r].at = "idle"
         /\ req' \in [Requests -> Request]
         /\ req'[r].at \in {"done", "refused"}
         /\ req'[r].kind \in {kind, "none"}
         /\ \A q \in Requests : q # r => req'[q] = req[q]
<1> DEFINE answered == [Unused EXCEPT !.kind = kind, !.at = "done"]
<1>1. answered \in Request /\ answered.at = "done" /\ answered.kind = kind
  BY DEF Request, Unused
<1>2. Refused \in Request /\ Refused.at = "refused" /\ Refused.kind = "none"
  BY DEF Request, Refused, Unused
<1>3. req' = [req EXCEPT ![r] = IF granted THEN answered ELSE Refused]
  BY DEF AnswerAtOnce
<1> HIDE DEF answered
<1> QED
  BY <1>1, <1>2, <1>3 DEF AnswerAtOnce, Free

-----------------------------------------------------------------------------
(* Type correctness.                                                        *)

LEMMA TypeInit == Init => TypeOK
<1> SUFFICES ASSUME Init PROVE TypeOK
  OBVIOUS
<1>1. Unused \in Request /\ HandlerOK(Unused)
  BY DEF Unused, Request, HandlerOK
<1>2. users \subseteq Users /\ sessions \subseteq Key /\ passkeys \subseteq Key
  BY DEF Init, Key
<1> QED
  BY <1>1, <1>2, AccountAssumption DEF Init, TypeOK

\* Whatever request arrives, its handler has what it needs.
LEMMA ArrivalMoves ==
  ASSUME TypeOK, NEW r \in Requests, Arrival(r)
  PROVE  /\ req[r].at = "idle"
         /\ req' \in [Requests -> Request]
         /\ req'[r].at \in {"password", "decide", "device", "refresh"}
         /\ HandlerOK(req'[r])
         /\ \A q \in Requests : q # r => req'[q] = req[q]
         /\ UNCHANGED <<database, memory, restarted, opened>>
<1> PICK kind \in Kinds, by \in Users \cup {NoOne}, as \in Users \cup {NoOne},
         dev \in Devices \cup {NoOne}, first \in Steps :
      /\ Arrive(r, kind, by, as, dev, first)
      /\ \/ kind = "login" /\ first = "password" /\ by \in Users /\ as \in Users
         \/ kind = "register" /\ first = "decide" /\ as \in Users
         \/ kind = "device" /\ first = "device" /\ as \in Users /\ dev \in Devices
         \/ kind = "refresh" /\ first = "refresh" /\ dev \in Devices
  <2>1. CASE LoginRequest(r)
    BY <2>1 DEF LoginRequest
  <2>2. CASE RegisterRequest(r)
    BY <2>2 DEF RegisterRequest
  <2>3. CASE DeviceRequest(r)
    BY <2>3 DEF DeviceRequest, TypeOK, Key
  <2>4. CASE RefreshRequest(r)
    BY <2>4 DEF RefreshRequest
  <2> QED
    BY <2>1, <2>2, <2>3, <2>4 DEF Arrival
<1>1. /\ req[r].at = "idle"
      /\ req' \in [Requests -> Request]
      /\ req'[r].kind = kind /\ req'[r].at = first /\ req'[r].by = by
      /\ req'[r].as = as /\ req'[r].dev = dev
      /\ \A q \in Requests : q # r => req'[q] = req[q]
      /\ UNCHANGED <<database, memory, restarted, opened>>
  BY ArriveMoves DEF TypeOK
<1> QED
  BY <1>1 DEF HandlerOK

\* A handler that is one action answers, and touches neither accounts nor lockouts.
LEMMA AtOnceAnswers ==
  ASSUME TypeOK, NEW r \in Requests, AtOnce(r)
  PROVE  /\ req[r].at = "idle"
         /\ req' \in [Requests -> Request]
         /\ req'[r].at \in {"done", "refused"} /\ req'[r].kind # "register"
         /\ \A q \in Requests : q # r => req'[q] = req[q]
         /\ UNCHANGED <<users, open, opened, fails, locked, restarted>>
<1>1. PICK kind \in Kinds \ {"register"}, granted \in BOOLEAN : AnswerAtOnce(r, kind, granted)
  <2>1. CASE DeleteDevice(r)
    BY <2>1 DEF DeleteDevice
  <2>2. CASE TicketBySession(r)
    BY <2>2 DEF TicketBySession
  <2>3. CASE TicketByToken(r)
    BY <2>3 DEF TicketByToken
  <2>4. CASE RedeemTicket(r)
    BY <2>4 DEF RedeemTicket
  <2>5. CASE RegisterStart(r)
    BY <2>5 DEF RegisterStart
  <2>6. CASE RegisterFinish(r)
    BY <2>6 DEF RegisterFinish, OwnCeremony
  <2>7. CASE DeleteCredential(r)
    BY <2>7 DEF DeleteCredential
  <2>8. CASE LoginStart(r)
    BY <2>8 DEF LoginStart
  <2>9. CASE LoginFinish(r)
    BY <2>9 DEF LoginFinish
  <2> QED
    BY <2>1, <2>2, <2>3, <2>4, <2>5, <2>6, <2>7, <2>8, <2>9 DEF AtOnce
<1>2. UNCHANGED <<users, open, opened, fails, locked, restarted>>
  BY DEF AtOnce, DeleteDevice, TicketBySession, TicketByToken, RedeemTicket, RegisterStart,
     RegisterFinish, DeleteCredential, LoginStart, LoginFinish, database, memory
<1>3. /\ req[r].at = "idle"
      /\ req' \in [Requests -> Request]
      /\ req'[r].at \in {"done", "refused"} /\ req'[r].kind \in {kind, "none"}
      /\ \A q \in Requests : q # r => req'[q] = req[q]
  BY <1>1, AtOnceMoves DEF TypeOK
<1> QED
  BY <1>2, <1>3

LEMMA TypeAtOnce ==
  ASSUME TypeOK, NEW r \in Requests, AtOnce(r)
  PROVE  TypeOK'
<1>1. /\ req' \in [Requests -> Request]
      /\ \A q \in Requests : HandlerOK(req[q])'
      /\ UNCHANGED <<users, open, opened, fails, locked, restarted>>
  BY AtOnceAnswers DEF TypeOK, HandlerOK
<1>2. /\ rows' \subseteq rows /\ tokens' \subseteq tokens
      /\ passkeys' \subseteq Key /\ sessions' \subseteq Key
      /\ tickets' \subseteq [of : Requests, user : Users, dev : Devices \cup {NoOne}]
      /\ ceremonies' \subseteq [of : Requests, user : Users, keys : SUBSET Key]
  <2> USE DEF TypeOK, database, memory
  <2>1. CASE DeleteDevice(r)
    BY <2>1 DEF DeleteDevice
  <2>2. CASE TicketBySession(r)
    BY <2>2 DEF TicketBySession, Key
  <2>3. CASE TicketByToken(r)
    BY <2>3 DEF TicketByToken
  <2>4. CASE RedeemTicket(r)
    BY <2>4 DEF RedeemTicket
  <2>5. CASE RegisterStart(r)
    BY <2>5 DEF RegisterStart, Key
  <2>6. CASE RegisterFinish(r)
    BY <2>6 DEF RegisterFinish, Key
  <2>7. CASE DeleteCredential(r)
    BY <2>7 DEF DeleteCredential
  <2>8. CASE LoginStart(r)
    BY <2>8 DEF LoginStart
  <2>9. CASE LoginFinish(r)
    BY <2>9 DEF LoginFinish, Key
  <2> QED
    BY <2>1, <2>2, <2>3, <2>4, <2>5, <2>6, <2>7, <2>8, <2>9 DEF AtOnce
<1> QED
  BY <1>1, <1>2 DEF TypeOK

\* A handler goes on from where it stood, with what it knew: only Verify leads to
\* minting a session, and only the two steps of a registration leave one.
LEMMA StepMoves ==
  ASSUME TypeOK, NEW r \in Requests, Step(r)
  PROVE  /\ req' \in [Requests -> Request]
         /\ HandlerOK(req'[r])
         /\ req'[r].at = "mint" => Verify(r)
         /\ req'[r].kind = "register" => Decide(r) \/ InsertUser(r)
         /\ \A q \in Requests : q # r => req'[q] = req[q]
<1> USE DEF TypeOK, HandlerOK
<1>1. CASE CheckThrottle(r)
  <2>1. CASE req[r].as \in locked
    BY <1>1, <2>1, AnswerMoves DEF CheckThrottle
  <2>2. CASE req[r].as \notin locked
    BY <1>1, <2>2 DEF CheckThrottle, Request
  <2> QED
    BY <2>1, <2>2
<1>2. CASE Verify(r)
  <2>1. CASE Goes(r, "argon2", "mint")
    <3>1. /\ req[r].at = "argon2" /\ req' \in [Requests -> Request]
          /\ req'[r] = [req[r] EXCEPT !.at = "mint"]
          /\ \A q \in Requests : q # r => req'[q] = req[q]
      BY <2>1, GoesMoves, ZenonT(60)
    <3> QED
      BY <1>2, <3>1 DEF Request
  <2>2. CASE Answer(r, "argon2", FALSE)
    BY <2>2, AnswerMoves
  <2> QED
    BY <1>2, <2>1, <2>2 DEF Verify
<1>3. CASE MintSession(r)
  BY <1>3, AnswerMoves DEF MintSession
<1>4. CASE Decide(r)
  <2> PICK operator \in {FALSE, OperatorToken} :
        LET allowed   == open \/ operator
            bootstrap == operator \/ ~OperatorToken
        IN  /\ req[r].at = "decide"
            /\ IF allowed \/ bootstrap
                 THEN req' = [req EXCEPT ![r].allowed = allowed, ![r].bootstrap = bootstrap,
                                         ![r].at = "insert"]
                 ELSE Answer(r, "decide", FALSE)
    BY <1>4 DEF Decide
  <2>1. CASE Answer(r, "decide", FALSE)
    BY <2>1, AnswerMoves
  <2>2. ASSUME NEW allowed \in BOOLEAN, NEW bootstrap \in BOOLEAN, req[r].at = "decide",
               req' = [req EXCEPT ![r].allowed = allowed, ![r].bootstrap = bootstrap,
                                  ![r].at = "insert"]
        PROVE  /\ req' \in [Requests -> Request]
               /\ HandlerOK(req'[r]) /\ req'[r].at = "insert"
               /\ \A q \in Requests : q # r => req'[q] = req[q]
    BY <2>2, DecideMoves, ZenonT(60)
  <2>3. (open \/ operator) \in BOOLEAN /\ (operator \/ ~OperatorToken) \in BOOLEAN
    BY AccountAssumption
  <2> QED
    BY <1>4, <2>1, <2>2, <2>3
<1>5. CASE InsertUser(r)
  <2> DEFINE granted == MayInsert(r) /\ req[r].as \notin users
  <2>1. granted \in BOOLEAN /\ Answer(r, "insert", granted)
    BY <1>5 DEF InsertUser, MayInsert, Request
  <2> HIDE DEF granted
  <2> QED
    BY <1>5, <2>1, AnswerMoves
<1>6. CASE FindDevice(r)
  <2>1. CASE Goes(r, "device", "create")
    <3>1. /\ req[r].at = "device" /\ req' \in [Requests -> Request]
          /\ req'[r] = [req[r] EXCEPT !.at = "create"]
          /\ \A q \in Requests : q # r => req'[q] = req[q]
      BY <2>1, GoesMoves, ZenonT(60)
    <3> QED
      BY <3>1 DEF Request
  <2>2. CASE Answer(r, "device", FALSE)
    BY <2>2, AnswerMoves
  <2>3. CASE \E d \in rows : req' = [req EXCEPT ![r].pk = d.pk, ![r].at = "clear"]
    BY <1>6, <2>3, FoundMoves DEF FindDevice
  <2> QED
    BY <1>6, <2>1, <2>2, <2>3 DEF FindDevice, Row
<1>7. CASE CreateDevice(r)
  <2>1. CASE Answer(r, "create", FALSE)
    BY <2>1, AnswerMoves
  <2>2. CASE \E n \in RowIds : req' = [req EXCEPT ![r].pk = n, ![r].at = "clear"]
    BY <1>7, <2>2, FoundMoves DEF CreateDevice
  <2> QED
    BY <1>7, <2>1, <2>2 DEF CreateDevice
<1>8. CASE FindForRefresh(r)
  <2>1. CASE Answer(r, "refresh", FALSE)
    BY <2>1, AnswerMoves
  <2>2. CASE \E d \in rows : req' = [req EXCEPT ![r].pk = d.pk, ![r].at = "clear"]
    BY <1>8, <2>2, FoundMoves DEF FindForRefresh
  <2> QED
    BY <1>8, <2>1, <2>2 DEF FindForRefresh, Row
<1>9. CASE ClearTokens(r)
  <2>1. /\ req[r].at = "clear" /\ req' \in [Requests -> Request]
        /\ req'[r] = [req[r] EXCEPT !.at = "issue"]
        /\ \A q \in Requests : q # r => req'[q] = req[q]
    BY <1>9, GoesMoves, ZenonT(60) DEF ClearTokens
  <2> QED
    BY <2>1 DEF Request
<1>10. CASE IssueToken(r)
  BY <1>10, AnswerMoves DEF IssueToken
<1> QED
  BY <1>1, <1>2, <1>3, <1>4, <1>5, <1>6, <1>7, <1>8, <1>9, <1>10 DEF Step

LEMMA TypeStep ==
  ASSUME TypeOK, NEW r \in Requests, Step(r)
  PROVE  TypeOK'
<1>1. /\ req' \in [Requests -> Request]
      /\ \A q \in Requests : HandlerOK(req[q])'
  BY StepMoves DEF TypeOK, HandlerOK
<1>2. /\ users' \subseteq Users /\ sessions' \subseteq Key
      /\ rows' \subseteq [pk : RowIds, owner : Users, dev : Devices]
      /\ tokens' \subseteq [of : Requests, dev : Devices, pk : RowIds]
      /\ fails' \in [Users -> Nat] /\ locked' \subseteq Users
      /\ UNCHANGED <<open, opened, passkeys, tickets, ceremonies, restarted>>
  <2> USE DEF TypeOK, HandlerOK, database, memory
  <2>1. CASE CheckThrottle(r)
    BY <2>1 DEF CheckThrottle
  <2>2. CASE Verify(r)
    <3>1. req[r].as \in Users
      BY <2>2 DEF Verify, Goes, Answer
    <3> QED
      BY <2>2, <3>1 DEF Verify
  <2>3. CASE MintSession(r)
    BY <2>3 DEF MintSession, Answer, Key
  <2>4. CASE Decide(r)
    BY <2>4 DEF Decide
  <2>5. CASE InsertUser(r)
    BY <2>5 DEF InsertUser, Answer
  <2>6. CASE FindDevice(r)
    BY <2>6 DEF FindDevice
  <2>7. CASE CreateDevice(r)
    <3>1. req[r].at = "create" /\ req[r].as \in Users /\ req[r].dev \in Devices
      BY <2>7 DEF CreateDevice
    <3>2. CASE UNCHANGED rows
      BY <2>7, <3>2 DEF CreateDevice
    <3>3. CASE \E n \in RowIds :
                  rows' = rows \cup {[pk |-> n, owner |-> req[r].as, dev |-> req[r].dev]}
      BY <2>7, <3>1, <3>3 DEF CreateDevice
    <3> QED
      BY <2>7, <3>2, <3>3 DEF CreateDevice
  <2>8. CASE FindForRefresh(r)
    BY <2>8 DEF FindForRefresh
  <2>9. CASE ClearTokens(r)
    BY <2>9 DEF ClearTokens
  <2>10. CASE IssueToken(r)
    <3>1. req[r].dev \in Devices
      BY <2>10 DEF IssueToken, Answer
    <3> QED
      BY <2>10, <3>1 DEF IssueToken
  <2> QED
    BY <2>1, <2>2, <2>3, <2>4, <2>5, <2>6, <2>7, <2>8, <2>9, <2>10 DEF Step
<1> QED
  BY <1>1, <1>2 DEF TypeOK

\* What is left of a request when the process ends.
LEMMA RestartCuts ==
  ASSUME TypeOK, Restart
  PROVE  /\ req' \in [Requests -> Request]
         /\ \A q \in Requests :
              /\ req[q].at \in Final => req'[q] = req[q]
              /\ req[q].at \notin Final =>
                   req'[q].at = "cut" /\ req'[q].kind = req[q].kind /\ req'[q].pk = req[q].pk
<1>1. \A q \in Requests : [req[q] EXCEPT !.at = "cut"] \in Request
  BY DEF TypeOK, Request
<1> QED
  BY <1>1 DEF TypeOK, Restart, Request

LEMMA TypeNext == TypeOK /\ [Next]_vars => TypeOK'
<1> SUFFICES ASSUME TypeOK, [Next]_vars PROVE TypeOK'
  OBVIOUS
<1>1. ASSUME NEW r \in Requests, Arrival(r)
      PROVE  TypeOK'
  BY <1>1, ArrivalMoves DEF TypeOK, HandlerOK, database, memory
<1>2. ASSUME NEW r \in Requests, AtOnce(r)
      PROVE  TypeOK'
  BY <1>2, TypeAtOnce
<1>3. ASSUME NEW r \in Requests, Step(r)
      PROVE  TypeOK'
  BY <1>3, TypeStep
<1>4. ASSUME NEW u \in Users, LockoutEnds(u)
      PROVE  TypeOK'
  BY <1>4 DEF LockoutEnds, TypeOK, HandlerOK, database
<1>5. CASE SessionExpires
  BY <1>5 DEF SessionExpires, TypeOK, HandlerOK, memory
<1>6. CASE SetRegistration
  BY <1>6 DEF SetRegistration, TypeOK, HandlerOK, memory
<1>7. CASE Restart
  <2>1. /\ req' \in [Requests -> Request]
        /\ \A q \in Requests : HandlerOK(req[q])'
    BY <1>7, RestartCuts DEF TypeOK, HandlerOK
  <2> QED
    BY <1>7, <2>1 DEF Restart, TypeOK, database
<1>8. CASE UNCHANGED vars
  BY <1>8 DEF vars, database, memory, TypeOK, HandlerOK
<1> QED
  BY <1>1, <1>2, <1>3, <1>4, <1>5, <1>6, <1>7, <1>8 DEF Next

\* Every column and every local keeps to its type; a request stands where its
\* handler can stand, and has there the account and the device it goes on with.
THEOREM TypeCorrect == Spec => []TypeOK
  BY TypeInit, TypeNext, PTL DEF Spec

-----------------------------------------------------------------------------
(* What each property needs beside itself.                                  *)

\* The passkeys a login ceremony goes by are of its account's owner, and a session
\* is minted only after the right password.
Owned ==
    /\ HeldByTheirOwner
    /\ \A c \in ceremonies : \A p \in c.keys : p.by = c.user
    /\ \A r \in Requests : req[r].at = "mint" => req[r].by = req[r].as

\* While the server has been closed: who may insert holds the operator's token, if
\* there is one; and once a first registration has gone through, there is a user.
Closed ==
    /\ open => opened
    /\ ~opened => \A r \in Requests : req[r].kind = "register" =>
          /\ req[r].at = "insert" => /\ req[r].allowed => OperatorToken
                                     /\ OperatorToken => req[r].bootstrap
          /\ req[r].at = "done" => IF OperatorToken THEN req[r].bootstrap ELSE users # {}
    /\ OneFreeAccount

\* A row id is the primary key: deleting one device takes no other's tokens.
Rotated ==
    /\ \A d, e \in rows : d.pk = e.pk => d = e
    /\ RotationLeavesAToken

-----------------------------------------------------------------------------
(* Sessions and passkeys.                                                   *)

LEMMA OwnedAtOnce ==
  ASSUME TypeOK, Owned, NEW r \in Requests, AtOnce(r)
  PROVE  Owned'
<1> USE DEF Owned, HeldByTheirOwner
<1>1. \A q \in Requests : req'[q].at = "mint" => req'[q].by = req'[q].as
  BY AtOnceAnswers
<1>2. /\ \A c \in sessions' \cup passkeys' : c.by = c.user
      /\ \A c \in ceremonies' : \A p \in c.keys : p.by = c.user
  <2> USE DEF database, memory
  <2>1. CASE DeleteDevice(r)
    BY <2>1 DEF DeleteDevice
  <2>2. CASE TicketBySession(r)
    BY <2>2 DEF TicketBySession
  <2>3. CASE TicketByToken(r)
    BY <2>3 DEF TicketByToken
  <2>4. CASE RedeemTicket(r)
    BY <2>4 DEF RedeemTicket
  <2>5. CASE RegisterStart(r)
    BY <2>5 DEF RegisterStart
  <2>6. CASE RegisterFinish(r)
    BY <2>6 DEF RegisterFinish, OwnCeremony
  <2>7. CASE DeleteCredential(r)
    BY <2>7 DEF DeleteCredential
  <2>8. CASE LoginStart(r)
    BY <2>8 DEF LoginStart
  <2>9. CASE LoginFinish(r)
    BY <2>9 DEF LoginFinish
  <2> QED
    BY <2>1, <2>2, <2>3, <2>4, <2>5, <2>6, <2>7, <2>8, <2>9 DEF AtOnce
<1> QED
  BY <1>1, <1>2

LEMMA OwnedStep ==
  ASSUME TypeOK, Owned, NEW r \in Requests, Step(r)
  PROVE  Owned'
<1> USE DEF TypeOK, Owned, HeldByTheirOwner
<1>1. CASE MintSession(r)
  <2>1. /\ req[r].at = "mint" /\ req'[r].at = "done"
        /\ \A q \in Requests : q # r => req'[q] = req[q]
    BY <1>1, AnswerMoves DEF MintSession
  <2> QED
    BY <1>1, <2>1 DEF MintSession, memory
<1>2. CASE Verify(r)
  <2>1. UNCHANGED <<sessions, passkeys, ceremonies>>
    BY <1>2 DEF Verify, database
  <2>2. CASE Right(r)
    <3>1. /\ req'[r] = [req[r] EXCEPT !.at = "mint"]
          /\ \A q \in Requests : q # r => req'[q] = req[q]
      BY <1>2, <2>2 DEF Verify, Goes, Request
    <3> QED
      BY <2>1, <2>2, <3>1 DEF Right, Request
  <2>3. CASE ~Right(r)
    <3>1. /\ req'[r].at = "refused"
          /\ \A q \in Requests : q # r => req'[q] = req[q]
      BY <1>2, <2>3, AnswerMoves DEF Verify
    <3> QED
      BY <2>1, <3>1
  <2> QED
    BY <2>2, <2>3
<1>3. CASE ~MintSession(r) /\ ~Verify(r)
  <2>1. UNCHANGED <<sessions, passkeys, ceremonies>>
    BY <1>3 DEF Step, CheckThrottle, Decide, InsertUser, FindDevice, CreateDevice,
       FindForRefresh, ClearTokens, IssueToken, database, memory
  <2>2. req'[r].at # "mint"
    BY <1>3, StepMoves
  <2> QED
    BY <2>1, <2>2, StepMoves
<1> QED
  BY <1>1, <1>2, <1>3

LEMMA OwnedNext == TypeOK /\ Owned /\ [Next]_vars => Owned'
<1> SUFFICES ASSUME TypeOK, Owned, [Next]_vars PROVE Owned'
  OBVIOUS
<1> USE DEF Owned, HeldByTheirOwner
<1>1. ASSUME NEW r \in Requests, Arrival(r)
      PROVE  Owned'
  BY <1>1, ArrivalMoves DEF database, memory
<1>2. ASSUME NEW r \in Requests, AtOnce(r)
      PROVE  Owned'
  BY <1>2, OwnedAtOnce
<1>3. ASSUME NEW r \in Requests, Step(r)
      PROVE  Owned'
  BY <1>3, OwnedStep
<1>4. ASSUME NEW u \in Users, LockoutEnds(u)
      PROVE  Owned'
  BY <1>4 DEF LockoutEnds, database
<1>5. CASE SessionExpires
  BY <1>5 DEF SessionExpires, memory
<1>6. CASE SetRegistration
  BY <1>6 DEF SetRegistration, memory
<1>7. CASE Restart
  BY <1>7, RestartCuts DEF Restart, database
<1>8. CASE UNCHANGED vars
  BY <1>8 DEF vars, database, memory
<1> QED
  BY <1>1, <1>2, <1>3, <1>4, <1>5, <1>6, <1>7, <1>8 DEF Next

\* However passwords, sessions, passkeys and ceremonies of several people and
\* several restarts follow one another: what signs in to an account was obtained by
\* whoever knows its password (login, webauthn.rs).
THEOREM AccountsKeepToTheirOwners == Spec => []HeldByTheirOwner
<1>1. Init => Owned
  BY DEF Init, Owned, HeldByTheirOwner, Unused
<1>2. Owned => HeldByTheirOwner
  BY DEF Owned
<1> QED
  BY <1>1, <1>2, OwnedNext, TypeCorrect, PTL DEF Spec

-----------------------------------------------------------------------------
(* Accounts.                                                                *)

\* The setting is read as it is; the operator's token is what it was at the start.
LEMMA ClosedDecide ==
  ASSUME TypeOK, Closed, NEW r \in Requests, Decide(r)
  PROVE  Closed'
<1>1. UNCHANGED <<users, open, opened>>
  BY DEF Decide, database
<1>2. PICK operator \in {FALSE, OperatorToken} :
        LET allowed   == open \/ operator
            bootstrap == operator \/ ~OperatorToken
        IN  /\ req[r].at = "decide"
            /\ IF allowed \/ bootstrap
                 THEN req' = [req EXCEPT ![r].allowed = allowed, ![r].bootstrap = bootstrap,
                                         ![r].at = "insert"]
                 ELSE Answer(r, "decide", FALSE)
  BY DEF Decide
<1>3. CASE Answer(r, "decide", FALSE)
  <2>1. /\ req'[r].at = "refused"
        /\ \A q \in Requests : q # r => req'[q] = req[q]
    BY <1>3, AnswerMoves DEF TypeOK
  <2> QED
    BY <1>1, <2>1 DEF Closed, OneFreeAccount
<1>4. CASE ~Answer(r, "decide", FALSE)
  <2>1. ASSUME NEW allowed \in BOOLEAN, NEW bootstrap \in BOOLEAN,
               ~opened => (allowed => OperatorToken) /\ (OperatorToken => bootstrap),
               req' = [req EXCEPT ![r].allowed = allowed, ![r].bootstrap = bootstrap,
                                  ![r].at = "insert"]
        PROVE  Closed'
    <3>1. /\ req'[r].at = "insert"
          /\ req'[r].allowed = allowed /\ req'[r].bootstrap = bootstrap
          /\ \A q \in Requests : q # r => req'[q] = req[q]
      BY <2>1, DecideMoves DEF TypeOK
    <3> QED
      BY <1>1, <2>1, <3>1, ZenonT(60) DEF Closed, OneFreeAccount
  <2>2. (open \/ operator) \in BOOLEAN /\ (operator \/ ~OperatorToken) \in BOOLEAN
    BY AccountAssumption
  <2>3. (open \/ operator) \/ (operator \/ ~OperatorToken)
    BY <1>2, <1>4
  <2>4. ~opened => (open \/ operator => OperatorToken)
    BY AccountAssumption DEF Closed
  <2>5. ~opened => (OperatorToken => operator \/ ~OperatorToken)
    BY <2>3 DEF Closed
  <2> QED
    BY <1>2, <1>4, <2>1, <2>2, <2>4, <2>5
<1> QED
  BY <1>3, <1>4

\* The statement counts the users: without an operator's token the second one fails.
LEMMA ClosedInsert ==
  ASSUME TypeOK, Closed, NEW r \in Requests, InsertUser(r)
  PROVE  Closed'
<1> USE DEF TypeOK, HandlerOK, Closed, OneFreeAccount
<1> DEFINE granted == MayInsert(r) /\ req[r].as \notin users
<1>1. /\ granted \in BOOLEAN /\ Answer(r, "insert", granted)
      /\ UNCHANGED <<open, opened>> /\ users \subseteq users'
      /\ granted => users' # {}
  BY DEF InsertUser, MayInsert, Request, memory
<1>2. granted => req[r].allowed \/ users = {}
  BY DEF MayInsert
<1> HIDE DEF granted
<1>3. /\ req[r].at = "insert" /\ req[r].kind = "register"
      /\ granted => /\ req'[r].at = "done" /\ req'[r].kind = "register"
                    /\ req'[r].bootstrap = req[r].bootstrap
      /\ ~granted => req'[r].at = "refused"
      /\ \A q \in Requests : q # r => req'[q] = req[q]
  BY <1>1, AnswerMoves
<1>4. CASE ~granted
  BY <1>1, <1>3, <1>4
<1>5. CASE granted
  <2>1. CASE OperatorToken
    BY <1>1, <1>3, <1>5, <2>1
  <2>2. CASE ~OperatorToken
    <3>1. ~opened => users = {}
      BY <1>2, <1>3, <1>5, <2>2
    <3>2. ~opened => \A q \in Requests : req[q].kind = "register" => req[q].at # "done"
      BY <2>2, <3>1
    <3> QED
      BY <1>1, <1>3, <1>5, <2>2, <3>2
  <2> QED
    BY <2>1, <2>2
<1> QED
  BY <1>1, <1>4, <1>5

LEMMA ClosedNext == TypeOK /\ Closed /\ [Next]_vars => Closed'
<1> SUFFICES ASSUME TypeOK, Closed, [Next]_vars PROVE Closed'
  OBVIOUS
<1> USE DEF Closed, OneFreeAccount
<1>1. ASSUME NEW r \in Requests, Arrival(r)
      PROVE  Closed'
  BY <1>1, ArrivalMoves DEF database
<1>2. ASSUME NEW r \in Requests, AtOnce(r)
      PROVE  Closed'
  BY <1>2, AtOnceAnswers
<1>3. ASSUME NEW r \in Requests, Step(r)
      PROVE  Closed'
  <2>1. CASE Decide(r) \/ InsertUser(r)
    BY <2>1, ClosedDecide, ClosedInsert
  <2>2. CASE ~Decide(r) /\ ~InsertUser(r)
    <3>1. UNCHANGED <<users, open, opened>>
      BY <1>3, <2>2 DEF Step, CheckThrottle, Verify, MintSession, FindDevice, CreateDevice,
         FindForRefresh, ClearTokens, IssueToken, database
    <3> QED
      BY <1>3, <2>2, <3>1, StepMoves
  <2> QED
    BY <2>1, <2>2
<1>4. ASSUME NEW u \in Users, LockoutEnds(u)
      PROVE  Closed'
  BY <1>4 DEF LockoutEnds, database
<1>5. CASE SessionExpires
  BY <1>5 DEF SessionExpires
<1>6. CASE SetRegistration
  <2>1. (open' => opened') /\ (opened => opened') /\ UNCHANGED <<users, req>>
    BY <1>6 DEF SetRegistration, TypeOK
  <2> QED
    BY <2>1
<1>7. CASE Restart
  BY <1>7, RestartCuts DEF Restart, database
<1>8. CASE UNCHANGED vars
  BY <1>8 DEF vars, database
<1> QED
  BY <1>1, <1>2, <1>3, <1>4, <1>5, <1>6, <1>7, <1>8 DEF Next

\* However many first registrations race, across a restart or not: a server that has
\* been closed all along gives one account away, or one for each use of the
\* operator's token (register_user, create_user_if_allowed).
THEOREM OneAccountForFree == Spec => []OneFreeAccount
<1>1. Init => Closed
  <2>1. Init => (open => opened) /\ req = [r \in Requests |-> Unused]
    BY AccountAssumption DEF Init
  <2> QED
    BY <2>1 DEF Closed, OneFreeAccount, Unused
<1>2. Closed => OneFreeAccount
  BY DEF Closed
<1> QED
  BY <1>1, <1>2, ClosedNext, TypeCorrect, PTL DEF Spec

-----------------------------------------------------------------------------
(* Tokens.                                                                  *)

\* Nothing but the deletion of a device takes rows, and the tokens it takes are of
\* no other row.
LEMMA RotatedAtOnce ==
  ASSUME TypeOK, Rotated, NEW r \in Requests, AtOnce(r)
  PROVE  Rotated'
<1> USE DEF Rotated, RotationLeavesAToken
<1>1. /\ req[r].at = "idle"
      /\ \A q \in Requests : q # r => req'[q] = req[q]
  BY AtOnceAnswers
<1>2. CASE DeleteDevice(r)
  <2>1. PICK gone \in SUBSET rows :
               /\ rows' = rows \ gone
               /\ tokens' = {t \in tokens : \A d \in gone : t.pk # d.pk}
    BY <1>2 DEF DeleteDevice, Row
  <2>2. \A d \in rows', t \in tokens : t.pk = d.pk => t \in tokens'
    BY <2>1
  <2> QED
    BY <1>1, <2>1, <2>2
<1>3. CASE ~DeleteDevice(r)
  <2>1. UNCHANGED <<rows, tokens>>
    BY <1>3 DEF AtOnce, TicketBySession, TicketByToken, RedeemTicket, RegisterStart,
       RegisterFinish, DeleteCredential, LoginStart, LoginFinish, database
  <2> QED
    BY <1>1, <2>1
<1> QED
  BY <1>2, <1>3

LEMMA RotatedStep ==
  ASSUME TypeOK, Rotated, NEW r \in Requests, Step(r)
  PROVE  Rotated'
<1> USE DEF Rotated, RotationLeavesAToken
<1>1. CASE ClearTokens(r)
  <2>1. /\ req[r].at = "clear" /\ req'[r].at = "issue" /\ req'[r].pk = req[r].pk
        /\ \A q \in Requests : q # r => req'[q] = req[q]
    BY <1>1 DEF ClearTokens, Goes, TypeOK, Request
  <2>2. UNCHANGED rows /\ tokens' = {t \in tokens : t.pk # req[r].pk}
    BY <1>1 DEF ClearTokens
  <2> QED
    BY <2>1, <2>2
<1>2. CASE IssueToken(r)
  <2> DEFINE registered == \E d \in rows : d.pk = req[r].pk
  <2>1. UNCHANGED rows
    BY <1>2 DEF IssueToken
  <2>2. \A q \in Requests : q # r => req'[q] = req[q]
    BY <1>2, AnswerMoves DEF IssueToken, TypeOK
  <2>3. CASE registered
    <3>1. tokens' = tokens \cup {[of |-> r, dev |-> req[r].dev, pk |-> req[r].pk]}
      BY <1>2, <2>3 DEF IssueToken
    <3>2. tokens \subseteq tokens' /\ \E t \in tokens' : t.pk = req[r].pk
      <4> DEFINE new == [of |-> r, dev |-> req[r].dev, pk |-> req[r].pk]
      <4>1. new.pk = req[r].pk /\ tokens' = tokens \cup {new}
        BY <3>1
      <4> HIDE DEF new
      <4> QED
        BY <4>1
    <3> QED
      BY <2>1, <2>2, <3>2
  <2>4. CASE ~registered
    <3>1. tokens' = tokens
      BY <1>2, <2>4 DEF IssueToken
    <3> QED
      BY <2>1, <2>2, <2>4, <3>1
  <2> QED
    BY <2>3, <2>4
<1>3. CASE CreateDevice(r)
  <2>1. CASE Row(req[r].dev) = {}
    <3>1. PICK n \in RowIds :
            /\ NewRowId(n)
            /\ rows' = rows \cup {[pk |-> n, owner |-> req[r].as, dev |-> req[r].dev]}
            /\ req' = [req EXCEPT ![r].pk = n, ![r].at = "clear"]
      BY <1>3, <2>1 DEF CreateDevice
    <3>2. req[r].at = "create"
      BY <1>3 DEF CreateDevice
    <3>3. /\ req'[r].at = "clear" /\ req'[r].pk = n
          /\ \A q \in Requests : q # r => req'[q] = req[q]
      BY <3>1, FoundMoves DEF TypeOK
    <3>4. \A d \in rows : d.pk # n
      <4>1. \A d \in rows : d.pk \in Nat /\ d.pk < n
        BY <3>1, AccountAssumption DEF NewRowId, TypeOK
      <4> QED
        BY <4>1, AccountAssumption
    <3>5. UNCHANGED tokens
      BY <1>3 DEF CreateDevice
    <3> DEFINE new == [pk |-> n, owner |-> req[r].as, dev |-> req[r].dev]
    <3>6. rows' = rows \cup {new} /\ new.pk = n
      BY <3>1
    <3> HIDE DEF new
    <3>7. \A d, e \in rows' : d.pk = e.pk => d = e
      BY <3>4, <3>6
    <3>8. RotationLeavesAToken'
      BY <3>2, <3>3, <3>5, <3>6
    <3> QED
      BY <3>7, <3>8
  <2>2. CASE Row(req[r].dev) # {}
    <3>1. UNCHANGED <<rows, tokens>> /\ Answer(r, "create", FALSE)
      BY <1>3, <2>2 DEF CreateDevice
    <3>2. /\ req[r].at = "create"
          /\ \A q \in Requests : q # r => req'[q] = req[q]
      BY <3>1, AnswerMoves DEF TypeOK
    <3> QED
      BY <3>1, <3>2
  <2> QED
    BY <2>1, <2>2
<1>4. CASE ~ClearTokens(r) /\ ~IssueToken(r) /\ ~CreateDevice(r)
  <2>1. UNCHANGED <<rows, tokens>>
    BY <1>4 DEF Step, CheckThrottle, Verify, MintSession, Decide, InsertUser, FindDevice,
       FindForRefresh, database
  <2>2. req[r].at \notin {"clear", "issue", "cut"}
    BY <1>4 DEF Step, CheckThrottle, Verify, MintSession, Decide, InsertUser, FindDevice,
       FindForRefresh, Goes, Answer
  <2> QED
    BY <2>1, <2>2, StepMoves
<1> QED
  BY <1>1, <1>2, <1>3, <1>4

LEMMA RotatedNext == TypeOK /\ Rotated /\ [Next]_vars => Rotated'
<1> SUFFICES ASSUME TypeOK, Rotated, [Next]_vars PROVE Rotated'
  OBVIOUS
<1> USE DEF Rotated, RotationLeavesAToken
<1>1. ASSUME NEW r \in Requests, Arrival(r)
      PROVE  Rotated'
  BY <1>1, ArrivalMoves DEF database
<1>2. ASSUME NEW r \in Requests, AtOnce(r)
      PROVE  Rotated'
  BY <1>2, RotatedAtOnce
<1>3. ASSUME NEW r \in Requests, Step(r)
      PROVE  Rotated'
  BY <1>3, RotatedStep
<1>4. ASSUME NEW u \in Users, LockoutEnds(u)
      PROVE  Rotated'
  BY <1>4 DEF LockoutEnds, database
<1>5. CASE SessionExpires
  BY <1>5 DEF SessionExpires
<1>6. CASE SetRegistration
  BY <1>6 DEF SetRegistration
<1>7. CASE Restart
  <2>1. UNCHANGED <<rows, tokens>>
    BY <1>7 DEF Restart, database
  <2>2. \A q \in Requests : req[q].at \in {"clear", "issue", "cut"} =>
           req'[q].at \in {"clear", "issue", "cut"} /\ req'[q].pk = req[q].pk
    BY <1>7, RestartCuts
  <2> QED
    BY <2>1, <2>2
<1>8. CASE UNCHANGED vars
  BY <1>8 DEF vars, database
<1> QED
  BY <1>1, <1>2, <1>3, <1>4, <1>5, <1>6, <1>7, <1>8 DEF Next

\* However registrations, refreshes and deletions of one device race: its row is left
\* with a token, unless the rotation is still under way or the server ended during
\* one (issue_device_token).
THEOREM DevicesKeepAToken == Spec => []RotationLeavesAToken
<1>1. Init => Rotated
  BY DEF Init, Rotated, RotationLeavesAToken
<1>2. Rotated => RotationLeavesAToken
  BY DEF Rotated
<1> QED
  BY <1>1, <1>2, RotatedNext, TypeCorrect, PTL DEF Spec
===============================================================================
