------------------------------ MODULE Sessions ------------------------------
(***************************************************************************)
(* Log-in, log-out, and the check of every request: user accounts in       *)
(* PostgreSQL (postgres_store.go), JSON web tokens (auth/jwt.go) and       *)
(* sessions in Redis (token_session.go).                                   *)
(*                                                                         *)
(* A token carries what the account was at log-in, so that it says what an *)
(* account was and not what it is.  A session is a Redis key for a token.  *)
(* All requests of an API process share one connection to Redis: a command *)
(* is written and its answer read under a mutex.  When that fails, the     *)
(* connection is closed, and a command that was already written may still  *)
(* be executed.                                                            *)
(*                                                                         *)
(* A log-in reads the account, verifies the password, which is slow on     *)
(* purpose, and then makes the token of what it read.                      *)
(*                                                                         *)
(* Time is in ticks of one second, and a token lives TTL of them.          *)
(* Passwords are left out: to verify one takes any time and may fail.      *)
(***************************************************************************)
EXTENDS Naturals, SequencesExt

CONSTANTS
    Usernames, Grants,  \* [role, line] of an account
    Boss, BossGrant,    \* the first account
    Requests,           \* requests that may be in flight
    TTL,                \* 8 hours
    MaxTime,            \* bound: how long the clock runs
    LastChange,         \* bound: no log-in and no change of an account begins later
    Managed,            \* bound: whom the administrators change
    Pauses,             \* bound: what requests do while a second passes
    MaxTokens,          \* bound: tokens that are issued
    MaxOrphans,         \* bound: late commands, others are lost
    Delayed             \* bound: whose commands may be late

ASSUME SessionsAssumption ==
    /\ Boss \in Usernames /\ BossGrant \in Grants /\ BossGrant.role = "admin"
    /\ Managed \subseteq Usernames
    /\ TTL \in Nat \ {0} /\ MaxTime \in Nat

VARIABLES
    now,
    users,      \* username -> [grant, disabled]
    referenced, \* usernames that orders, previews or audit entries name
    keys,       \* Redis: token -> when its key expires
    connected,  \* the connection is open
    wire,       \* commands written to it that Redis has not executed
    replies,    \* answers on it that nobody has read
    orphans,    \* commands written to connections that are closed
    calls,      \* request -> how far it is
    issued,     \* token that was answered to a log-in -> how long the first one took
    held,       \* history: account and grant -> when it last had it
    ended       \* history: tokens whose session a log-out deleted

redisVars == <<keys, connected, wire, replies, orphans>>
accountVars == <<users, referenced, held>>
vars == <<now, redisVars, accountVars, calls, issued, ended>>

Idle == [at |-> "idle"]

\* A row or a key is written.
Put(map, x, y) == [z \in DOMAIN map \cup {x} |-> IF z = x THEN y ELSE map[z]]

Became(accounts, time) ==
    [p \in DOMAIN held |->
        IF p[1] \in DOMAIN accounts /\ ~accounts[p[1]].disabled
             /\ accounts[p[1]].grant = p[2]
        THEN time ELSE held[p]]

Init ==
    /\ now = 0
    /\ users = [u \in {Boss} |-> [grant |-> BossGrant, disabled |-> FALSE]]
    /\ referenced = {}
    /\ keys = [t \in {} |-> 0] /\ connected = TRUE
    /\ wire = <<>> /\ replies = <<>> /\ orphans = {}
    /\ calls = [r \in Requests |-> Idle]
    /\ issued = [t \in {} |-> 0] /\ ended = {}
    /\ held = [p \in Usernames \X Grants |-> 0]

Tick ==
    /\ now < MaxTime /\ \A r \in Requests : calls[r].at \in Pauses
    /\ now' = now + 1
    /\ held' = Became(users, now')
    /\ keys' = [t \in {k \in DOMAIN keys : keys[k] > now'} |-> keys[t]]
    /\ ended' = {t \in ended : t.expires > now'}
    /\ UNCHANGED <<users, referenced, connected, wire, replies, orphans, calls, issued>>

Token(r) == calls[r].command.token

Return(r) == calls' = [calls EXCEPT ![r] = Idle]

(***************************************************************************)
(* Redis, and the one connection to it                                     *)
(***************************************************************************)
Alive(token) == token \in DOMAIN keys

Execute(command) ==
    keys' = CASE command.op = "SET" -> Put(keys, command.token, now + command.ttl)
              [] command.op = "DEL" -> [t \in DOMAIN keys \ {command.token} |-> keys[t]]
              [] command.op = "GET" -> keys

\* "none" is the null reply.
Reply(command) ==
    CASE command.op = "SET" -> "OK"
      [] command.op = "DEL" -> IF Alive(command.token) THEN "1" ELSE "0"
      [] command.op = "GET" -> IF Alive(command.token) THEN "1" ELSE "none"

\* A log-in of the same second that is still on its way may open it again.
StillComing(token) ==
    \/ \E r \in Requests : calls[r].at \in {"ready", "sent"} /\ calls[r].command.op = "SET"
                          /\ calls[r].command.token = token
    \/ \E command \in orphans : command.op = "SET" /\ command.token = token

Deleted(command) ==
    IF command.op = "DEL" /\ ~StillComing(command.token) THEN {command.token} ELSE {}

RedisExecutes ==
    /\ wire # <<>>
    /\ Execute(Head(wire))
    /\ wire' = Tail(wire) /\ replies' = Append(replies, Reply(Head(wire)))
    /\ ended' = ended \cup Deleted(Head(wire))
    /\ UNCHANGED <<now, accountVars, connected, orphans, calls, issued>>

OrphanExecutes ==
    \E command \in orphans :
        /\ Execute(command)
        /\ orphans' = orphans \ {command}
        /\ UNCHANGED <<now, accountVars, connected, wire, replies, calls, issued, ended>>

\* Mutant: the connection stays open after an error.
Close_KeepOpen == UNCHANGED <<keys, connected, wire, replies, orphans>>

\* closeLocked
Close ==
    /\ connected' = FALSE
    /\ orphans' = orphans \cup (IF Cardinality(orphans) < MaxOrphans
                               THEN {c \in ToSet(wire) : c.op # "GET" /\ c.token.subject \in Delayed}
                               ELSE {})
    /\ wire' = <<>> /\ replies' = <<>>
    /\ UNCHANGED keys

Locked == \E r \in Requests : calls[r].at = "sent"

\* command: the mutex, the connection, and the write.
Send(r) ==
    /\ calls[r].at = "ready" /\ ~Locked
    /\ connected' = TRUE
    /\ wire' = Append(wire, calls[r].command)
    /\ calls' = [calls EXCEPT ![r].at = "sent"]
    /\ UNCHANGED <<now, accountVars, keys, replies, orphans, issued, ended>>

\* An error of Save or Verify is answered with 503; one of Revoke is ignored.
NotSent(r) ==
    /\ calls[r].at = "ready" /\ ~Locked
    /\ Close /\ Return(r)
    /\ UNCHANGED <<now, accountVars, issued, ended>>

\* Mutant: no deadline, so that only an answer or a broken connection ends the wait.
GiveUp_NoDeadline(r) ==
    /\ calls[r].at = "sent" /\ ~connected
    /\ Close /\ Return(r)
    /\ UNCHANGED <<now, accountVars, issued, ended>>

\* The deadline, a broken connection or an error reply.
GiveUp(r) ==
    /\ calls[r].at = "sent"
    /\ Close /\ Return(r)
    /\ UNCHANGED <<now, accountVars, issued, ended>>

Read(r, op) ==
    /\ calls[r].at = "sent" /\ calls[r].command.op = op /\ replies # <<>>
    /\ replies' = Tail(replies)
    /\ UNCHANGED <<now, accountVars, keys, connected, wire, orphans>>

(***************************************************************************)
(* Log-in                                                                  *)
(***************************************************************************)
\* The request asks Redis for the session of its token, or was let in.
Asks(r) ==
    calls[r].at \in {"ready", "sent", "accepted"} /\ calls[r].command.op = "GET"

\* History: the request came when the session was over.
Late(r) == Asks(r) /\ calls[r].late

\* Authenticate: the account as it is now.
Authenticate(r, u) ==
    /\ calls[r] = Idle
    /\ u \in DOMAIN users /\ ~users[u].disabled
    /\ calls' = [calls EXCEPT ![r] =
          [at |-> "password", subject |-> u, grant |-> users[u].grant, read |-> now]]
    /\ UNCHANGED <<now, accountVars, redisVars, issued, ended>>

\* CreateToken, of the account as it was read and the time after the password was
\* verified.  Two log-ins may get the same token in one second.
TokenOf(u, grant) == [subject |-> u, grant |-> grant, expires |-> now + TTL]
NewToken(r) == TokenOf(calls[r].subject, calls[r].grant)

\* VerifyPassword says no.
Refuse(r) ==
    /\ calls[r].at = "password"
    /\ Return(r)
    /\ UNCHANGED <<now, accountVars, redisVars, issued, ended>>

Login(r) ==
    /\ calls[r].at = "password"
    /\ calls' = [s \in Requests |->
          IF s = r
          THEN [at |-> "ready", command |-> [op |-> "SET", token |-> NewToken(r), ttl |-> TTL],
                took |-> now - calls[r].read]
          ELSE IF Late(s) /\ calls[s].command.token = NewToken(r)
               THEN [calls[s] EXCEPT !.late = FALSE] ELSE calls[s]]
    /\ ended' = ended \ {NewToken(r)}
    /\ UNCHANGED <<now, accountVars, redisVars, issued>>

\* Any answer but an error will do.
LoggedIn(r) ==
    /\ Read(r, "SET")
    /\ issued' = IF Token(r) \in DOMAIN issued THEN issued
                 ELSE Put(issued, Token(r), calls[r].took)
    /\ Return(r) /\ UNCHANGED ended

(***************************************************************************)
(* Requests                                                                *)
(***************************************************************************)
\* Mutant: a token is good at the second it expires.
Fresh_OneMore(token) == now <= token.expires

\* VerifyToken
Fresh(token) == now < token.expires

\* claimsFromRequest up to the question to Redis.
Present(r, token) ==
    /\ calls[r] = Idle
    /\ Fresh(token)
    /\ calls' = [calls EXCEPT ![r] =
          [at |-> "ready", command |-> [op |-> "GET", token |-> token],
           age |-> now - held[<<token.subject, token.grant>>], late |-> token \in ended]]
    /\ UNCHANGED <<now, accountVars, redisVars, issued, ended>>

Verified(r) ==
    /\ Read(r, "GET")
    /\ IF Head(replies) = "1" THEN calls' = [calls EXCEPT ![r].at = "accepted"]
                              ELSE Return(r)
    /\ UNCHANGED <<issued, ended>>

Accepted(r) == calls[r].at = "accepted"

\* An order, a preview or a job: a row that names the user, who must exist.
LeaveTrace(r) ==
    /\ Accepted(r) /\ Token(r).grant.role # "admin"
    /\ referenced' = referenced \cup ({Token(r).subject} \cap DOMAIN users)
    /\ Return(r)
    /\ UNCHANGED <<now, users, held, redisVars, issued, ended>>

\* A request that leaves nothing behind, or is refused by its handler.
Answer(r) ==
    /\ Accepted(r) /\ Return(r)
    /\ UNCHANGED <<now, accountVars, redisVars, issued, ended>>

(***************************************************************************)
(* Log-out                                                                 *)
(***************************************************************************)
Logout(r) ==
    /\ Accepted(r)
    /\ calls' = [calls EXCEPT ![r] =
          [at |-> "ready", command |-> [op |-> "DEL", token |-> Token(r)]]]
    /\ UNCHANGED <<now, accountVars, redisVars, issued, ended>>

LoggedOut(r) ==
    /\ Read(r, "DEL")
    /\ Return(r) /\ UNCHANGED <<issued, ended>>

(***************************************************************************)
(* Accounts                                                                *)
(***************************************************************************)
Manager(r) == Accepted(r) /\ Token(r).grant.role = "admin"

Account(u, account) ==
    /\ users' = Put(users, u, account)
    /\ held' = Became(users', now)

\* The entry in audit_logs needs an actor that exists.
Audited(r) == referenced' = referenced \cup ({Token(r).subject} \cap DOMAIN users)

NoCommand == UNCHANGED <<now, redisVars, issued, ended>>

CreateUser(r, u, grant) ==
    /\ Manager(r) /\ u \notin DOMAIN users
    /\ Account(u, [grant |-> grant, disabled |-> FALSE])
    /\ Audited(r) /\ Return(r) /\ NoCommand

AssignUser(r, u, grant) ==
    /\ Manager(r) /\ u \in DOMAIN users
    /\ Account(u, [users[u] EXCEPT !.grant = grant])
    /\ Audited(r) /\ Return(r) /\ NoCommand

ResetUserPassword(r, u) ==
    /\ Manager(r) /\ u \in DOMAIN users
    /\ Audited(r) /\ Return(r)
    /\ UNCHANGED <<users, held>> /\ NoCommand

\* DeleteUser: the references are counted before anything is written.
CheckUser(r, u) ==
    /\ Manager(r) /\ u \in DOMAIN users
    /\ calls' = [calls EXCEPT ![r] =
          [at |-> IF u \in referenced \/ u = Token(r).subject THEN "disable" ELSE "record",
           command |-> calls[r].command, user |-> u]]
    /\ UNCHANGED accountVars /\ NoCommand

RecordDeletion(r) ==
    /\ calls[r].at = "record"
    /\ IF Token(r).subject \in DOMAIN users
       THEN calls' = [calls EXCEPT ![r].at = "delete"] /\ Audited(r)
       ELSE Return(r) /\ UNCHANGED referenced
    /\ UNCHANGED <<users, held>> /\ NoCommand

\* A row that is referenced by now is not deleted.
DeleteUser(r) ==
    /\ calls[r].at = "delete"
    /\ users' = [u \in DOMAIN users \ ({calls[r].user} \ referenced) |-> users[u]]
    /\ Return(r)
    /\ UNCHANGED <<referenced, held>> /\ NoCommand

DisableUser(r) ==
    /\ calls[r].at = "disable"
    /\ IF calls[r].user \in DOMAIN users
       THEN Account(calls[r].user, [users[calls[r].user] EXCEPT !.disabled = TRUE]) /\ Audited(r)
       ELSE UNCHANGED accountVars
    /\ Return(r) /\ NoCommand

(***************************************************************************)
(* Everything                                                              *)
(***************************************************************************)
Deletion(r) == RecordDeletion(r) \/ DeleteUser(r) \/ DisableUser(r)

ManagedBy(r) ==
    /\ now <= LastChange
    /\ \E u \in Managed :
        \/ \E grant \in Grants : CreateUser(r, u, grant) \/ AssignUser(r, u, grant)
        \/ ResetUserPassword(r, u)
        \/ CheckUser(r, u)

Received(r) == LoggedIn(r) \/ Verified(r) \/ LoggedOut(r)

\* Tokens that are anywhere.
Known ==
    DOMAIN issued \cup DOMAIN keys \cup {c.token : c \in orphans}
       \cup {calls[r].command.token : r \in {s \in Requests : calls[s].at \notin {"idle", "password"}}}

Begin(r) ==
    \/ now <= LastChange /\ \E u \in Usernames : Authenticate(r, u)
    \/ Refuse(r)
    \/ Login(r) /\ Cardinality(Known \cup {NewToken(r)}) <= MaxTokens
    \/ \E token \in DOMAIN issued : Present(r, token)

Next ==
    \/ Tick \/ RedisExecutes \/ OrphanExecutes
    \/ \E r \in Requests :
          \/ Begin(r) \/ Send(r) \/ NotSent(r) \/ GiveUp(r) \/ Received(r)
          \/ LeaveTrace(r) \/ Answer(r) \/ Logout(r)
          \/ ManagedBy(r) \/ Deletion(r)

(***************************************************************************)
(* Fairness: the deadline ends a read, and the mutex is handed to whoever  *)
(* waits long.  Redis owes nothing.                                        *)
(***************************************************************************)
Fairness ==
    \A r \in Requests : SF_vars(Send(r) \/ NotSent(r)) /\ WF_vars(GiveUp(r) \/ Received(r))

Spec == Init /\ [][Next]_vars /\ Fairness

(***************************************************************************)
(* Properties                                                              *)
(***************************************************************************)
\* A log-out that reaches Redis ends the session: a request that begins later
\* is refused, whatever happened on the shared connection in between, unless a
\* log-in of the same second opens the session again.
LogoutEndsSession == \A r \in Requests : Accepted(r) => ~calls[r].late

\* A request acts with what its account was allowed less than the lifetime of a
\* token and the length of the log-in ago: a user who is assigned another role,
\* disabled or deleted, also while the password is verified, keeps the old claims
\* no longer.
ClaimsAreRecent ==
    \A r \in Requests : Accepted(r) => calls[r].age < TTL + issued[Token(r)]
=============================================================================
