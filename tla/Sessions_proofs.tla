--------------------------- MODULE Sessions_proofs ---------------------------
(***************************************************************************)
(* Log-outs and claims for any accounts, any number of requests and any    *)
(* lifetime of tokens, and for a clock and a list of tokens without bound. *)
(***************************************************************************)
EXTENDS Sessions, TLAPS

(***************************************************************************)
(* The inductive invariant                                                 *)
(***************************************************************************)
Tokens == [subject : Usernames, grant : Grants, expires : Nat]

Sets == [op : {"SET"}, token : Tokens, ttl : {TTL}]
Gets == [op : {"GET"}, token : Tokens]
Dels == [op : {"DEL"}, token : Tokens]

Passwords == [at : {"password"}, subject : Usernames, grant : Grants, read : Nat]
Logins == [at : {"ready", "sent"}, command : Sets, took : Nat]
Logouts == [at : {"ready", "sent"}, command : Dels]
Questions ==
    [at : {"ready", "sent", "accepted"}, command : Gets, age : Nat, late : BOOLEAN]
Deletions == [at : {"record", "delete", "disable"}, command : Gets, user : Usernames]

Calls == {Idle} \cup Passwords \cup Logins \cup Logouts \cup Questions \cup Deletions

Entries == Logins \cup Logouts \cup Questions

TypeInv ==
    /\ now \in Nat
    /\ DOMAIN users \subseteq Usernames
    /\ \A u \in DOMAIN users : users[u] \in [grant : Grants, disabled : BOOLEAN]
    /\ orphans \subseteq Sets \cup Dels
    /\ calls \in [Requests -> Calls]
    /\ DOMAIN issued \subseteq Tokens /\ \A token \in DOMAIN issued : issued[token] \in Nat
    /\ held \in [Usernames \X Grants -> Nat]
    /\ \A p \in Usernames \X Grants : held[p] <= now

Holds(r) == calls[r].at = "sent"

\* One request at a time is on the connection, with its own command or its answer.
Connection ==
    /\ (\A r \in Requests : ~Holds(r)) => wire = <<>> /\ replies = <<>>
    /\ \A r, s \in Requests : Holds(r) /\ Holds(s) => r = s
    /\ \A r \in Requests : Holds(r) =>
          \/ wire = <<calls[r].command>> /\ replies = <<>>
          \/ wire = <<>> /\ \E value : replies = <<value>>

\* There is no session for the token, and nothing on its way opens one.
Over(token) == ~Alive(token) /\ ~StillComing(token)

\* Sessions that a log-out ended are over, and so are those of late requests.
EndedIsOver == \A token \in ended : Over(token)

LateIsRefused ==
    \A r \in Requests : Late(r) =>
        /\ Over(Token(r))
        /\ ~Accepted(r)
        /\ Holds(r) /\ replies # <<>> => replies[1] # "1"

\* A log-in that took so long.
Lasts(token, length) ==
    token.expires <= held[<<token.subject, token.grant>>] + TTL + length

Opens(r) == calls[r].at \in {"ready", "sent"} /\ calls[r].command.op = "SET"

\* What an account is now it has had until now, and what was read of it, until it was
\* read.  No token outlives by more than TTL and the length of its log-in what it
\* says, and no request goes in with one that does.
Recent ==
    /\ \A u \in DOMAIN users : ~users[u].disabled => held[<<u, users[u].grant>>] = now
    /\ \A token \in DOMAIN issued : Lasts(token, issued[token])
    /\ \A r \in Requests : calls[r].at = "password" =>
          calls[r].read <= held[<<calls[r].subject, calls[r].grant>>]
    /\ \A r \in Requests : Opens(r) => Lasts(Token(r), calls[r].took)
    /\ \A r \in Requests : Asks(r) =>
          Token(r) \in DOMAIN issued /\ calls[r].age < TTL + issued[Token(r)]

IInv == TypeInv /\ Connection /\ EndedIsOver /\ LateIsRefused /\ Recent

(***************************************************************************)
(* What a call can be                                                      *)
(***************************************************************************)
\* Where a call is says what it carries.
LEMMA CallKinds ==
    ASSUME TypeInv, NEW r \in Requests
    PROVE  /\ calls[r] \in Calls
           /\ Asks(r) \/ Accepted(r) => calls[r] \in Questions
           /\ calls[r].at = "password" => calls[r] \in Passwords
           /\ Opens(r) => calls[r] \in Logins
           /\ calls[r].at \in {"ready", "sent"} => calls[r] \in Entries
           /\ calls[r].at \in {"record", "delete", "disable"} => calls[r] \in Deletions
<1> USE DEF Asks, Accepted, Opens
<1>1. calls[r] \in Calls
      BY DEF TypeInv
<1>2. CASE calls[r] = Idle
      BY <1>1, <1>2 DEF Idle
<1>3. CASE calls[r] \in Passwords
      BY <1>1, <1>3 DEF Passwords
<1>4. CASE calls[r] \in Logins
      BY <1>1, <1>4 DEF Entries, Logins, Sets
<1>5. CASE calls[r] \in Logouts
      BY <1>1, <1>5 DEF Entries, Logouts, Dels
<1>6. CASE calls[r] \in Questions
      BY <1>1, <1>6 DEF Entries, Questions, Gets
<1>7. CASE calls[r] \in Deletions
      BY <1>1, <1>7 DEF Deletions
<1> QED
    BY <1>1, <1>2, <1>3, <1>4, <1>5, <1>6, <1>7 DEF Calls

\* One call changes, the others do not.
LEMMA OneCall ==
    ASSUME TypeInv, NEW r \in Requests, NEW c \in Calls, calls' = [calls EXCEPT ![r] = c]
    PROVE  /\ calls' \in [Requests -> Calls]
           /\ calls'[r] = c
           /\ \A s \in Requests \ {r} : calls'[s] = calls[s]
BY DEF TypeInv

\* The same call, with another place.
LEMMA Moved ==
    ASSUME TypeInv, NEW r \in Requests
    PROVE  /\ calls[r].at = "ready" =>
                /\ [calls[r] EXCEPT !.at = "sent"] \in Entries
                /\ [calls[r] EXCEPT !.at = "sent"].command = calls[r].command
                /\ [calls[r] EXCEPT !.at = "sent"].at = "sent"
                /\ Opens(r) => [calls[r] EXCEPT !.at = "sent"].took = calls[r].took
                /\ Asks(r) => /\ [calls[r] EXCEPT !.at = "sent"].age = calls[r].age
                              /\ [calls[r] EXCEPT !.at = "sent"].late = calls[r].late
           /\ Asks(r) =>
                /\ [calls[r] EXCEPT !.at = "accepted"] \in Questions
                /\ [calls[r] EXCEPT !.at = "accepted"].command = calls[r].command
                /\ [calls[r] EXCEPT !.at = "accepted"].age = calls[r].age
                /\ [calls[r] EXCEPT !.at = "accepted"].late = calls[r].late
<1> USE DEF Entries, Asks, Opens
<1>1. CASE calls[r] \in Questions
      BY <1>1 DEF Questions, Gets
<1>2. CASE calls[r] \in Logins
      BY <1>2 DEF Logins, Sets
<1>3. CASE calls[r] \in Logouts
      BY <1>3 DEF Logouts, Dels
<1> QED
    BY <1>1, <1>2, <1>3, CallKinds

\* The commands of calls are those of Redis.
LEMMA CommandKinds ==
    ASSUME TypeInv, NEW r \in Requests, calls[r] \in Entries \cup Deletions
    PROVE  /\ calls[r].command \in Sets \cup Gets \cup Dels
           /\ calls[r].command.token \in Tokens
           /\ calls[r].command.op = "SET" => calls[r].command \in Sets
           /\ calls[r].command.op = "GET" => calls[r].command \in Gets
           /\ calls[r].command.op = "DEL" => calls[r].command \in Dels
           /\ calls[r].command.op \in {"SET", "GET", "DEL"}
           /\ calls[r] # Idle
BY DEF Entries, Logins, Logouts, Questions, Deletions, Sets, Gets, Dels, Idle

(***************************************************************************)
(* Groups of steps                                                         *)
(***************************************************************************)
\* Handlers that are let in, and log-ins that are refused: they do not use Redis.
Handled(r) ==
    \/ LeaveTrace(r) \/ Answer(r) \/ Refuse(r) \/ Deletion(r)
    \/ \E u \in Managed :
          \/ \E grant \in Grants : CreateUser(r, u, grant) \/ AssignUser(r, u, grant)
          \/ ResetUserPassword(r, u) \/ CheckUser(r, u)

\* Accounts and what they are now.
AccountsInv ==
    /\ now \in Nat
    /\ DOMAIN users \subseteq Usernames
    /\ \A u \in DOMAIN users : users[u] \in [grant : Grants, disabled : BOOLEAN]
    /\ held \in [Usernames \X Grants -> Nat]
    /\ \A p \in Usernames \X Grants : held[p] <= now
    /\ \A u \in DOMAIN users : ~users[u].disabled => held[<<u, users[u].grant>>] = now

\* Became keeps the history true, of any accounts and at any later time.
LEMMA BecameIsTrue ==
    ASSUME held \in [Usernames \X Grants -> Nat],
           NEW time \in Nat, \A p \in Usernames \X Grants : held[p] <= time,
           NEW accounts, DOMAIN accounts \subseteq Usernames,
           \A u \in DOMAIN accounts : accounts[u] \in [grant : Grants, disabled : BOOLEAN]
    PROVE  /\ Became(accounts, time) \in [Usernames \X Grants -> Nat]
           /\ \A p \in Usernames \X Grants :
                 held[p] <= Became(accounts, time)[p] /\ Became(accounts, time)[p] <= time
           /\ \A u \in DOMAIN accounts :
                 ~accounts[u].disabled => Became(accounts, time)[<<u, accounts[u].grant>>] = time
<1>1. DOMAIN held = Usernames \X Grants
      OBVIOUS
<1>2. \A p \in Usernames \X Grants : Became(accounts, time)[p] \in {time, held[p]}
      BY <1>1 DEF Became
<1>3. \A u \in DOMAIN accounts : <<u, accounts[u].grant>> \in Usernames \X Grants
      OBVIOUS
<1>4. ASSUME NEW u \in DOMAIN accounts, ~accounts[u].disabled
      PROVE  Became(accounts, time)[<<u, accounts[u].grant>>] = time
      BY <1>1, <1>3, <1>4 DEF Became
<1>5. Became(accounts, time) = [p \in Usernames \X Grants |-> Became(accounts, time)[p]]
      BY <1>1 DEF Became
<1>6. \A p \in Usernames \X Grants : Became(accounts, time)[p] \in Nat
      BY <1>2
<1>7. \A p \in Usernames \X Grants :
          held[p] <= Became(accounts, time)[p] /\ Became(accounts, time)[p] <= time
      BY <1>2
<1> QED
    BY <1>4, <1>5, <1>6, <1>7

\* An account that is written is a row of the table.
LEMMA AccountStep ==
    ASSUME AccountsInv, NEW u \in Usernames,
           NEW account \in [grant : Grants, disabled : BOOLEAN],
           Account(u, account), now' = now
    PROVE  AccountsInv' /\ \A p \in Usernames \X Grants : held[p] <= held'[p]
<1>1. /\ DOMAIN users' = DOMAIN users \cup {u}
      /\ \A w \in DOMAIN users' : users'[w] = IF w = u THEN account ELSE users[w]
      BY DEF Account, Put
<1>2. /\ DOMAIN users' \subseteq Usernames
      /\ \A w \in DOMAIN users' : users'[w] \in [grant : Grants, disabled : BOOLEAN]
      BY <1>1 DEF AccountsInv
<1>3. held' = Became(users', now)
      BY DEF Account
<1> QED
    BY <1>2, <1>3, BecameIsTrue DEF AccountsInv

HandledResult(r) ==
    /\ UNCHANGED <<now, redisVars, issued, ended>>
    /\ \E c \in {Idle} \cup Deletions : calls' = [calls EXCEPT ![r] = c]
    /\ calls[r].at \notin {"ready", "sent"}
    /\ AccountsInv'
    /\ \A p \in Usernames \X Grants : held[p] <= held'[p]

\* What handlers leave: Redis as it is, a call that does not ask Redis, and true accounts.
LEMMA HandledStep ==
    ASSUME TypeInv, AccountsInv, NEW r \in Requests, Handled(r)
    PROVE  HandledResult(r)
<1> USE DEF Return, HandledResult
<1>a. UNCHANGED accountVars /\ UNCHANGED now =>
          AccountsInv' /\ \A p \in Usernames \X Grants : held[p] <= held'[p]
      BY DEF AccountsInv, accountVars
<1>b. UNCHANGED <<users, held>> /\ UNCHANGED now =>
          AccountsInv' /\ \A p \in Usernames \X Grants : held[p] <= held'[p]
      BY DEF AccountsInv
<1>1. CASE LeaveTrace(r)
      BY <1>1, <1>b DEF LeaveTrace, Accepted, redisVars
<1>2. CASE Answer(r)
      BY <1>2, <1>a DEF Answer, Accepted, redisVars
<1>2a. CASE Refuse(r)
      BY <1>2a, <1>a DEF Refuse, redisVars
<1>3. ASSUME NEW u \in Managed, NEW grant \in Grants, CreateUser(r, u, grant)
      PROVE  HandledResult(r)
  <2>1. Account(u, [grant |-> grant, disabled |-> FALSE]) /\ UNCHANGED now
        BY <1>3 DEF CreateUser, NoCommand
  <2> QED
      BY <1>3, <2>1, AccountStep, SessionsAssumption DEF CreateUser, NoCommand, Manager, Accepted
<1>4. ASSUME NEW u \in Managed, NEW grant \in Grants, AssignUser(r, u, grant)
      PROVE  HandledResult(r)
  <2>1. Account(u, [users[u] EXCEPT !.grant = grant]) /\ UNCHANGED now
        BY <1>4 DEF AssignUser, NoCommand
  <2>2. [users[u] EXCEPT !.grant = grant] \in [grant : Grants, disabled : BOOLEAN]
        BY <1>4 DEF AssignUser, AccountsInv
  <2> QED
      BY <1>4, <2>1, <2>2, AccountStep, SessionsAssumption
         DEF AssignUser, NoCommand, Manager, Accepted
<1>5. ASSUME NEW u \in Managed, ResetUserPassword(r, u)
      PROVE  HandledResult(r)
      BY <1>5, <1>b DEF ResetUserPassword, NoCommand, Manager, Accepted
<1>6. ASSUME NEW u \in Managed, CheckUser(r, u)
      PROVE  HandledResult(r)
  <2>1. Accepted(r) /\ calls[r].command \in Gets
        BY <1>6, CallKinds DEF CheckUser, Manager, Questions
  <2>2. PICK at \in {"disable", "record"} :
            calls' = [calls EXCEPT ![r] = [at |-> at, command |-> calls[r].command, user |-> u]]
        BY <1>6 DEF CheckUser
  <2>3. [at |-> at, command |-> calls[r].command, user |-> u] \in Deletions
        BY <2>1, SessionsAssumption DEF Deletions
  <2> QED
      BY <1>6, <1>a, <2>1, <2>2, <2>3 DEF CheckUser, NoCommand, Accepted
<1>7. CASE RecordDeletion(r)
  <2>1. calls[r].at = "record" /\ calls[r] \in Deletions
        BY <1>7, CallKinds DEF RecordDeletion
  <2>2. [calls[r] EXCEPT !.at = "delete"] \in Deletions
        BY <2>1 DEF Deletions
  <2>3. \/ calls' = [calls EXCEPT ![r] = [calls[r] EXCEPT !.at = "delete"]]
        \/ calls' = [calls EXCEPT ![r] = Idle]
        BY <1>7 DEF RecordDeletion
  <2> QED
      BY <1>7, <1>b, <2>1, <2>2, <2>3 DEF RecordDeletion, NoCommand
<1>8. CASE DeleteUser(r)
  <2>1. DOMAIN users' \subseteq DOMAIN users /\ \A u \in DOMAIN users' : users'[u] = users[u]
        BY <1>8 DEF DeleteUser
  <2>2. UNCHANGED <<held, now>>
        BY <1>8 DEF DeleteUser, NoCommand
  <2>3. AccountsInv' /\ \A p \in Usernames \X Grants : held[p] <= held'[p]
        BY <2>1, <2>2 DEF AccountsInv
  <2> QED
      BY <1>8, <2>3 DEF DeleteUser, NoCommand
<1>9. CASE DisableUser(r)
  <2>1. calls[r].at = "disable" /\ calls[r].user \in Usernames
        BY <1>9, CallKinds DEF DisableUser, Deletions
  <2>2. CASE calls[r].user \in DOMAIN users
    <3>1. [users[calls[r].user] EXCEPT !.disabled = TRUE] \in [grant : Grants, disabled : BOOLEAN]
          BY <2>2 DEF AccountsInv
    <3>2. Account(calls[r].user, [users[calls[r].user] EXCEPT !.disabled = TRUE])
             /\ UNCHANGED now
          BY <1>9, <2>2 DEF DisableUser, NoCommand
    <3> QED
        BY <1>9, <2>1, <3>1, <3>2, AccountStep DEF DisableUser, NoCommand
  <2>3. CASE calls[r].user \notin DOMAIN users
        BY <1>9, <2>1, <2>3, <1>a DEF DisableUser, NoCommand
  <2> QED
      BY <2>2, <2>3
<1> QED
    BY <1>1, <1>2, <1>2a, <1>3, <1>4, <1>5, <1>6, <1>7, <1>8, <1>9 DEF Handled, Deletion

\* What was read of an account stays older than the time it had it until.
LEMMA ReadsOn ==
    ASSUME held \in [Usernames \X Grants -> Nat], held' \in [Usernames \X Grants -> Nat],
           \A p \in Usernames \X Grants : held[p] <= held'[p],
           NEW c \in Passwords, c.read <= held[<<c.subject, c.grant>>]
    PROVE  c.read <= held'[<<c.subject, c.grant>>]
<1> DEFINE p == <<c.subject, c.grant>>
<1>1. p \in Usernames \X Grants /\ c.read \in Nat
      BY DEF Passwords
<1>2. held[p] \in Nat /\ held'[p] \in Nat /\ held[p] <= held'[p]
      BY <1>1
<1> QED
    BY <1>1, <1>2

\* What the invariant says of accounts.
LEMMA AccountsHold ==
    ASSUME TypeInv, Recent
    PROVE  AccountsInv
BY DEF TypeInv, Recent, AccountsInv

\* Lasts is about the time an account had its claims, which only grows.
LEMMA LastsOn ==
    ASSUME held \in [Usernames \X Grants -> Nat], held' \in [Usernames \X Grants -> Nat],
           \A p \in Usernames \X Grants : held[p] <= held'[p],
           NEW token \in Tokens, NEW length \in Nat, Lasts(token, length)
    PROVE  Lasts(token, length)'
<1> DEFINE p == <<token.subject, token.grant>>
<1>1. p \in Usernames \X Grants /\ token.expires \in Nat
      BY DEF Tokens
<1>2. held[p] \in Nat /\ held'[p] \in Nat /\ held[p] <= held'[p] /\ TTL \in Nat
      BY <1>1, SessionsAssumption
<1>3. token.expires <= held[p] + TTL + length
      BY DEF Lasts
<1> HIDE DEF p
<1>4. token.expires <= held'[p] + TTL + length
      BY <1>1, <1>2, <1>3
<1> QED
    BY <1>4 DEF Lasts, p

(***************************************************************************)
(* The first state                                                         *)
(***************************************************************************)
LEMMA InitIInv == Init => IInv
<1> SUFFICES ASSUME Init PROVE IInv
    OBVIOUS
<1>1. \A r \in Requests : calls[r] = Idle /\ calls[r].at = "idle"
      BY DEF Init, Idle
<1>2. TypeInv
  <2>1. DOMAIN users \subseteq Usernames
           /\ \A u \in DOMAIN users : users[u] \in [grant : Grants, disabled : BOOLEAN]
        BY SessionsAssumption DEF Init
  <2>2. held \in [Usernames \X Grants -> Nat] /\ \A p \in Usernames \X Grants : held[p] <= now
        BY DEF Init
  <2> QED
      BY <2>1, <2>2 DEF Init, TypeInv, Calls
<1>3. Connection
      BY <1>1 DEF Connection, Holds, Init
<1>4. EndedIsOver
      BY DEF EndedIsOver, Init
<1>5. LateIsRefused
      BY <1>1 DEF LateIsRefused, Late, Asks
<1>6. Recent
  <2>1. \A u \in DOMAIN users : held[<<u, users[u].grant>>] = now
        BY SessionsAssumption DEF Init
  <2> QED
      BY <1>1, <2>1 DEF Recent, Init, Asks, Opens
<1> QED
    BY <1>2, <1>3, <1>4, <1>5, <1>6 DEF IInv

(***************************************************************************)
(* Steps of one request                                                    *)
(***************************************************************************)
\* Tokens are issued that last, and none is taken back.
IssuedStep ==
    /\ DOMAIN issued' \subseteq Tokens
    /\ \A token \in DOMAIN issued' :
          issued'[token] \in Nat /\ Lasts(token, issued'[token])
    /\ \A token \in DOMAIN issued :
          token \in DOMAIN issued' /\ issued'[token] = issued[token]

LEMMA SameIssued ==
    ASSUME TypeInv, Recent, UNCHANGED issued
    PROVE  IssuedStep
BY DEF TypeInv, Recent, IssuedStep

\* A step of a request keeps the invariant when it opens no session, and when
\* what it makes of its call is no late request that is let in and has no claims
\* that are too old.
LEMMA CallStep ==
    ASSUME IInv, NEW r \in Requests, NEW c \in Calls, calls' = [calls EXCEPT ![r] = c],
           UNCHANGED <<keys, ended, now>>,
           AccountsInv', \A p \in Usernames \X Grants : held[p] <= held'[p],
           Connection', replies' \in {replies, <<>>},
           orphans' \subseteq Sets \cup Dels,
           \A o \in orphans' \ orphans :
               calls[r].at \in {"ready", "sent"} /\ o = calls[r].command,
           IssuedStep,
           c \in Passwords => c.read <= held'[<<c.subject, c.grant>>],
           c.at \in {"ready", "sent"} /\ c.command.op = "SET" =>
               Opens(r) /\ c.command = calls[r].command /\ c.took = calls[r].took,
           c \in Questions =>
               /\ c.command.token \in DOMAIN issued
               /\ c.age < TTL + issued[c.command.token]
               /\ c.late => /\ Over(c.command.token) /\ c.at # "accepted"
                            /\ c.at = "sent" => replies' = <<>>
    PROVE  IInv'
<1>0. /\ calls' \in [Requests -> Calls]
      /\ calls'[r] = c
      /\ \A s \in Requests \ {r} : calls'[s] = calls[s]
      BY OneCall DEF IInv
<1>1. TypeInv'
      BY <1>0 DEF IInv, TypeInv, AccountsInv, IssuedStep
<1>2. ASSUME NEW token, Over(token)
      PROVE  Over(token)'
  <2>1. ~Alive(token)'
        BY <1>2 DEF Over, Alive
  <2>2. ASSUME NEW s \in Requests, calls'[s].at \in {"ready", "sent"},
               calls'[s].command.op = "SET", calls'[s].command.token = token
        PROVE  FALSE
        BY <1>0, <1>2, <2>2 DEF Over, StillComing, Opens
  <2>3. ASSUME NEW o \in orphans', o.op = "SET", o.token = token
        PROVE  FALSE
        BY <1>2, <2>3 DEF Over, StillComing
  <2> QED
      BY <2>1, <2>2, <2>3 DEF Over, StillComing
<1>3. EndedIsOver'
      BY <1>2 DEF IInv, EndedIsOver
<1>4. \A s \in Requests \ {r} : Asks(s)' => Asks(s)
      BY <1>0 DEF Asks
<1>5. Asks(r)' => c \in Questions
      BY <1>0 DEF Asks, Calls, Idle, Passwords, Logins, Logouts, Sets, Dels, Deletions
<1>6. LateIsRefused'
  <2>1. ASSUME NEW s \in Requests, s # r, Late(s)'
        PROVE  /\ Over(Token(s))' /\ ~Accepted(s)'
               /\ Holds(s)' /\ replies' # <<>> => replies'[1] # "1"
        BY <1>0, <1>2, <1>4, <2>1 DEF IInv, LateIsRefused, Late, Token, Accepted, Holds
  <2>2. ASSUME Late(r)'
        PROVE  /\ Over(Token(r))' /\ ~Accepted(r)'
               /\ Holds(r)' /\ replies' # <<>> => replies'[1] # "1"
        BY <1>0, <1>2, <1>5, <2>2 DEF Late, Token, Accepted, Holds
  <2> QED
      BY <2>1, <2>2 DEF LateIsRefused
<1>7. Recent'
  <2>1. \A u \in DOMAIN users' : ~users'[u].disabled => held'[<<u, users'[u].grant>>] = now'
        BY DEF AccountsInv
  <2>2. \A token \in Tokens, length \in Nat : Lasts(token, length) => Lasts(token, length)'
        BY LastsOn DEF IInv, TypeInv, AccountsInv
  <2>3. (\A token \in DOMAIN issued : Lasts(token, issued[token]))'
        BY <2>2 DEF IssuedStep, Lasts
  <2>4. ASSUME NEW s \in Requests, Opens(s)'
        PROVE  Lasts(Token(s), calls[s].took)'
    <3>1. /\ Opens(s)
          /\ calls'[s].command = calls[s].command /\ calls'[s].took = calls[s].took
          BY <1>0, <2>4 DEF Opens
    <3>2. Lasts(Token(s), calls[s].took)
          BY <3>1 DEF IInv, Recent
    <3>3. Token(s) \in Tokens /\ calls[s].took \in Nat
          BY <3>1, CallKinds DEF IInv, Token, Logins, Sets
    <3> QED
        BY <2>2, <3>1, <3>2, <3>3 DEF Token
  <2>5. ASSUME NEW s \in Requests, calls'[s].at = "password"
        PROVE  calls'[s].read <= held'[<<calls'[s].subject, calls'[s].grant>>]
    <3>1. CASE s = r
          BY <1>0, <2>5, <3>1, CallKinds DEF Calls, Passwords, Idle, Logins, Logouts, Questions, Deletions
    <3>2. CASE s # r
      <4>1. calls'[s] = calls[s] /\ calls[s] \in Passwords
            BY <1>0, <2>5, <3>2, CallKinds DEF IInv
      <4> QED
          BY <2>5, <4>1, ReadsOn DEF IInv, TypeInv, Recent, AccountsInv
    <3> QED
        BY <3>1, <3>2
  <2>6. ASSUME NEW s \in Requests, Asks(s)'
        PROVE  /\ Token(s)' \in DOMAIN issued'
               /\ calls'[s].age < TTL + issued'[Token(s)']
    <3>1. CASE s = r
          BY <1>0, <1>5, <2>6, <3>1 DEF Token, IssuedStep
    <3>2. CASE s # r
          BY <1>0, <1>4, <2>6, <3>2 DEF IInv, Recent, Token, IssuedStep
    <3> QED
        BY <3>1, <3>2
  <2> QED
      BY <2>1, <2>3, <2>4, <2>5, <2>6 DEF Recent
<1> QED
    BY <1>1, <1>3, <1>6, <1>7 DEF IInv

\* The connection is untouched, and so is what its holder waits for.
LEMMA SameConnection ==
    ASSUME TypeInv, Connection, NEW r \in Requests, NEW c \in Calls,
           calls' = [calls EXCEPT ![r] = c], ~Holds(r), c.at # "sent",
           UNCHANGED <<wire, replies>>
    PROVE  Connection'
<1>1. calls'[r] = c /\ \A s \in Requests \ {r} : calls'[s] = calls[s]
      BY OneCall
<1> QED
    BY <1>1 DEF Connection, Holds

\* Nobody is on the connection, and nothing.
LEMMA FreeConnection ==
    ASSUME TypeInv, Connection, NEW r \in Requests, NEW c \in Calls,
           calls' = [calls EXCEPT ![r] = c], Holds(r) \/ \A s \in Requests : ~Holds(s),
           c.at # "sent", wire' = <<>>, replies' = <<>>
    PROVE  Connection'
<1>1. calls'[r] = c /\ \A s \in Requests \ {r} : calls'[s] = calls[s]
      BY OneCall
<1>2. \A s \in Requests : ~Holds(s)'
      BY <1>1 DEF Connection, Holds
<1> QED
    BY <1>2 DEF Connection

LEMMA HandledKeeps ==
    ASSUME IInv, NEW r \in Requests, Handled(r)
    PROVE  IInv'
<1>1. HandledResult(r)
      BY HandledStep, AccountsHold DEF IInv
<1>2. PICK c \in {Idle} \cup Deletions : calls' = [calls EXCEPT ![r] = c]
      BY <1>1 DEF HandledResult
<1>3. /\ c \in Calls /\ c \notin Questions /\ c \notin Passwords
      /\ c.at \notin {"ready", "sent"}
      BY <1>2 DEF Calls, Idle, Passwords, Questions, Deletions
<1>4. Connection'
      BY <1>1, <1>2, <1>3, SameConnection DEF IInv, HandledResult, redisVars, Holds
<1> QED
    BY <1>1, <1>2, <1>3, <1>4, SameIssued, CallStep DEF IInv, TypeInv, HandledResult, redisVars

\* What the steps that leave the accounts alone know of them.
LEMMA SameAccounts ==
    ASSUME IInv, UNCHANGED <<now, accountVars>>
    PROVE  AccountsInv' /\ \A p \in Usernames \X Grants : held[p] <= held'[p]
BY AccountsHold DEF IInv, AccountsInv, accountVars

LEMMA PresentKeeps ==
    ASSUME IInv, NEW r \in Requests, NEW token \in DOMAIN issued, Present(r, token)
    PROVE  IInv'
<1> DEFINE age == now - held[<<token.subject, token.grant>>]
           c == [at |-> "ready", command |-> [op |-> "GET", token |-> token],
                 age |-> age, late |-> token \in ended]
<1>1. calls' = [calls EXCEPT ![r] = c] /\ calls[r] = Idle
      BY DEF Present
<1>2. age \in Nat /\ age < TTL + issued[token]
  <2>1. /\ token \in Tokens /\ issued[token] \in Nat
        /\ Lasts(token, issued[token]) /\ now < token.expires
        BY DEF IInv, TypeInv, Recent, Present, Fresh
  <2>2. <<token.subject, token.grant>> \in Usernames \X Grants
        BY <2>1 DEF Tokens
  <2>3. /\ held[<<token.subject, token.grant>>] \in Nat
        /\ held[<<token.subject, token.grant>>] <= now
        /\ now \in Nat /\ TTL \in Nat /\ token.expires \in Nat
        BY <2>1, <2>2, SessionsAssumption DEF IInv, TypeInv, Tokens
  <2> QED
      BY <2>1, <2>3 DEF Lasts
<1> HIDE DEF age
<1>3. token \in Tokens
      BY DEF IInv, TypeInv
<1>4. c \in Questions /\ c \notin Passwords
      BY <1>2, <1>3 DEF Passwords, Questions, Gets
<1>5. c \in Calls /\ c.at = "ready" /\ c.command.op = "GET" /\ c.command.token = token
        /\ c.age = age /\ c.late = (token \in ended)
      BY <1>4 DEF Calls
<1>6. c.late => Over(token)
      BY <1>5 DEF IInv, EndedIsOver
<1> HIDE DEF c
<1>7. Connection'
  <2>1. ~Holds(r) /\ UNCHANGED <<wire, replies>>
        BY <1>1 DEF Holds, Idle, Present, redisVars
  <2>2. c.at # "sent"
        BY <1>5
  <2> QED
      BY <1>1, <1>5, <2>1, <2>2, SameConnection DEF IInv
<1> QED
    BY <1>1, <1>2, <1>4, <1>5, <1>6, <1>7, SameAccounts, SameIssued, CallStep
       DEF IInv, TypeInv, Present, redisVars

LEMMA LogoutKeeps ==
    ASSUME IInv, NEW r \in Requests, Logout(r)
    PROVE  IInv'
<1> DEFINE c == [at |-> "ready", command |-> [op |-> "DEL", token |-> Token(r)]]
<1>1. calls' = [calls EXCEPT ![r] = c] /\ calls[r].at = "accepted"
      BY DEF Logout, Accepted
<1>2. Token(r) \in Tokens
      BY <1>1, CallKinds, CommandKinds DEF IInv, Accepted, Token, Entries
<1>3. /\ c \in Calls /\ c \notin Questions /\ c \notin Passwords
      /\ c.command.op # "SET" /\ c.at = "ready"
      BY <1>2 DEF Calls, Logouts, Dels, Questions, Passwords
<1> HIDE DEF c
<1>4. Connection'
      BY <1>1, <1>3, SameConnection DEF IInv, Logout, redisVars, Holds
<1> QED
    BY <1>1, <1>3, <1>4, SameAccounts, SameIssued, CallStep
       DEF IInv, TypeInv, Logout, redisVars

LEMMA SendKeeps ==
    ASSUME IInv, NEW r \in Requests, Send(r)
    PROVE  IInv'
<1> DEFINE c == [calls[r] EXCEPT !.at = "sent"]
<1>1. calls' = [calls EXCEPT ![r] = c] /\ calls[r].at = "ready"
      BY DEF Send
<1>2. /\ c \in Entries
      /\ c.command = calls[r].command /\ c.at = "sent"
      /\ Opens(r) => c.took = calls[r].took
      /\ Asks(r) => c.age = calls[r].age /\ c.late = calls[r].late
      BY <1>1, Moved DEF IInv
<1>3. c \in Calls /\ c \notin Passwords
      BY <1>1, <1>2 DEF Calls, Entries, Passwords
<1>4. c \in Questions => Asks(r)
      BY <1>1, <1>2 DEF Questions, Gets, Asks
<1> HIDE DEF c
<1>5. wire = <<>> /\ replies = <<>>
      BY DEF Send, Locked, IInv, Connection, Holds
<1>6. Connection'
  <2>1. calls'[r] = c /\ \A s \in Requests \ {r} : calls'[s] = calls[s]
        BY <1>1, <1>3, OneCall DEF IInv
  <2>2. \A s \in Requests : Holds(s)' => s = r
        BY <2>1 DEF Send, Locked, Holds
  <2>3. Holds(r)'
        BY <1>2, <2>1 DEF Holds
  <2>4. wire' = <<calls'[r].command>> /\ replies' = <<>>
        BY <1>2, <1>5, <2>1 DEF Send
  <2> QED
      BY <2>2, <2>3, <2>4 DEF Connection
<1>7. c \in Questions =>
          /\ c.command.token \in DOMAIN issued
          /\ c.age < TTL + issued[c.command.token]
          /\ c.late => Over(c.command.token) /\ c.at # "accepted"
  <2> SUFFICES ASSUME c \in Questions
               PROVE  /\ Token(r) \in DOMAIN issued /\ c.age < TTL + issued[Token(r)]
                      /\ c.late => Over(Token(r))
      BY <1>2 DEF Token
  <2>1. Asks(r) /\ c.age = calls[r].age /\ c.late = calls[r].late
        BY <1>2, <1>4
  <2>2. c.late => Over(Token(r))
        BY <2>1 DEF IInv, LateIsRefused, Late
  <2> QED
      BY <2>1, <2>2 DEF IInv, Recent
<1>8. c.command.op = "SET" => Opens(r) /\ c.command = calls[r].command /\ c.took = calls[r].took
      BY <1>1, <1>2 DEF Opens
<1>9. /\ UNCHANGED <<keys, ended, now, accountVars, issued, orphans, replies>>
      /\ orphans' \subseteq Sets \cup Dels
      BY DEF Send, IInv, TypeInv
<1> QED
    BY <1>1, <1>2, <1>3, <1>5, <1>6, <1>7, <1>8, <1>9, SameAccounts, SameIssued, CallStep
       DEF IInv

\* A connection that is closed is given up by whoever used it.
LEMMA CloseKeeps ==
    ASSUME IInv, NEW r \in Requests, NotSent(r) \/ GiveUp(r)
    PROVE  IInv'
<1>1. /\ Close /\ calls' = [calls EXCEPT ![r] = Idle]
      /\ calls[r].at \in {"ready", "sent"}
      /\ UNCHANGED <<now, accountVars, issued, ended>>
      BY DEF NotSent, GiveUp, Return
<1>2. /\ Idle \in Calls /\ Idle \notin Questions /\ Idle \notin Passwords
      /\ Idle.at \notin {"ready", "sent"}
      BY DEF Calls, Questions, Passwords, Idle
<1>3. Holds(r) \/ \A s \in Requests : ~Holds(s)
      BY DEF NotSent, GiveUp, Locked, Holds
<1>4. wire \in {<<>>, <<calls[r].command>>}
      BY <1>3 DEF IInv, Connection
<1>5. calls[r] \in Entries
      BY <1>1, CallKinds DEF IInv
<1>6. /\ calls[r] # Idle /\ calls[r].command \in Sets \cup Gets \cup Dels
      /\ calls[r].command.op # "GET" => calls[r].command \in Sets \cup Dels
      BY <1>5, CommandKinds DEF IInv
<1>7. \A o \in orphans' \ orphans : o = calls[r].command /\ o.op # "GET"
  <2>1. \A i \in 1..Len(wire) : wire[i] = calls[r].command
        BY <1>4, <1>6
  <2> QED
      BY <1>1, <1>4, <1>6, <2>1 DEF Close, ToSet
<1>8. orphans' \subseteq Sets \cup Dels
      BY <1>6, <1>7 DEF IInv, TypeInv
<1>9. Connection'
      BY <1>1, <1>2, <1>3, FreeConnection DEF IInv, Close
<1>10. UNCHANGED keys /\ replies' = <<>>
      BY <1>1 DEF Close
<1> QED
    BY <1>1, <1>2, <1>7, <1>8, <1>9, <1>10, SameAccounts, SameIssued, CallStep
       DEF IInv, TypeInv

LEMMA ReceivedKeeps ==
    ASSUME IInv, NEW r \in Requests, Received(r)
    PROVE  IInv'
<1>1. /\ calls[r].at = "sent" /\ replies # <<>> /\ replies' = Tail(replies)
      /\ UNCHANGED <<now, accountVars, keys, wire, orphans, ended>>
      BY DEF Received, LoggedIn, Verified, LoggedOut, Read
<1>2. Holds(r)
      BY <1>1 DEF Holds
<1>3. wire = <<>> /\ \E value : replies = <<value>>
      BY <1>1, <1>2 DEF IInv, Connection
<1>4. replies' = <<>> /\ wire' = <<>>
      BY <1>1, <1>3
<1>5. calls[r] \in Entries
      BY <1>1, CallKinds DEF IInv
<1>6. /\ calls[r] # Idle /\ calls[r].command.token \in Tokens
      BY <1>5, CommandKinds DEF IInv
<1>7. IssuedStep
  <2>1. CASE LoggedIn(r)
    <3> DEFINE token == Token(r)
    <3>1. Opens(r)
          BY <1>1, <2>1 DEF LoggedIn, Read, Opens
    <3>2. token \in Tokens /\ calls[r].took \in Nat /\ Lasts(token, calls[r].took)
          BY <3>1, CallKinds DEF IInv, Recent, Token, Logins, Sets
    <3> HIDE DEF token
    <3>3. CASE token \in DOMAIN issued
          BY <2>1, <3>3, SameIssued DEF LoggedIn, IInv, token
    <3>4. CASE token \notin DOMAIN issued
      <4>1. /\ DOMAIN issued' = DOMAIN issued \cup {token}
            /\ \A t \in DOMAIN issued' :
                  issued'[t] = IF t = token THEN calls[r].took ELSE issued[t]
            BY <2>1, <3>4 DEF LoggedIn, Put, token
      <4> QED
          BY <3>2, <3>4, <4>1 DEF IInv, TypeInv, Recent, IssuedStep
    <3> QED
        BY <3>3, <3>4
  <2>2. CASE Verified(r) \/ LoggedOut(r)
        BY <2>2, SameIssued DEF Verified, LoggedOut, IInv
  <2> QED
      BY <2>1, <2>2 DEF Received
<1>8. CASE calls' = [calls EXCEPT ![r] = Idle]
  <2>1. /\ Idle \in Calls /\ Idle \notin Questions /\ Idle \notin Passwords
        /\ Idle.at \notin {"ready", "sent"}
        BY DEF Calls, Questions, Passwords, Idle
  <2>2. Connection'
        BY <1>2, <1>4, <1>8, <2>1, FreeConnection DEF IInv
  <2> QED
      BY <1>1, <1>4, <1>7, <1>8, <2>1, <2>2, SameAccounts, CallStep DEF IInv, TypeInv
<1>9. CASE Verified(r) /\ Head(replies) = "1"
  <2> DEFINE c == [calls[r] EXCEPT !.at = "accepted"]
  <2>1. calls' = [calls EXCEPT ![r] = c] /\ Asks(r)
        BY <1>9 DEF Verified, Read, Asks
  <2>2. /\ c \in Questions /\ c.command = calls[r].command
        /\ c.age = calls[r].age /\ c.late = calls[r].late
        BY <2>1, Moved DEF IInv
  <2>3. calls[r].command.op = "GET"
        BY <1>9 DEF Verified, Read
  <2>4. c.at = "accepted" /\ c \notin Passwords
    <3>1. calls[r] \in Questions
          BY <2>1, CallKinds DEF IInv
    <3> QED
        BY <3>1 DEF Questions, Passwords
  <2> HIDE DEF c
  <2>5. /\ c \in Calls /\ c.command.token \in DOMAIN issued
        /\ c.age < TTL + issued[c.command.token]
        BY <2>1, <2>2 DEF Calls, IInv, Recent, Token
  <2>6. ~c.late
    <3>1. replies[1] = "1"
          BY <1>3, <1>9
    <3> QED
        BY <1>1, <1>2, <2>1, <2>2, <3>1 DEF IInv, LateIsRefused, Late
  <2>7. c.at # "sent"
        BY <2>4
  <2>8. Connection'
        BY <1>2, <1>4, <2>1, <2>5, <2>7, FreeConnection DEF IInv
  <2>9. c.command.op # "SET"
        BY <2>2, <2>3
  <2> QED
      BY <1>1, <1>4, <1>7, <2>1, <2>4, <2>5, <2>6, <2>8, <2>9, SameAccounts, CallStep
         DEF IInv, TypeInv
<1> QED
    BY <1>8, <1>9 DEF Received, LoggedIn, Verified, LoggedOut, Return

(***************************************************************************)
(* Steps of no request                                                     *)
(***************************************************************************)
\* Time and Redis keep the invariant when they open no session that is over and
\* answer no late request that its session is there.
LEMMA SameCalls ==
    ASSUME IInv, UNCHANGED <<calls, issued>>,
           AccountsInv', \A p \in Usernames \X Grants : held[p] <= held'[p],
           Connection', EndedIsOver', orphans' \subseteq orphans,
           \A token : Over(token) => Over(token)',
           \A r \in Requests :
              Late(r) /\ Holds(r) /\ replies' # <<>> => replies'[1] # "1"
    PROVE  IInv'
<1>1. TypeInv'
      BY DEF IInv, TypeInv, AccountsInv
<1>2. LateIsRefused'
      BY DEF IInv, LateIsRefused, Late, Asks, Token, Accepted, Holds
<1>3. \A token \in Tokens, length \in Nat : Lasts(token, length) => Lasts(token, length)'
      BY LastsOn DEF IInv, TypeInv, AccountsInv
<1>4. ASSUME NEW r \in Requests, Opens(r)
      PROVE  Lasts(Token(r), calls[r].took)'
  <2>1. Lasts(Token(r), calls[r].took) /\ Token(r) \in Tokens /\ calls[r].took \in Nat
        BY <1>4, CallKinds DEF IInv, Recent, Token, Logins, Sets
  <2> QED
      BY <1>3, <2>1 DEF Token
<1>5. ASSUME NEW r \in Requests, calls[r].at = "password"
      PROVE  calls[r].read <= held'[<<calls[r].subject, calls[r].grant>>]
  <2>1. calls[r] \in Passwords
        BY <1>5, CallKinds DEF IInv
  <2> QED
      BY <1>5, <2>1, ReadsOn DEF IInv, TypeInv, Recent, AccountsInv
<1>6. \A token \in DOMAIN issued : Lasts(token, issued[token])'
      BY <1>3 DEF IInv, TypeInv, Recent
<1>7. Recent'
      BY <1>4, <1>5, <1>6 DEF IInv, Recent, AccountsInv, Asks, Opens, Token
<1> QED
    BY <1>1, <1>2, <1>7 DEF IInv

LEMMA TickKeeps ==
    ASSUME IInv, Tick
    PROVE  IInv'
<1>1. now' \in Nat /\ now <= now' /\ held' = Became(users, now')
      BY DEF Tick, IInv, TypeInv
<1>2. AccountsInv' /\ \A p \in Usernames \X Grants : held[p] <= held'[p]
  <2>1. \A p \in Usernames \X Grants : held[p] \in Nat /\ held[p] <= now'
        BY <1>1 DEF IInv, TypeInv
  <2> QED
      BY <1>1, <2>1, BecameIsTrue DEF Tick, IInv, TypeInv, AccountsInv
<1>3. \A token : Over(token) => Over(token)'
      BY DEF Tick, Over, Alive, StillComing
<1>4. EndedIsOver'
      BY <1>3 DEF Tick, IInv, EndedIsOver
<1>5. Connection'
      BY DEF Tick, IInv, Connection, Holds
<1>6. \A r \in Requests : Late(r) /\ Holds(r) /\ replies' # <<>> => replies'[1] # "1"
      BY DEF Tick, IInv, LateIsRefused
<1> QED
    BY <1>2, <1>3, <1>4, <1>5, <1>6, SameCalls DEF Tick

\* Redis opens a session only for a log-in.
LEMMA ExecuteOpens ==
    ASSUME NEW command \in Sets \cup Gets \cup Dels, Execute(command)
    PROVE  /\ DOMAIN keys' \subseteq
                 DOMAIN keys \cup (IF command.op = "SET" THEN {command.token} ELSE {})
           /\ command.op = "DEL" => command.token \notin DOMAIN keys'
<1>1. CASE command \in Sets
  <2>1. command.op = "SET" /\ keys' = Put(keys, command.token, now + command.ttl)
        BY <1>1 DEF Execute, Sets
  <2> QED
      BY <2>1 DEF Put
<1>2. CASE command \in Dels
  <2>1. command.op = "DEL" /\ keys' = [t \in DOMAIN keys \ {command.token} |-> keys[t]]
        BY <1>2 DEF Execute, Dels
  <2> QED
      BY <2>1
<1>3. CASE command \in Gets
  <2>1. command.op = "GET" /\ keys' = keys
        BY <1>3 DEF Execute, Gets
  <2> QED
      BY <2>1
<1> QED
    BY <1>1, <1>2, <1>3

LEMMA OrphanExecutesKeeps ==
    ASSUME IInv, OrphanExecutes
    PROVE  IInv'
<1>1. PICK command \in orphans :
          /\ Execute(command)
          /\ orphans' = orphans \ {command}
          /\ UNCHANGED <<now, accountVars, connected, wire, replies, calls, issued, ended>>
      BY DEF OrphanExecutes
<1>2. command \in Sets \cup Dels
      BY DEF IInv, TypeInv
<1>3. \A token : Over(token) => Over(token)'
      BY <1>1, <1>2, ExecuteOpens DEF Over, Alive, StillComing
<1>4. EndedIsOver'
      BY <1>1, <1>3 DEF IInv, EndedIsOver
<1>5. Connection'
      BY <1>1 DEF IInv, Connection, Holds
<1>6. \A r \in Requests : Late(r) /\ Holds(r) /\ replies' # <<>> => replies'[1] # "1"
      BY <1>1 DEF IInv, LateIsRefused
<1> QED
    BY <1>1, <1>3, <1>4, <1>5, <1>6, SameAccounts, SameCalls

LEMMA RedisExecutesKeeps ==
    ASSUME IInv, RedisExecutes
    PROVE  IInv'
<1>1. PICK r \in Requests : Holds(r)
      BY DEF RedisExecutes, IInv, Connection
<1> DEFINE command == calls[r].command
<1>2. wire = <<command>> /\ replies = <<>>
      BY <1>1 DEF RedisExecutes, IInv, Connection
<1>3. /\ Execute(command)
      /\ wire' = <<>> /\ replies' = <<Reply(command)>>
      /\ ended' = ended \cup Deleted(command)
      BY <1>2 DEF RedisExecutes
<1>4. UNCHANGED <<now, accountVars, orphans, calls, issued>>
      BY DEF RedisExecutes
<1>5. /\ calls[r].at = "sent"
      /\ command \in Sets \cup Gets \cup Dels
      BY <1>1, CallKinds, CommandKinds DEF IInv, Holds
<1>6. ASSUME NEW token, Over(token)
      PROVE  Over(token)'
  <2>1. command.op = "SET" => command.token # token
        BY <1>5, <1>6 DEF Over, StillComing
  <2>2. ~Alive(token)'
        BY <1>3, <1>5, <1>6, <2>1, ExecuteOpens DEF Over, Alive
  <2> QED
      BY <1>4, <1>6, <2>2 DEF Over, StillComing
<1>7. \A token \in Deleted(command) : Over(token)'
  <2>1. ASSUME command.op = "DEL", ~StillComing(command.token)
        PROVE  Over(command.token)'
    <3>1. ~Alive(command.token)'
          BY <1>3, <1>4, <1>5, <2>1, ExecuteOpens DEF Alive
    <3> QED
        BY <1>4, <2>1, <3>1 DEF Over, StillComing
  <2> QED
      BY <1>4, <2>1 DEF Deleted
<1>8. EndedIsOver'
      BY <1>3, <1>6, <1>7 DEF IInv, EndedIsOver
<1>9. Connection'
      BY <1>1, <1>3, <1>4 DEF IInv, Connection, Holds
<1>10. ASSUME NEW s \in Requests, Late(s), Holds(s)
       PROVE  replies'[1] # "1"
  <2>1. s = r
        BY <1>1, <1>10 DEF IInv, Connection
  <2>2. command.op = "GET" /\ ~Alive(command.token)
        BY <1>10, <2>1 DEF IInv, LateIsRefused, Late, Asks, Over, Token
  <2>3. Reply(command) = "none"
        BY <2>2 DEF Reply
  <2> QED
      BY <1>3, <2>3
<1> QED
    BY <1>4, <1>6, <1>8, <1>9, <1>10, SameAccounts, SameCalls

(***************************************************************************)
(* Log-in                                                                  *)
(***************************************************************************)
LEMMA AuthenticateKeeps ==
    ASSUME IInv, NEW r \in Requests, NEW u \in Usernames, Authenticate(r, u)
    PROVE  IInv'
<1> DEFINE c == [at |-> "password", subject |-> u, grant |-> users[u].grant, read |-> now]
<1>1. /\ calls' = [calls EXCEPT ![r] = c] /\ calls[r] = Idle
      /\ u \in DOMAIN users /\ ~users[u].disabled
      BY DEF Authenticate
<1>2. users[u].grant \in Grants /\ now \in Nat /\ held[<<u, users[u].grant>>] = now
      BY <1>1 DEF IInv, TypeInv, Recent
<1>3. c \in Passwords
      BY <1>2 DEF Passwords
<1>4. /\ c \in Calls /\ c \notin Questions /\ c.at = "password"
      /\ c.read <= held[<<c.subject, c.grant>>]
      BY <1>2, <1>3 DEF Calls, Questions
<1> HIDE DEF c
<1>5. Connection'
  <2>1. ~Holds(r) /\ UNCHANGED <<wire, replies>> /\ c.at # "sent"
        BY <1>1, <1>4 DEF Holds, Idle, Authenticate, redisVars
  <2> QED
      BY <1>1, <1>4, <2>1, SameConnection DEF IInv
<1>6. c.read <= held'[<<c.subject, c.grant>>]
      BY <1>4 DEF Authenticate, accountVars
<1> QED
    BY <1>1, <1>4, <1>5, <1>6, SameAccounts, SameIssued, CallStep
       DEF IInv, TypeInv, Authenticate, redisVars

LEMMA LoginKeeps ==
    ASSUME IInv, NEW r \in Requests, Login(r)
    PROVE  IInv'
<1> DEFINE token == NewToken(r)
           took == now - calls[r].read
           c == [at |-> "ready", command |-> [op |-> "SET", token |-> token, ttl |-> TTL],
                 took |-> took]
           Reopens(s) == Late(s) /\ calls[s].command.token = token
<1>1. /\ calls[r].at = "password"
      /\ calls' = [s \in Requests |->
             IF s = r THEN c
             ELSE IF Reopens(s) THEN [calls[s] EXCEPT !.late = FALSE] ELSE calls[s]]
      /\ ended' = ended \ {token}
      /\ UNCHANGED <<now, accountVars, keys, wire, replies, orphans, issued>>
      BY DEF Login, redisVars
<1>2. token \in Tokens /\ took \in Nat /\ Lasts(token, took)
  <2> DEFINE p == <<calls[r].subject, calls[r].grant>>
  <2>1. calls[r] \in Passwords /\ now \in Nat
        BY <1>1, CallKinds DEF IInv, TypeInv
  <2>2. p \in Usernames \X Grants /\ calls[r].read \in Nat
        BY <2>1 DEF Passwords
  <2>3. calls[r].read <= held[p] /\ held[p] \in Nat /\ held[p] <= now
        BY <1>1, <2>2 DEF IInv, TypeInv, Recent
  <2>4. now + TTL \in Nat /\ took \in Nat /\ now + TTL <= held[p] + TTL + took
        BY <2>1, <2>2, <2>3, SessionsAssumption
  <2>5. token = [subject |-> calls[r].subject, grant |-> calls[r].grant, expires |-> now + TTL]
        BY DEF NewToken, TokenOf
  <2>6. token \in Tokens /\ p = <<token.subject, token.grant>> /\ token.expires = now + TTL
        BY <2>1, <2>4, <2>5 DEF Tokens, Passwords
  <2> HIDE DEF token, p, took
  <2> QED
      BY <2>4, <2>6 DEF Lasts
<1>3. token = NewToken(r)
      OBVIOUS
<1> HIDE DEF token, took
<1>4. /\ c \in Logins /\ c.at = "ready" /\ c.took = took
      /\ c.command.op = "SET" /\ c.command.token = token
      BY <1>2 DEF Logins, Sets
<1> HIDE DEF c
<1>5. calls'[r] = c
      BY <1>1
<1>6. ASSUME NEW s \in Requests, s # r
      PROVE  /\ calls'[s] \in Calls
             /\ calls'[s].at = calls[s].at /\ calls'[s].command = calls[s].command
             /\ Opens(s) \/ calls[s].at = "password" => calls'[s] = calls[s]
             /\ Asks(s) => calls'[s].age = calls[s].age
             /\ Late(s)' => Late(s) /\ Token(s) # token
  <2>1. CASE Reopens(s)
    <3>1. calls[s] \in Questions /\ calls'[s] = [calls[s] EXCEPT !.late = FALSE]
          BY <1>1, <1>6, <2>1, CallKinds DEF IInv, Late
    <3>2. calls'[s] \in Questions /\ ~calls'[s].late
          BY <3>1 DEF Questions
    <3> QED
        BY <3>1, <3>2 DEF Calls, Questions, Gets, Late, Opens
  <2>2. CASE ~Reopens(s)
    <3>1. calls'[s] = calls[s]
          BY <1>1, <1>6, <2>2
    <3> QED
        BY <2>2, <3>1, CallKinds DEF IInv, Late, Asks, Token
  <2> QED
      BY <2>1, <2>2
<1>7. TypeInv'
  <2>1. \A s \in Requests : calls'[s] \in Calls
        BY <1>4, <1>5, <1>6 DEF Calls
  <2>2. calls' \in [Requests -> Calls]
        BY <1>1, <2>1
  <2> QED
      BY <1>1, <2>2 DEF IInv, TypeInv, accountVars
<1>8. ~Holds(r) /\ ~Holds(r)' /\ ~Asks(r)'
      BY <1>1, <1>4, <1>5 DEF Holds, Asks
<1>9. Connection'
      BY <1>1, <1>6, <1>8 DEF IInv, Connection, Holds
<1>10. ASSUME NEW t, t # token, Over(t)
       PROVE  Over(t)'
  <2>1. ASSUME NEW s \in Requests, calls'[s].at \in {"ready", "sent"},
               calls'[s].command.op = "SET", calls'[s].command.token = t
        PROVE  FALSE
    <3>1. s # r
          BY <1>4, <1>5, <1>10, <2>1
    <3>2. calls[s].at = calls'[s].at /\ calls[s].command = calls'[s].command
          BY <1>6, <2>1, <3>1
    <3> QED
        BY <1>10, <2>1, <3>2 DEF Over, StillComing
  <2> QED
      BY <1>1, <1>10, <2>1 DEF Over, StillComing, Alive
<1>11. EndedIsOver'
      BY <1>1, <1>10 DEF IInv, EndedIsOver
<1>12. LateIsRefused'
  <2>1. ASSUME NEW s \in Requests, Late(s)'
        PROVE  /\ Over(Token(s))' /\ ~Accepted(s)'
               /\ Holds(s)' /\ replies' # <<>> => replies'[1] # "1"
    <3>1. s # r
          BY <1>8, <2>1 DEF Late
    <3>2. Late(s) /\ Token(s) # token
          BY <1>6, <2>1, <3>1
    <3>3. Token(s)' = Token(s) /\ Accepted(s)' = Accepted(s) /\ Holds(s)' = Holds(s)
          BY <1>6, <3>1 DEF Token, Accepted, Holds
    <3>4. /\ Over(Token(s)) /\ ~Accepted(s)
          /\ Holds(s) /\ replies # <<>> => replies[1] # "1"
          BY <3>2 DEF IInv, LateIsRefused
    <3>5. Over(Token(s))'
          BY <1>10, <3>2, <3>3, <3>4
    <3> QED
        BY <1>1, <3>3, <3>4, <3>5
  <2> QED
      BY <2>1 DEF LateIsRefused
<1>13. Recent'
  <2>1. \A t, length : Lasts(t, length)' <=> Lasts(t, length)
        BY <1>1 DEF Lasts, accountVars
  <2>2. ASSUME NEW s \in Requests, Opens(s)'
        PROVE  Lasts(calls'[s].command.token, calls'[s].took)
    <3>1. CASE s = r
          BY <1>2, <1>4, <1>5, <3>1
    <3>2. CASE s # r
          BY <1>6, <2>2, <3>2 DEF IInv, Recent, Token, Opens
    <3> QED
        BY <3>1, <3>2
  <2>3. ASSUME NEW s \in Requests, Asks(s)'
        PROVE  /\ calls'[s].command.token \in DOMAIN issued
               /\ calls'[s].age < TTL + issued[calls'[s].command.token]
    <3>1. s # r /\ Asks(s)
          BY <1>6, <1>8, <2>3 DEF Asks
    <3> QED
        BY <1>6, <3>1 DEF IInv, Recent, Token
  <2>4. ASSUME NEW s \in Requests, calls'[s].at = "password"
        PROVE  calls'[s].read <= held[<<calls'[s].subject, calls'[s].grant>>]
    <3>1. s # r
          BY <1>4, <1>5, <2>4
    <3>2. calls'[s] = calls[s]
          BY <1>6, <2>4, <3>1
    <3> QED
        BY <2>4, <3>2 DEF IInv, Recent
  <2> QED
      BY <1>1, <2>1, <2>2, <2>3, <2>4 DEF IInv, Recent, accountVars, Token
<1> QED
    BY <1>7, <1>9, <1>11, <1>12, <1>13 DEF IInv

(***************************************************************************)
(* Every step, and the theorems                                            *)
(***************************************************************************)
LEMMA NextKeeps == IInv /\ [Next]_vars => IInv'
<1> SUFFICES ASSUME IInv, [Next]_vars PROVE IInv'
    OBVIOUS
<1>1. CASE Tick
      BY <1>1, TickKeeps
<1>2. CASE RedisExecutes
      BY <1>2, RedisExecutesKeeps
<1>3. CASE OrphanExecutes
      BY <1>3, OrphanExecutesKeeps
<1>4. ASSUME NEW r \in Requests, Begin(r)
      PROVE  IInv'
  <2>1. Refuse(r) => Handled(r)
        BY DEF Handled
  <2> QED
      BY <1>4, <2>1, AuthenticateKeeps, LoginKeeps, PresentKeeps, HandledKeeps DEF Begin
<1>5. ASSUME NEW r \in Requests, Send(r) \/ NotSent(r) \/ GiveUp(r) \/ Received(r)
      PROVE  IInv'
      BY <1>5, SendKeeps, CloseKeeps, ReceivedKeeps
<1>6. ASSUME NEW r \in Requests, Logout(r)
      PROVE  IInv'
      BY <1>6, LogoutKeeps
<1>7. ASSUME NEW r \in Requests, LeaveTrace(r) \/ Answer(r) \/ ManagedBy(r) \/ Deletion(r)
      PROVE  IInv'
  <2>1. Handled(r)
        BY <1>7 DEF Handled, ManagedBy
  <2> QED
      BY <2>1, HandledKeeps
<1>8. CASE UNCHANGED vars
  <2>1. AccountsInv' /\ \A p \in Usernames \X Grants : held[p] <= held'[p]
        BY <1>8, SameAccounts DEF vars
  <2>2. \A token : Over(token) => Over(token)'
        BY <1>8 DEF vars, redisVars, Over, Alive, StillComing
  <2>3. Connection' /\ EndedIsOver'
        BY <1>8, <2>2 DEF vars, redisVars, IInv, Connection, Holds, EndedIsOver
  <2>4. \A r \in Requests : Late(r) /\ Holds(r) /\ replies' # <<>> => replies'[1] # "1"
        BY <1>8 DEF vars, redisVars, IInv, LateIsRefused
  <2> QED
      BY <1>8, <2>1, <2>2, <2>3, <2>4, SameCalls DEF vars, redisVars
<1> QED
    BY <1>1, <1>2, <1>3, <1>4, <1>5, <1>6, <1>7, <1>8 DEF Next

\* The invariant holds in every state of the accounts, requests and sessions of
\* server.go, token_session.go and the users of postgres_store.go.
THEOREM Invariance == Spec => []IInv
BY InitIInv, NextKeeps, PTL DEF Spec

\* LogoutEndsSession for any accounts, requests and times: whatever happens on the
\* connection that all requests share, no request that begins after a log-out has
\* deleted its session is let in.
THEOREM LogoutsHold == Spec => []LogoutEndsSession
<1>1. IInv => LogoutEndsSession
  <2> SUFFICES ASSUME IInv, NEW r \in Requests, Accepted(r), calls[r].late PROVE FALSE
      BY DEF LogoutEndsSession
  <2>1. calls[r] \in Questions
        BY CallKinds DEF IInv
  <2>2. Late(r)
        BY <2>1 DEF Late, Asks, Accepted, Questions, Gets
  <2> QED
      BY <2>2 DEF IInv, LateIsRefused
<1> QED
    BY <1>1, Invariance, PTL

\* ClaimsAreRecent for any accounts, requests and times: claimsFromRequest lets nobody
\* in with claims that the account lost TTL and the length of the log-in ago or earlier.
THEOREM ClaimsAge == Spec => []ClaimsAreRecent
<1>1. IInv => ClaimsAreRecent
  <2> SUFFICES ASSUME IInv, NEW r \in Requests, Accepted(r)
               PROVE  calls[r].age < TTL + issued[Token(r)]
      BY DEF ClaimsAreRecent
  <2>1. calls[r] \in Questions
        BY CallKinds DEF IInv
  <2>2. Asks(r)
        BY <2>1 DEF Asks, Accepted, Questions, Gets
  <2> QED
      BY <2>2 DEF IInv, Recent
<1> QED
    BY <1>1, Invariance, PTL
=============================================================================
