------------------------------ MODULE Accounts ------------------------------
(***************************************************************************)
(* Users, passwords, usernames, one-time codes and tokens: AuthService      *)
(* (registerUser, login, forgotPassword, resendOtp, resetPassword),        *)
(* UsersService (updateUsername) behind AuthGuard, and the mail queue's    *)
(* processor.                                                              *)
(*                                                                         *)
(* A handler is one call, interleaved with the others at its awaits.  A    *)
(* code is named after the call that issued it: the six random digits of   *)
(* production are taken to be distinct.  is_email_verified, its timestamp  *)
(* and status change together and are one field, status.  Users are never  *)
(* deleted.  The clock ticks in quarters of an hour.                       *)
(*                                                                         *)
(* Not in this code: the unique indexes of the users table, the cache,     *)
(* BullMQ, the SMTP server, and the signature of a token, taken as one     *)
(* that only signJwt can make; a token may be refused as expired at any    *)
(* time.                                                                   *)
(***************************************************************************)
EXTENDS Naturals, Jobs

CONSTANTS
  Emails,     \* who may register; a user is known by the email
  Names,      \* usernames
  Passwords,  \* passwords a call may carry
  Default,    \* 'defaultPassword', set at registration, and free to be chosen
  Handlers,   \* calls, each run once
  Calls,      \* the arguments calls may carry
  Opening,    \* the users table at the start
  Sessions,   \* users with a token at the start
  Epoch,      \* the quarters of an hour that Date.now() counts at the start
  MaxTime,    \* ticks of the clock in a behaviour
  MaxCrashes, \* crashes of the process in a behaviour
  Nobody      \* no user row, no name, no code

UserType ==
  [hash: Passwords, status: {"PENDING", "ACTIVE"},
   name: Names \cup {Nobody}]

CallType ==
  [op: {"register", "resend", "forgot"}, email: Emails]
  \cup [op: {"reset", "login"}, email: Emails, password: Passwords]
  \cup [op: {"rename"}, email: Emails, name: Names]

CodeType == [by: Handlers, at: 0..MaxTime]

(* No two rows of a users table have one name; who holds a token is in the  *)
(* table and verified.                                                      *)
DistinctNames(table) ==
  \A e, f \in Emails :
    table[e] # Nobody /\ table[f] # Nobody /\ table[e].name = table[f].name =>
      e = f \/ table[e].name = Nobody

Verified(holders, table) ==
  \A e \in holders : table[e] # Nobody /\ table[e].status = "ACTIVE"

ASSUME AccountAssumption ==
  /\ Nobody \notin UserType \cup Names \cup Handlers \cup CallType \cup CodeType
  /\ Default \in Passwords
  /\ Calls \subseteq CallType
  /\ Opening \in [Emails -> UserType \cup {Nobody}]
  /\ DistinctNames(Opening)
  /\ Sessions \subseteq Emails /\ Verified(Sessions, Opening)
  /\ Epoch \in Nat /\ MaxTime \in Nat /\ MaxCrashes \in Nat

VARIABLES
  users,   \* the users table, as committed
  cache,   \* the code stored under an email's reset-otp key, with its time
  tokens,  \* users whose login has signed a token
  now,     \* the clock, in quarters of an hour
  call,    \* arguments of the handler's call
  code,    \* the code a reset presents
  user,    \* the User object a reset read
  pc,      \* the await the handler is at
  mail,    \* the mail job a handler added
  sent,    \* handlers whose mail was delivered
  crashes

handler == <<call, code, user, pc>>
post    == <<mail, sent>>
rest    == <<tokens, now, crashes>>
vars    == <<users, cache, handler, post, rest>>

Ended == {"done", "failed"}

TypeOK ==
  /\ users \in [Emails -> UserType \cup {Nobody}]
  /\ cache \in [Emails -> CodeType \cup {Nobody}]
  /\ tokens \subseteq Emails
  /\ now   \in 0..MaxTime
  /\ call  \in [Handlers -> Calls \cup {Nobody}]
  /\ code  \in [Handlers -> Handlers \cup {Nobody}]
  /\ user  \in [Handlers -> UserType \cup {Nobody}]
  /\ pc    \in [Handlers -> {"idle", "karma", "check", "insert", "find", "issue",
                             "mail", "get", "load", "save", "forget", "login",
                             "lookup", "rename"} \cup Ended]
  /\ mail  \in [Handlers -> JobType(1)]
  /\ sent  \subseteq Handlers
  /\ crashes \in 0..MaxCrashes

Init ==
  /\ users = Opening
  /\ cache = [e \in Emails |-> Nobody]
  /\ tokens = Sessions
  /\ now = 0
  /\ call  = [h \in Handlers |-> Nobody]
  /\ code  = [h \in Handlers |-> Nobody]
  /\ user  = [h \in Handlers |-> Nobody]
  /\ pc    = [h \in Handlers |-> "idle"]
  /\ mail  = [h \in Handlers |-> NoJob]
  /\ sent  = {}
  /\ crashes = 0

-----------------------------------------------------------------------------
GoTo(h, point) == pc' = [pc EXCEPT ![h] = point]

Email(h) == call[h].email

(* The promise rejects: a refusal, a database or a cache error. *)
Throw(h) ==
  /\ GoTo(h, "failed")
  /\ UNCHANGED <<users, cache, call, code, user, post, rest>>

(* The await before "to" has given its result. *)
Pass(h, to) ==
  /\ GoTo(h, to)
  /\ UNCHANGED <<users, cache, call, code, user, post, rest>>

(* The unique index on users.username lets e have the name. *)
NameIsFree(name, e) ==
  \A f \in {f \in Emails \ {e} : users[f] # Nobody} :
    name # Nobody => users[f].name # name

Entry ==
  [register |-> "karma", resend |-> "find", forgot |-> "find",
   reset |-> "get", login |-> "login", rename |-> "lookup"]

(* AuthGuard.canActivate: updateUsername, unlike the calls of AuthService,  *)
(* is for the holder of a token, and about that user.                       *)
CanActivate(c) == c.op = "rename" => c.email \in tokens

(* A request arrives and the guard lets it pass.  The code a reset carries  *)
(* is whatever the caller typed.                                            *)
Arrive(h) ==
  /\ pc[h] = "idle"
  /\ \E c \in Calls :
       /\ CanActivate(c)
       /\ call' = [call EXCEPT ![h] = c]
       /\ GoTo(h, Entry[c.op])
       /\ IF c.op = "reset"
            THEN \E g \in Handlers : code' = [code EXCEPT ![h] = g]
            ELSE UNCHANGED code
  /\ UNCHANGED <<users, cache, user, post, rest>>

-----------------------------------------------------------------------------
(* registerUser *)

(* checkKarma, in production; a listed email or an error ends the call.     *)
Karma(h) ==
  /\ pc[h] = "karma"
  /\ Pass(h, "check") \/ Throw(h)

CheckEmail(h) ==
  /\ pc[h] = "check"
  /\ IF users[Email(h)] = Nobody THEN Pass(h, "insert") ELSE Throw(h)

NewUser == [hash |-> Default, status |-> "PENDING", name |-> Nobody]

(* Mutant of InsertUser: no unique index on email; the later row wins.      *)
InsertUserTwice(h) ==
  /\ pc[h] = "insert"
  /\ users' = [users EXCEPT ![Email(h)] = NewUser]
  /\ GoTo(h, "find")
  /\ UNCHANGED <<cache, call, code, user, post, rest>>

InsertUser(h) ==
  /\ pc[h] = "insert"
  /\ users[Email(h)] = Nobody
  /\ users' = [users EXCEPT ![Email(h)] = NewUser]
  /\ GoTo(h, "find")
  /\ UNCHANGED <<cache, call, code, user, post, rest>>

(* Registered meanwhile: the unique index on email refuses the row. *)
DuplicateEmail(h) ==
  /\ pc[h] = "insert"
  /\ users[Email(h)] # Nobody
  /\ Throw(h)

-----------------------------------------------------------------------------
(* forgotPassword, and resendOtp, which registerUser ends with *)

(* Whether the email exists is not revealed. *)
FindUser(h) ==
  /\ pc[h] = "find"
  /\ Pass(h, IF users[Email(h)] = Nobody THEN "done" ELSE "issue")

(* Both use the RESET_PASSWORD_OTP key.  The lifetime given to the cache is *)
(* the time of day a quarter of an hour from now, in milliseconds.          *)
IssueCode(h) ==
  /\ pc[h] = "issue"
  /\ cache' = [cache EXCEPT ![Email(h)] = [by |-> h, at |-> now]]
  /\ GoTo(h, "mail")
  /\ UNCHANGED <<users, call, code, user, post, rest>>

(* Mutant of QueueMail: the code is stored and the mail forgotten. *)
QueueNothing(h) == pc[h] = "mail" /\ Pass(h, "done")

QueueMail(h) ==
  /\ pc[h] = "mail"
  /\ mail' = [mail EXCEPT ![h] = Added(1)]
  /\ GoTo(h, "done")
  /\ UNCHANGED <<users, cache, call, code, user, sent, rest>>

-----------------------------------------------------------------------------
(* resetPassword *)

Lifetime(entry) == Epoch + entry.at + 1

(* The entry the cache still holds for e. *)
Stored(e) ==
  IF cache[e] # Nobody /\ now - cache[e].at <= Lifetime(cache[e])
    THEN cache[e].by ELSE Nobody

CheckCode(h) ==
  /\ pc[h] = "get"
  /\ IF Stored(Email(h)) = code[h] THEN Pass(h, "load") ELSE Throw(h)

(* No such user: the call fails. *)
LoadUser(h) ==
  /\ pc[h] = "load"
  /\ users[Email(h)] # Nobody
  /\ user' = [user EXCEPT ![h] = users[Email(h)]]
  /\ GoTo(h, "save")
  /\ UNCHANGED <<users, cache, call, code, post, rest>>

(* Mutant of SaveUser: the row is written without its name. *)
SaveUserUnnamed(h) ==
  /\ pc[h] = "save"
  /\ users' = [users EXCEPT ![Email(h)] =
                 [hash |-> call[h].password, status |-> "ACTIVE", name |-> Nobody]]
  /\ GoTo(h, "forget")
  /\ UNCHANGED <<cache, call, code, user, post, rest>>

(* The whole row is written back, the name with it. *)
SaveUser(h) ==
  /\ pc[h] = "save"
  /\ NameIsFree(user[h].name, Email(h))
  /\ users' = [users EXCEPT ![Email(h)] =
                 [hash |-> call[h].password, status |-> "ACTIVE", name |-> user[h].name]]
  /\ GoTo(h, "forget")
  /\ UNCHANGED <<cache, call, code, user, post, rest>>

(* The name read with the row is by now another user's. *)
SaveRefused(h) ==
  /\ pc[h] = "save"
  /\ ~NameIsFree(user[h].name, Email(h))
  /\ Throw(h)

(* Mutant of ForgetCode: cache.del is not called. *)
KeepCode(h) == pc[h] = "forget" /\ Pass(h, "done")

ForgetCode(h) ==
  /\ pc[h] = "forget"
  /\ cache' = [cache EXCEPT ![Email(h)] = Nobody]
  /\ GoTo(h, "done")
  /\ UNCHANGED <<users, call, code, user, post, rest>>

-----------------------------------------------------------------------------
(* login *)

(* Mutant of MayLogin: is_email_verified is not looked at. *)
MayLoginUnverified(h) ==
  users[Email(h)] # Nobody /\ users[Email(h)].hash = call[h].password

MayLogin(h) ==
  /\ users[Email(h)] # Nobody
  /\ users[Email(h)].status = "ACTIVE"
  /\ users[Email(h)].hash = call[h].password

Login(h) ==
  /\ pc[h] = "login"
  /\ MayLogin(h)
  /\ tokens' = tokens \cup {Email(h)}
  /\ GoTo(h, "done")
  /\ UNCHANGED <<users, cache, call, code, user, post, now, crashes>>

(* "Invalid credentials" or "Email not verified". *)
LoginRefused(h) == pc[h] = "login" /\ ~MayLogin(h) /\ Throw(h)

-----------------------------------------------------------------------------
(* updateUsername *)

LookupName(h) ==
  /\ pc[h] = "lookup"
  /\ IF NameIsFree(call[h].name, Email(h)) THEN Pass(h, "rename") ELSE Throw(h)

Rename(h) ==
  /\ pc[h] = "rename"
  /\ NameIsFree(call[h].name, Email(h))
  /\ users' = [users EXCEPT ![Email(h)].name = call[h].name]
  /\ GoTo(h, "done")
  /\ UNCHANGED <<cache, call, code, user, post, rest>>

(* Taken meanwhile: the unique index on username refuses it. *)
DuplicateName(h) ==
  /\ pc[h] = "rename"
  /\ ~NameIsFree(call[h].name, Email(h))
  /\ Throw(h)

(* A query, the cache or the queue fails, or the two passwords of a reset   *)
(* differ or are too short.                                                 *)
CallFails(h) == pc[h] \notin {"idle"} \cup Ended /\ Throw(h)

-----------------------------------------------------------------------------
(* MailProcessor *)

StartMail(h) ==
  /\ mail[h].state = "waiting"
  /\ mail' = [mail EXCEPT ![h] = Started(@)]
  /\ UNCHANGED <<users, cache, handler, sent, rest>>

SendMail(h) ==
  /\ mail[h].state = "active"
  /\ sent' = sent \cup {h}
  /\ mail' = [mail EXCEPT ![h] = Succeeded(@)]
  /\ UNCHANGED <<users, cache, handler, rest>>

(* The error of a reset mail is rethrown, and no attempt is left; that of a *)
(* verification mail is logged only, and the job counts as completed.       *)
SendFails(h) ==
  /\ mail[h].state = "active"
  /\ mail' = [mail EXCEPT ![h] = IF call[h].op = "forgot" THEN Threw(@) ELSE Succeeded(@)]
  /\ UNCHANGED <<users, cache, handler, sent, rest>>

-----------------------------------------------------------------------------
Tick ==
  /\ now < MaxTime
  /\ now' = now + 1
  /\ UNCHANGED <<users, cache, tokens, handler, post, crashes>>

(* The process dies: its calls are lost, active jobs have stalled.  The     *)
(* codes go with it: app.module.ts hands CacheModule the Redis client as    *)
(* "store", a key that @nestjs/cache-manager 3 does not read (it reads      *)
(* "stores"), so the cache is the memory of the process.                    *)
Crash ==
  /\ crashes < MaxCrashes
  /\ crashes' = crashes + 1
  /\ pc' = [h \in Handlers |-> IF pc[h] \in {"idle"} \cup Ended THEN pc[h] ELSE "failed"]
  /\ mail' = [h \in Handlers |->
                IF mail[h].state = "active" THEN Stalled(mail[h]) ELSE mail[h]]
  /\ cache' = [e \in Emails |-> Nobody]
  /\ UNCHANGED <<users, tokens, now, call, code, user, sent>>

Step(h) ==
  \/ Karma(h) \/ CheckEmail(h) \/ InsertUser(h) \/ DuplicateEmail(h)
  \/ FindUser(h) \/ IssueCode(h) \/ QueueMail(h)
  \/ CheckCode(h) \/ LoadUser(h) \/ SaveUser(h) \/ SaveRefused(h) \/ ForgetCode(h)
  \/ Login(h) \/ LoginRefused(h)
  \/ LookupName(h) \/ Rename(h) \/ DuplicateName(h)

Quiet ==
  /\ \A h \in Handlers : pc[h] \in Ended /\ (mail[h] = NoJob \/ Over(mail[h]))
  /\ UNCHANGED vars

Next ==
  \/ \E h \in Handlers :
       Arrive(h) \/ Step(h) \/ CallFails(h) \/ StartMail(h) \/ SendMail(h) \/ SendFails(h)
  \/ Tick
  \/ Crash
  \/ Quiet

Spec == Init /\ [][Next]_vars

-----------------------------------------------------------------------------
(* Properties *)

(* The calls that have stored a code for e. *)
Issuers(e) ==
  {g \in Handlers : /\ pc[g] \in {"mail"} \cup Ended
                    /\ call[g] # Nobody
                    /\ call[g].op \in {"register", "resend", "forgot"}
                    /\ Email(g) = e}

(* The passwords given to e by resets that presented a code issued to e and *)
(* found the user, and the one a verified user had at the start.            *)
Chosen(e) ==
  {call[h].password : h \in {g \in Handlers : /\ user[g] # Nobody
                                              /\ Email(g) = e
                                              /\ code[g] \in Issuers(e)}}
  \cup (IF Opening[e] # Nobody /\ Opening[e].status = "ACTIVE"
          THEN {Opening[e].hash} ELSE {})

(* Whoever holds a token is verified and has a password that was chosen     *)
(* with a code sent to the email, and no login passes with any other.  The  *)
(* password every user is registered with opens an account only if somebody *)
(* with such a code chose that very password, whatever overlaps with the    *)
(* registration.                                                            *)
TokensAreEarned ==
  /\ Verified(tokens, users)
  /\ \A e \in tokens : users[e].hash \in Chosen(e)
  /\ \A h \in Handlers :
       pc[h] = "done" /\ call[h].op = "login" => call[h].password \in Chosen(Email(h))

(* Of the registrations of one email, however they overlap, at most one is  *)
(* past its insert or has left a code, and only if the email was free.      *)
Registrations(e) ==
  {h \in Handlers : /\ call[h] # Nobody /\ call[h].op = "register" /\ Email(h) = e
                    /\ \/ pc[h] \in {"find", "issue", "mail", "done"}
                       \/ cache[e] # Nobody /\ cache[e].by = h}

RegisteredOnce ==
  \A e \in Emails : \A g, h \in Registrations(e) : g = h /\ Opening[e] = Nobody

(* updateUsername tests a name and writes it later, resetPassword writes    *)
(* back a name it read earlier.  Still a name changes only to one that      *)
(* nobody has, as transfers are addressed by it, and only by a rename of    *)
(* the user, or back, when a reset overlapped such a rename.                *)
RenamesOf(e) ==
  {h \in Handlers : call[h] # Nobody /\ call[h].op = "rename" /\ Email(h) = e}

NamesChangeByOwner ==
  [][/\ DistinctNames(users')
     /\ \A e \in Emails :
          users[e] # Nobody /\ users'[e].name # users[e].name =>
            \/ \E h \in RenamesOf(e) : pc[h] = "rename" /\ users'[e].name = call[h].name
            \/ /\ \E h \in Handlers : /\ pc[h] = "save" /\ pc'[h] = "forget"
                                     /\ Email(h) = e /\ users'[e].name = user[h].name
               /\ \E g \in RenamesOf(e) : pc[g] = "done"]_vars

(* A reset gets past the check only with a code that was issued to its      *)
(* email, and once it has been answered that code is not accepted again,    *)
(* whatever was issued or reset in between: only resets that overlap can    *)
(* share a code.                                                            *)
SpentCodesAreGone ==
  \A h \in Handlers :
    pc[h] \in {"load", "save", "forget", "done"} /\ call[h].op = "reset" =>
      /\ code[h] \in Issuers(Email(h))
      /\ pc[h] = "done" => Stored(Email(h)) # code[h]

(* A registered user stays registered and a verified one verified, whichever *)
(* stale rows are written back.                                             *)
VerifiedForGood ==
  [][\A e \in Emails : users[e] # Nobody =>
       /\ users'[e] # Nobody
       /\ users[e].status = "PENDING" \/ users'[e].status = "ACTIVE"]_vars

(* A code that is stored is on its way to the user: its call is about to    *)
(* queue the mail, or has, or has failed in between and said so.  A mail    *)
(* that counts as completed was delivered, except for a verification mail,  *)
(* whose error nobody is told.                                              *)
StoredCodesAreMailed ==
  /\ \A e \in Emails :
       cache[e] # Nobody =>
         LET h == cache[e].by
         IN  Email(h) = e /\ (pc[h] \in {"mail", "failed"} \/ mail[h] # NoJob)
  /\ \A h \in Handlers :
       mail[h].state = "done" => h \in sent \/ call[h].op \in {"register", "resend"}

(* "15 minutes", auth.service.ts:86 and :114, and "Invalid or expired OTP", *)
(* :149: a code is accepted within a quarter of an hour of its issue.       *)
CodesExpire ==
  [][\A h \in Handlers :
       pc[h] = "get" /\ pc'[h] = "load" => now - cache[Email(h)].at <= 1]_vars
=============================================================================
