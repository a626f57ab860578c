---------------------------- MODULE AccountsProofs ----------------------------
(***************************************************************************)
(* Accounts, for every set of users, calls, ticks and crashes: types, what *)
(* a token says of its holder, that one registration of an email succeeds, *)
(* that a reset needs a code issued to its own email and leaves none       *)
(* behind it, that a stored code is on its way to the user, how a name may *)
(* change and that a verification is final.                                *)
(***************************************************************************)
EXTENDS Accounts, JobsProofs, TLAPS

Senders == {"register", "resend", "forgot"}

(* Where each kind of call may be.  A rename is past the guard, so its user *)
(* holds a token; a reset past its read has found the row.                  *)
CallInv ==
  \A h \in Handlers :
    /\ pc[h] # "idle" => call[h] \in Calls
    /\ pc[h] \in {"karma", "check", "insert"} => call[h].op = "register"
    /\ pc[h] \in {"find", "issue", "mail"} => call[h].op \in Senders
    /\ pc[h] \in {"get", "load", "save", "forget"} =>
         call[h].op = "reset" /\ code[h] \in Handlers
    /\ pc[h] = "login" => call[h].op = "login"
    /\ pc[h] \in {"lookup", "rename"} => call[h].op = "rename" /\ Email(h) \in tokens
    /\ pc[h] = "save" => user[h] # Nobody /\ users[Email(h)] # Nobody

UsersInv == DistinctNames(users) /\ Verified(tokens, users)

(* The name a reset has read is the row's, unless a rename of the user has  *)
(* been committed.                                                          *)
ReadInv ==
  \A h \in Handlers :
    pc[h] = "save" =>
      \/ user[h].name = users[Email(h)].name
      \/ \E g \in RenamesOf(Email(h)) : pc[g] = "done"

(* A stored code was issued to its email.  A reset that got past the check  *)
(* presented such a code, and one that is done has removed it: its issuer   *)
(* never stores it again.                                                   *)
CodeInv ==
  /\ \A e \in Emails : cache[e] # Nobody => cache[e].by \in Issuers(e)
  /\ \A h \in Handlers :
       pc[h] = "done" /\ call[h].op = "reset" =>
         /\ code[h] \in Issuers(Email(h))
         /\ cache[Email(h)] = Nobody \/ cache[Email(h)].by # code[h]

(* A job is added as the last step of its call, and is run with an attempt  *)
(* left.                                                                    *)
MailInv ==
  \A h \in Handlers :
    /\ mail[h] # NoJob => pc[h] = "done" /\ call[h].op \in Senders
    /\ mail[h].state \in {"waiting", "active"} => mail[h].left > 0

ResetInv ==
  \A h \in Handlers :
    pc[h] \in {"load", "save", "forget"} => code[h] \in Issuers(Email(h))

IInv ==
  /\ TypeOK /\ CallInv /\ UsersInv /\ ReadInv /\ CodeInv /\ MailInv
  /\ ResetInv /\ StoredCodesAreMailed

(* Codes stay issued and finished renames finished, as no call that has     *)
(* passed those points moves back or changes.                               *)
LEMMA PastGrows ==
  ASSUME \A g \in Handlers :
           pc[g] \in {"mail"} \cup Ended =>
             /\ call'[g] = call[g]
             /\ pc'[g] \in {"mail"} \cup Ended
             /\ pc[g] = "done" => pc'[g] = "done"
  PROVE  /\ \A e : Issuers(e) \subseteq Issuers(e)'
         /\ \A e : \A g \in RenamesOf(e) :
              pc[g] = "done" => g \in RenamesOf(e)' /\ pc'[g] = "done"
BY DEF Issuers, RenamesOf, Email, Ended

(* A call that writes nothing, and goes on or fails, keeps the invariant.   *)
LEMMA MoveKeeps ==
  ASSUME IInv, NEW h \in Handlers,
         NEW to \in {"check", "insert", "issue", "load", "rename", "done", "failed"},
         Pass(h, to),
         \/ to = "failed" /\ pc[h] \notin {"idle"} \cup Ended
         \/ pc[h] = "karma" /\ to = "check"
         \/ pc[h] = "check" /\ to = "insert"
         \/ pc[h] = "find" /\ to \in {"issue", "done"}
         \/ pc[h] = "get" /\ to = "load" /\ code[h] \in Issuers(Email(h))
         \/ pc[h] = "lookup" /\ to = "rename"
  PROVE  IInv'
<1> USE DEF handler, post, rest, Ended
<1>1. /\ pc' = [pc EXCEPT ![h] = to] /\ DOMAIN pc = Handlers
      /\ UNCHANGED <<users, cache, tokens, now, call, code, user, mail, sent, crashes>>
  BY DEF Pass, GoTo, IInv, TypeOK
<1>2. /\ pc'[h] = to /\ \A g \in Handlers \ {h} : pc'[g] = pc[g]
      /\ pc[h] \notin {"idle", "done", "failed"}
      /\ call[h] \in Calls /\ mail[h] = NoJob
  BY <1>1 DEF IInv, CallInv, MailInv
<1>3. TypeOK' /\ UsersInv' /\ MailInv'
  BY <1>1, <1>2 DEF IInv, TypeOK, UsersInv, MailInv
<1>4. CallInv'
  BY <1>1, <1>2 DEF IInv, CallInv, Email
<1>5. /\ \A e : Issuers(e) \subseteq Issuers(e)'
      /\ \A e : \A g \in RenamesOf(e) :
           pc[g] = "done" => g \in RenamesOf(e)' /\ pc'[g] = "done"
  BY <1>1, <1>2, PastGrows
<1>6. ReadInv'
  BY <1>1, <1>2, <1>5 DEF IInv, ReadInv, Email
<1>7. CodeInv' /\ ResetInv'
  <2>1. pc'[h] = "done" => call[h].op # "reset"
    BY <1>1, <1>2 DEF IInv, CallInv, Senders
  <2> QED
    BY <1>1, <1>2, <1>5, <2>1 DEF IInv, CodeInv, ResetInv, Email
<1>8. StoredCodesAreMailed'
  BY <1>1, <1>2 DEF IInv, StoredCodesAreMailed, Email
<1> QED
  BY <1>3, <1>4, <1>6, <1>7, <1>8 DEF IInv


(* A reset writes a verified row of the user it is about.                   *)
LEMMA SaveWrites ==
  ASSUME IInv, NEW h \in Handlers, SaveUser(h)
  PROVE  /\ Email(h) \in Emails /\ users[Email(h)] \in UserType \ {Nobody}
         /\ users' \in [Emails -> UserType \cup {Nobody}]
         /\ users'[Email(h)] \in UserType \ {Nobody}
         /\ users'[Email(h)].hash = call[h].password /\ users'[Email(h)].status = "ACTIVE"
         /\ users'[Email(h)].name = user[h].name
         /\ \A e \in Emails \ {Email(h)} : users'[e] = users[e]
<1> DEFINE row == [hash |-> call[h].password, status |-> "ACTIVE", name |-> user[h].name]
<1>1. /\ users' = [users EXCEPT ![Email(h)] = row] /\ pc[h] = "save"
      /\ users \in [Emails -> UserType \cup {Nobody}]
  BY DEF SaveUser, IInv, TypeOK
<1>2. /\ call[h] \in CallType /\ call[h].op = "reset"
      /\ user[h] \in UserType /\ users[Email(h)] # Nobody
  BY <1>1, AccountAssumption DEF IInv, CallInv, TypeOK
<1>3. Email(h) \in Emails /\ call[h].password \in Passwords
  BY <1>2 DEF CallType, Email
<1>4. row \in UserType /\ row # Nobody
  BY <1>2, <1>3, AccountAssumption DEF UserType
<1>5. users'[Email(h)] = row
  BY <1>1, <1>3
<1> QED
  BY <1>1, <1>2, <1>3, <1>4, <1>5

(* A rename writes the name only, in the row of a user with a token.        *)
LEMMA RenameWrites ==
  ASSUME IInv, NEW h \in Handlers, Rename(h)
  PROVE  /\ Email(h) \in Emails /\ users[Email(h)] \in UserType \ {Nobody}
         /\ users' \in [Emails -> UserType \cup {Nobody}]
         /\ users'[Email(h)] \in UserType \ {Nobody}
         /\ users'[Email(h)].hash = users[Email(h)].hash
         /\ users'[Email(h)].status = users[Email(h)].status
         /\ users'[Email(h)].name = call[h].name
         /\ \A e \in Emails \ {Email(h)} : users'[e] = users[e]
         /\ h \in RenamesOf(Email(h)) /\ Email(h) \in tokens
<1>1. /\ users' = [users EXCEPT ![Email(h)].name = call[h].name] /\ pc[h] = "rename"
      /\ users \in [Emails -> UserType \cup {Nobody}]
  BY DEF Rename, IInv, TypeOK
<1>2. call[h] \in CallType /\ call[h] # Nobody /\ call[h].op = "rename" /\ Email(h) \in tokens
  BY <1>1, AccountAssumption DEF IInv, CallInv
<1>3. Email(h) \in Emails /\ call[h].name \in Names
  BY <1>2 DEF CallType, Email
<1>4. users[Email(h)] \in UserType /\ users[Email(h)] # Nobody
  BY <1>1, <1>2, <1>3 DEF IInv, UsersInv, Verified
<1>5. users'[Email(h)] = [users[Email(h)] EXCEPT !.name = call[h].name]
  BY <1>1, <1>3
<1>6. /\ users'[Email(h)] \in UserType /\ users'[Email(h)] # Nobody
      /\ users'[Email(h)].name = call[h].name
      /\ users'[Email(h)].status = users[Email(h)].status
      /\ users'[Email(h)].hash = users[Email(h)].hash
  BY <1>3, <1>4, <1>5, AccountAssumption DEF UserType
<1> QED
  BY <1>1, <1>2, <1>3, <1>4, <1>5, <1>6 DEF RenamesOf

(* Every step keeps the invariant. *)
LEMMA IInvStep == IInv /\ [Next]_vars => IInv'
<1> SUFFICES ASSUME IInv, [Next]_vars PROVE IInv'
  OBVIOUS
<1> USE DEF handler, post, rest, Ended
<1>a. /\ users \in [Emails -> UserType \cup {Nobody}]
      /\ cache \in [Emails -> CodeType \cup {Nobody}]
      /\ DOMAIN pc = Handlers /\ DOMAIN call = Handlers /\ DOMAIN code = Handlers
      /\ DOMAIN user = Handlers /\ mail \in [Handlers -> JobType(1)]
      /\ \A e \in Emails : cache[e] # Nobody => cache[e].by \in Handlers
  BY DEF IInv, TypeOK, CodeType
<1>b. \A h \in Handlers : pc[h] # "idle" => call[h] \in CallType /\ Email(h) \in Emails
  BY AccountAssumption DEF IInv, CallInv, CallType, Email
<1>c. \A h \in Handlers : \A to : GoTo(h, to) =>
        pc'[h] = to /\ \A g \in Handlers \ {h} : pc'[g] = pc[g]
  BY <1>a DEF GoTo
<1>1. ASSUME NEW h \in Handlers, Arrive(h) PROVE IInv'
  <2>1. PICK c \in Calls :
          /\ CanActivate(c) /\ call' = [call EXCEPT ![h] = c]
          /\ GoTo(h, Entry[c.op])
          /\ IF c.op = "reset"
               THEN \E g \in Handlers : code' = [code EXCEPT ![h] = g]
               ELSE UNCHANGED code
    BY <1>1 DEF Arrive
  <2>2. /\ pc[h] = "idle" /\ mail[h] = NoJob
        /\ UNCHANGED <<users, cache, user, mail, sent, tokens, now, crashes>>
    BY <1>1 DEF Arrive, IInv, MailInv
  <2>3. /\ c \in CallType /\ c.email \in Emails
        /\ c.op \in {"register", "resend", "forgot", "reset", "login", "rename"}
        /\ Entry[c.op] \in {"karma", "find", "get", "login", "lookup"}
    BY AccountAssumption DEF CallType, Entry
  <2>4. /\ call'[h] = c /\ pc'[h] = Entry[c.op]
        /\ \A g \in Handlers \ {h} :
             pc'[g] = pc[g] /\ call'[g] = call[g] /\ code'[g] = code[g]
        /\ c.op = "reset" => code'[h] \in Handlers
    BY <2>1, <1>a, <1>c
  <2>5. TypeOK'
    BY <2>1, <2>2, <2>3, <1>a DEF GoTo, IInv, TypeOK
  <2>6. CallInv'
    BY <2>1, <2>2, <2>3, <2>4 DEF IInv, CallInv, Email, Entry, Senders, CanActivate
  <2>7. UsersInv' /\ MailInv'
    BY <2>2, <2>4 DEF IInv, UsersInv, MailInv
  <2>8. /\ \A e : Issuers(e) \subseteq Issuers(e)'
        /\ \A e : \A g \in RenamesOf(e) :
             pc[g] = "done" => g \in RenamesOf(e)' /\ pc'[g] = "done"
    BY <2>2, <2>4, PastGrows
  <2>9. ReadInv' /\ CodeInv' /\ ResetInv'
    BY <2>2, <2>3, <2>4, <2>8
       DEF IInv, ReadInv, CodeInv, ResetInv, Email
  <2>10. StoredCodesAreMailed'
    BY <2>2, <2>4 DEF IInv, StoredCodesAreMailed, CodeInv, Issuers, Email, NoJob
  <2> QED
    BY <2>5, <2>6, <2>7, <2>9, <2>10 DEF IInv
<1>2. ASSUME NEW h \in Handlers, InsertUser(h) PROVE IInv'
  <2>1. /\ users' = [users EXCEPT ![Email(h)] = NewUser] /\ users[Email(h)] = Nobody
        /\ GoTo(h, "find") /\ pc[h] = "insert"
        /\ UNCHANGED <<cache, call, code, user, mail, sent, tokens, now, crashes>>
    BY <1>2 DEF InsertUser
  <2>2. /\ Email(h) \in Emails /\ NewUser \in UserType /\ NewUser.name = Nobody
        /\ NewUser.status = "PENDING" /\ NewUser # Nobody
        /\ users'[Email(h)] = NewUser
        /\ \A e \in Emails \ {Email(h)} : users'[e] = users[e]
    BY <2>1, <1>a, <1>b, AccountAssumption DEF NewUser, UserType
  <2>3. /\ pc'[h] = "find" /\ \A g \in Handlers \ {h} : pc'[g] = pc[g]
        /\ mail[h] = NoJob /\ call[h].op = "register"
    BY <2>1, <1>c DEF IInv, MailInv, CallInv
  <2>4. TypeOK'
    BY <2>1, <2>2, <1>a DEF GoTo, IInv, TypeOK
  <2>5. CallInv'
    BY <2>1, <2>2, <2>3 DEF IInv, CallInv, Email, Senders
  <2>6. UsersInv'
    BY <2>1, <2>2 DEF IInv, UsersInv, DistinctNames, Verified
  <2>7. MailInv' /\ StoredCodesAreMailed'
    BY <2>1, <2>3, <1>a DEF IInv, MailInv, StoredCodesAreMailed, Email
  <2>8. /\ \A e : Issuers(e) \subseteq Issuers(e)'
        /\ \A e : \A g \in RenamesOf(e) :
             pc[g] = "done" => g \in RenamesOf(e)' /\ pc'[g] = "done"
    BY <2>1, <2>3, PastGrows
  <2>9. ReadInv'
    BY <2>1, <2>2, <2>3, <2>8, <1>b DEF IInv, ReadInv, CallInv, Email
  <2>10. CodeInv' /\ ResetInv'
    BY <2>1, <2>3, <2>8 DEF IInv, CodeInv, ResetInv, Email
  <2> QED
    BY <2>4, <2>5, <2>6, <2>7, <2>9, <2>10 DEF IInv
<1>3. ASSUME NEW h \in Handlers, IssueCode(h) PROVE IInv'
  <2>1. /\ cache' = [cache EXCEPT ![Email(h)] = [by |-> h, at |-> now]]
        /\ GoTo(h, "mail") /\ pc[h] = "issue"
        /\ UNCHANGED <<users, call, code, user, mail, sent, tokens, now, crashes>>
    BY <1>3 DEF IssueCode
  <2>2. /\ pc'[h] = "mail" /\ \A g \in Handlers \ {h} : pc'[g] = pc[g]
        /\ mail[h] = NoJob /\ call[h].op \in Senders /\ call[h] # Nobody
        /\ call'[h] = call[h] /\ Email(h)' = Email(h) /\ Email(h) \in Emails
    BY <2>1, <1>b, <1>c, AccountAssumption DEF IInv, MailInv, CallInv, Email
  <2>3. [by |-> h, at |-> now] \in CodeType
    BY DEF IInv, TypeOK, CodeType
  <2>4. TypeOK'
    BY <2>1, <2>3, <1>a DEF GoTo, IInv, TypeOK
  <2>5. CallInv' /\ UsersInv' /\ MailInv'
    BY <2>1, <2>2 DEF IInv, CallInv, UsersInv, MailInv, Email
  <2>6. /\ \A e : Issuers(e) \subseteq Issuers(e)'
        /\ \A e : \A g \in RenamesOf(e) :
             pc[g] = "done" => g \in RenamesOf(e)' /\ pc'[g] = "done"
        /\ \A e : h \notin Issuers(e)
    BY <2>1, <2>2, PastGrows DEF Issuers
  <2>7. h \in Issuers(Email(h))'
    BY <2>1, <2>2 DEF Issuers, Senders, Email
  <2>8. /\ cache'[Email(h)].by = h /\ cache'[Email(h)] # Nobody
        /\ \A e \in Emails \ {Email(h)} : cache'[e] = cache[e]
    BY <2>1, <2>2, <2>3, <1>a, AccountAssumption
  <2>9. ReadInv' /\ ResetInv'
    BY <2>1, <2>2, <2>6 DEF IInv, ReadInv, ResetInv, Email
  <2>10. CodeInv'
    BY <2>1, <2>2, <2>6, <2>7, <2>8, <1>b DEF IInv, CodeInv, Email
  <2>11. StoredCodesAreMailed'
    BY <2>1, <2>2, <2>8, <1>a DEF IInv, StoredCodesAreMailed, Email
  <2> QED
    BY <2>4, <2>5, <2>9, <2>10, <2>11 DEF IInv
<1>4. ASSUME NEW h \in Handlers, QueueMail(h) PROVE IInv'
  <2>1. /\ mail' = [mail EXCEPT ![h] = Added(1)] /\ GoTo(h, "done") /\ pc[h] = "mail"
        /\ UNCHANGED <<users, cache, call, code, user, sent, tokens, now, crashes>>
    BY <1>4 DEF QueueMail
  <2>2. /\ pc'[h] = "done" /\ \A g \in Handlers \ {h} : pc'[g] = pc[g]
        /\ call[h].op \in Senders /\ mail'[h] = Added(1)
        /\ \A g \in Handlers \ {h} : mail'[g] = mail[g]
    BY <2>1, <1>a, <1>c DEF IInv, CallInv
  <2>3. Added(1) \in JobType(1) /\ Added(1) # NoJob /\ Added(1).left > 0
    BY DEF Added, JobType, NoJob
  <2>4. TypeOK'
    BY <2>1, <2>3, <1>a DEF GoTo, IInv, TypeOK
  <2>5. CallInv' /\ UsersInv' /\ MailInv'
    BY <2>1, <2>2, <2>3 DEF IInv, CallInv, UsersInv, MailInv, Email
  <2>6. /\ \A e : Issuers(e) \subseteq Issuers(e)'
        /\ \A e : \A g \in RenamesOf(e) :
             pc[g] = "done" => g \in RenamesOf(e)' /\ pc'[g] = "done"
    BY <2>1, <2>2, PastGrows
  <2>7. ReadInv' /\ ResetInv' /\ CodeInv'
    BY <2>1, <2>2, <2>6
       DEF IInv, ReadInv, ResetInv, CodeInv, Email, Senders
  <2>8. StoredCodesAreMailed'
    BY <2>1, <2>2, <2>3, <1>a DEF IInv, StoredCodesAreMailed, Email, Added
  <2> QED
    BY <2>4, <2>5, <2>7, <2>8 DEF IInv
<1>5. ASSUME NEW h \in Handlers, LoadUser(h) PROVE IInv'
  <2>1. /\ user' = [user EXCEPT ![h] = users[Email(h)]] /\ users[Email(h)] # Nobody
        /\ GoTo(h, "save") /\ pc[h] = "load"
        /\ UNCHANGED <<users, cache, call, code, mail, sent, tokens, now, crashes>>
    BY <1>5 DEF LoadUser
  <2>2. /\ pc'[h] = "save" /\ \A g \in Handlers \ {h} : pc'[g] = pc[g]
        /\ user'[h] = users[Email(h)] /\ \A g \in Handlers \ {h} : user'[g] = user[g]
        /\ Email(h) \in Emails /\ call[h].op = "reset" /\ mail[h] = NoJob
        /\ code[h] \in Issuers(Email(h)) /\ code[h] \in Handlers
    BY <2>1, <1>a, <1>b, <1>c DEF IInv, CallInv, MailInv, ResetInv
  <2>3. TypeOK'
    BY <2>1, <2>2, <1>a DEF GoTo, IInv, TypeOK
  <2>4. CallInv' /\ UsersInv' /\ MailInv'
    BY <2>1, <2>2 DEF IInv, CallInv, UsersInv, MailInv, Email
  <2>5. /\ \A e : Issuers(e) \subseteq Issuers(e)'
        /\ \A e : \A g \in RenamesOf(e) :
             pc[g] = "done" => g \in RenamesOf(e)' /\ pc'[g] = "done"
    BY <2>1, <2>2, PastGrows
  <2>6. ReadInv' /\ ResetInv' /\ CodeInv'
    BY <2>1, <2>2, <2>5 DEF IInv, ReadInv, ResetInv, CodeInv, Email
  <2>7. StoredCodesAreMailed'
    BY <2>1, <2>2, <1>a DEF IInv, StoredCodesAreMailed, Email
  <2> QED
    BY <2>3, <2>4, <2>6, <2>7 DEF IInv
<1>6. ASSUME NEW h \in Handlers, SaveUser(h) PROVE IInv'
  <2>1. /\ GoTo(h, "forget") /\ pc[h] = "save" /\ NameIsFree(user[h].name, Email(h))
        /\ UNCHANGED <<cache, call, code, user, mail, sent, tokens, now, crashes>>
    BY <1>6 DEF SaveUser
  <2>2. /\ pc'[h] = "forget" /\ \A g \in Handlers \ {h} : pc'[g] = pc[g]
        /\ call[h].op = "reset" /\ mail[h] = NoJob
        /\ code[h] \in Issuers(Email(h)) /\ code[h] \in Handlers
    BY <2>1, <1>c DEF IInv, CallInv, MailInv, ResetInv
  <2>3. /\ Email(h) \in Emails /\ users[Email(h)] # Nobody
        /\ users' \in [Emails -> UserType \cup {Nobody}]
        /\ users'[Email(h)] \in UserType \ {Nobody}
        /\ users'[Email(h)].hash = call[h].password /\ users'[Email(h)].status = "ACTIVE"
        /\ users'[Email(h)].name = user[h].name
        /\ \A e \in Emails \ {Email(h)} : users'[e] = users[e]
    BY <1>6, SaveWrites
  <2>4. TypeOK'
    BY <2>1, <2>3, <1>a DEF GoTo, IInv, TypeOK
  <2>5. CallInv' /\ MailInv'
    BY <2>1, <2>2, <2>3, <1>b DEF IInv, CallInv, MailInv, Email
  <2>6. UsersInv'
    <3>1. DistinctNames(users')
      BY <2>1, <2>3 DEF IInv, UsersInv, DistinctNames, NameIsFree
    <3>2. Verified(tokens', users')
      BY <2>1, <2>3, AccountAssumption
         DEF IInv, TypeOK, UsersInv, Verified
    <3> QED
      BY <3>1, <3>2 DEF UsersInv
  <2>7. \A e : /\ Issuers(e) \subseteq Issuers(e)'
               /\ \A g \in RenamesOf(e) :
                    pc[g] = "done" => g \in RenamesOf(e)' /\ pc'[g] = "done"
    BY <2>1, <2>2, PastGrows
  <2>8. ReadInv'
    <3> SUFFICES ASSUME NEW k \in Handlers, pc[k] = "save", k # h
                 PROVE  \/ user[k].name = users'[Email(k)].name
                        \/ \E g \in RenamesOf(Email(k))' : pc'[g] = "done"
      BY <2>1, <2>2 DEF ReadInv, Email
    <3>1. Email(k)' = Email(k) /\ Email(k) \in Emails
      BY <2>1, <1>b DEF Email
    <3>2. CASE \E g \in RenamesOf(Email(k)) : pc[g] = "done"
      BY <3>1, <3>2, <2>7
    <3>3. CASE user[k].name = users[Email(k)].name /\ Email(k) # Email(h)
      BY <3>1, <3>3, <2>3
    <3>4. CASE user[k].name = users[Email(h)].name /\ Email(k) = Email(h)
      BY <3>1, <3>2, <3>4, <2>1, <2>3, <2>7 DEF IInv, ReadInv
    <3> QED
      BY <3>2, <3>3, <3>4 DEF IInv, ReadInv
  <2>9. ResetInv' /\ CodeInv'
    BY <2>1, <2>2, <2>7 DEF IInv, ResetInv, CodeInv, Email
  <2>10. StoredCodesAreMailed'
    BY <2>1, <2>2, <1>a DEF IInv, StoredCodesAreMailed, Email
  <2> QED
    BY <2>4, <2>5, <2>6, <2>8, <2>9, <2>10 DEF IInv
<1>7. ASSUME NEW h \in Handlers, ForgetCode(h) PROVE IInv'
  <2>1. /\ cache' = [cache EXCEPT ![Email(h)] = Nobody]
        /\ GoTo(h, "done") /\ pc[h] = "forget"
        /\ UNCHANGED <<users, call, code, user, mail, sent, tokens, now, crashes>>
    BY <1>7 DEF ForgetCode
  <2>2. /\ pc'[h] = "done" /\ \A g \in Handlers \ {h} : pc'[g] = pc[g]
        /\ call[h].op = "reset" /\ mail[h] = NoJob /\ Email(h) \in Emails
        /\ code[h] \in Issuers(Email(h))
        /\ cache'[Email(h)] = Nobody
        /\ \A e \in Emails \ {Email(h)} : cache'[e] = cache[e]
    BY <2>1, <1>a, <1>b, <1>c DEF IInv, CallInv, MailInv, ResetInv
  <2>3. TypeOK'
    BY <2>1, <2>2, <1>a DEF GoTo, IInv, TypeOK
  <2>4. CallInv' /\ UsersInv' /\ MailInv'
    BY <2>1, <2>2 DEF IInv, CallInv, UsersInv, MailInv, Email
  <2>5. /\ \A e : Issuers(e) \subseteq Issuers(e)'
        /\ \A e : \A g \in RenamesOf(e) :
             pc[g] = "done" => g \in RenamesOf(e)' /\ pc'[g] = "done"
    BY <2>1, <2>2, PastGrows
  <2>6. ReadInv' /\ ResetInv'
    BY <2>1, <2>2, <2>5 DEF IInv, ReadInv, ResetInv, Email
  <2>7. CodeInv'
    BY <2>1, <2>2, <2>5, <1>b DEF IInv, CodeInv, Email
  <2>8. StoredCodesAreMailed'
    BY <2>1, <2>2, <1>a DEF IInv, StoredCodesAreMailed, Email
  <2> QED
    BY <2>3, <2>4, <2>6, <2>7, <2>8 DEF IInv
<1>8. ASSUME NEW h \in Handlers, Login(h) PROVE IInv'
  <2>1. /\ tokens' = tokens \cup {Email(h)} /\ MayLogin(h)
        /\ GoTo(h, "done") /\ pc[h] = "login"
        /\ UNCHANGED <<users, cache, call, code, user, mail, sent, now, crashes>>
    BY <1>8 DEF Login
  <2>2. /\ pc'[h] = "done" /\ \A g \in Handlers \ {h} : pc'[g] = pc[g]
        /\ call[h].op = "login" /\ mail[h] = NoJob /\ Email(h) \in Emails
    BY <2>1, <1>b, <1>c DEF IInv, CallInv, MailInv
  <2>3. TypeOK' /\ MailInv'
    BY <2>1, <2>2, <1>a DEF GoTo, IInv, TypeOK, MailInv
  <2>4. CallInv'
    BY <2>1, <2>2 DEF IInv, CallInv, Email
  <2>5. UsersInv'
    BY <2>1, <2>2 DEF IInv, UsersInv, Verified, MayLogin
  <2>6. /\ \A e : Issuers(e) \subseteq Issuers(e)'
        /\ \A e : \A g \in RenamesOf(e) :
             pc[g] = "done" => g \in RenamesOf(e)' /\ pc'[g] = "done"
    BY <2>1, <2>2, PastGrows
  <2>7. ReadInv' /\ ResetInv' /\ CodeInv'
    BY <2>1, <2>2, <2>6 DEF IInv, ReadInv, ResetInv, CodeInv, Email
  <2>8. StoredCodesAreMailed'
    BY <2>1, <2>2, <1>a DEF IInv, StoredCodesAreMailed, Email
  <2> QED
    BY <2>3, <2>4, <2>5, <2>7, <2>8 DEF IInv
<1>9. ASSUME NEW h \in Handlers, Rename(h) PROVE IInv'
  <2>1. /\ GoTo(h, "done") /\ pc[h] = "rename" /\ NameIsFree(call[h].name, Email(h))
        /\ UNCHANGED <<cache, call, code, user, mail, sent, tokens, now, crashes>>
    BY <1>9 DEF Rename
  <2>2. /\ pc'[h] = "done" /\ \A g \in Handlers \ {h} : pc'[g] = pc[g]
        /\ call[h].op = "rename" /\ mail[h] = NoJob
    BY <2>1, <1>c DEF IInv, CallInv, MailInv
  <2>3. /\ Email(h) \in Emails /\ users[Email(h)] # Nobody
        /\ users' \in [Emails -> UserType \cup {Nobody}]
        /\ users'[Email(h)] \in UserType \ {Nobody}
        /\ users'[Email(h)].hash = users[Email(h)].hash
        /\ users'[Email(h)].status = users[Email(h)].status
        /\ users'[Email(h)].name = call[h].name
        /\ \A e \in Emails \ {Email(h)} : users'[e] = users[e]
        /\ h \in RenamesOf(Email(h))
    BY <1>9, RenameWrites
  <2>4. TypeOK'
    BY <2>1, <2>3, <1>a DEF GoTo, IInv, TypeOK
  <2>5. CallInv' /\ MailInv'
    BY <2>1, <2>2, <2>3, <1>b DEF IInv, CallInv, MailInv, Email
  <2>6. UsersInv'
    <3>1. DistinctNames(users')
      BY <2>1, <2>3 DEF IInv, UsersInv, DistinctNames, NameIsFree
    <3>2. Verified(tokens', users')
      BY <2>1, <2>3 DEF IInv, TypeOK, UsersInv, Verified
    <3> QED
      BY <3>1, <3>2 DEF UsersInv
  <2>7. \A e : /\ Issuers(e) \subseteq Issuers(e)'
               /\ \A g \in RenamesOf(e) :
                    pc[g] = "done" => g \in RenamesOf(e)' /\ pc'[g] = "done"
    BY <2>1, <2>2, PastGrows
  <2>8. h \in RenamesOf(Email(h))'
    BY <2>1, <2>3 DEF RenamesOf, Email
  <2>9. ReadInv'
    <3> SUFFICES ASSUME NEW k \in Handlers, pc[k] = "save", k # h
                 PROVE  \/ user[k].name = users'[Email(k)].name
                        \/ \E g \in RenamesOf(Email(k))' : pc'[g] = "done"
      BY <2>1, <2>2 DEF ReadInv, Email
    <3>1. Email(k)' = Email(k) /\ Email(h)' = Email(h) /\ Email(k) \in Emails
      BY <2>1, <1>b DEF Email
    <3>2. CASE Email(k) = Email(h)
      BY <3>1, <3>2, <2>2, <2>8
    <3>3. CASE Email(k) # Email(h)
      BY <3>1, <3>3, <2>3, <2>7 DEF IInv, ReadInv
    <3> QED
      BY <3>2, <3>3
  <2>10. ResetInv' /\ CodeInv'
    BY <2>1, <2>2, <2>7 DEF IInv, ResetInv, CodeInv, Email
  <2>11. StoredCodesAreMailed'
    BY <2>1, <2>2, <1>a DEF IInv, StoredCodesAreMailed, Email
  <2> QED
    BY <2>4, <2>5, <2>6, <2>9, <2>10, <2>11 DEF IInv
<1>10. ASSUME NEW h \in Handlers, StartMail(h) \/ SendMail(h) \/ SendFails(h)
       PROVE  IInv'
  <2>1. /\ sent' \in {sent, sent \cup {h}} /\ mail[h].state \in {"waiting", "active"}
        /\ UNCHANGED <<users, cache, tokens, now, call, code, user, pc, crashes>>
    BY <1>10 DEF StartMail, SendMail, SendFails
  <2>2. PICK job \in {Started(mail[h]), Succeeded(mail[h]), Threw(mail[h])} :
          mail' = [mail EXCEPT ![h] = job]
    BY <1>10, <1>a DEF StartMail, SendMail, SendFails
  <2>3. mail[h] # NoJob /\ mail[h].left > 0 /\ mail[h] \in JobType(1)
    BY <2>1, <1>a DEF IInv, MailInv, NoJob
  <2>4. /\ job \in JobType(1) /\ job # NoJob
        /\ job.state \in {"waiting", "active"} => job.left > 0
    BY <2>3, ThrewType DEF Started, Succeeded, JobType, NoJob
  <2>5. mail'[h] = job /\ \A g \in Handlers \ {h} : mail'[g] = mail[g]
    BY <2>2, <1>a
  <2>6. TypeOK'
    BY <2>1, <2>2, <2>4, <1>a DEF IInv, TypeOK
  <2>7. MailInv'
    BY <2>1, <2>3, <2>4, <2>5 DEF IInv, MailInv
  <2>8. CallInv' /\ UsersInv' /\ ReadInv' /\ CodeInv' /\ ResetInv'
    BY <2>1 DEF IInv, CallInv, UsersInv, ReadInv, CodeInv, ResetInv,
                Email, RenamesOf, Issuers
  <2>9. StoredCodesAreMailed'
    <3>1. job.state = "done" => h \in sent' \/ call[h].op \in {"register", "resend"}
      <4>1. CASE StartMail(h)
        BY <4>1, <2>3, <2>5, <1>a DEF StartMail, Started, JobType
      <4>2. CASE SendMail(h)
        BY <4>2 DEF SendMail
      <4>3. CASE SendFails(h)
        BY <4>3, <2>3, <2>5, <1>a DEF SendFails, Threw, IInv, MailInv, Senders
      <4> QED
        BY <1>10, <4>1, <4>2, <4>3
    <3> QED
      BY <2>1, <2>4, <2>5, <3>1, <1>a DEF IInv, StoredCodesAreMailed, Email
  <2> QED
    BY <2>6, <2>7, <2>8, <2>9 DEF IInv
<1>11. CASE Tick
  <2>1. /\ now' \in 0..MaxTime
        /\ UNCHANGED <<users, cache, tokens, call, code, user, pc, mail, sent, crashes>>
    BY <1>11, AccountAssumption DEF Tick, IInv, TypeOK
  <2> QED
    BY <2>1 DEF IInv, TypeOK, CallInv, UsersInv, ReadInv, CodeInv, MailInv,
                ResetInv, StoredCodesAreMailed, Email, RenamesOf, Issuers
<1>12. CASE Crash
  <2>1. /\ crashes' \in 0..MaxCrashes
        /\ cache' = [e \in Emails |-> Nobody]
        /\ UNCHANGED <<users, tokens, now, call, code, user, sent>>
    BY <1>12, AccountAssumption DEF Crash, IInv, TypeOK
  <2>2. /\ DOMAIN pc' = Handlers /\ DOMAIN mail' = Handlers
        /\ \A h \in Handlers :
             /\ pc'[h] = IF pc[h] \in {"idle", "done", "failed"} THEN pc[h] ELSE "failed"
             /\ mail'[h] = IF mail[h].state = "active" THEN Stalled(mail[h]) ELSE mail[h]
    BY <1>12 DEF Crash
  <2>3. \A h \in Handlers :
          /\ mail'[h] \in JobType(1) /\ (mail'[h] # NoJob <=> mail[h] # NoJob)
          /\ mail'[h].state \in {"waiting", "active"} => mail'[h].left > 0
          /\ mail'[h].state = "done" => mail[h].state = "done"
    <3> SUFFICES ASSUME NEW h \in Handlers
                 PROVE  /\ mail'[h] \in JobType(1)
                        /\ mail'[h] # NoJob <=> mail[h] # NoJob
                        /\ mail'[h].state \in {"waiting", "active"} => mail'[h].left > 0
                        /\ mail'[h].state = "done" => mail[h].state = "done"
      OBVIOUS
    <3>1. CASE mail[h].state = "active"
      BY <3>1, <2>2, <1>a, StalledType DEF IInv, MailInv, NoJob
    <3>2. CASE mail[h].state # "active"
      BY <3>2, <2>2, <1>a DEF IInv, MailInv
    <3> QED
      BY <3>1, <3>2
  <2>4. TypeOK'
    <3>1. pc' \in [Handlers -> {"idle", "done", "failed"}]
      BY <1>12 DEF Crash
    <3>2. mail' \in [Handlers -> JobType(1)]
      BY <1>12, <2>3 DEF Crash
    <3> QED
      BY <2>1, <3>1, <3>2 DEF IInv, TypeOK
  <2>5. CallInv' /\ UsersInv' /\ MailInv'
    BY <2>1, <2>2, <2>3 DEF IInv, CallInv, UsersInv, MailInv, Email
  <2>6. \A e : Issuers(e) \subseteq Issuers(e)'
    BY <2>1, <2>2, PastGrows
  <2>7. ReadInv' /\ ResetInv'
    BY <2>2 DEF ReadInv, ResetInv
  <2>8. CodeInv'
    BY <2>1, <2>2, <2>6, <1>b DEF IInv, CodeInv, Email
  <2>9. StoredCodesAreMailed'
    BY <2>1, <2>2, <2>3, <1>a DEF IInv, StoredCodesAreMailed, Email
  <2> QED
    BY <2>4, <2>5, <2>7, <2>8, <2>9 DEF IInv
<1>13. CASE UNCHANGED vars
  BY <1>13 DEF vars, IInv, TypeOK, CallInv, UsersInv, ReadInv, CodeInv, MailInv,
               ResetInv, StoredCodesAreMailed, Email, RenamesOf, Issuers
<1>14. ASSUME NEW h \in Handlers, Throw(h), pc[h] \notin {"idle"} \cup Ended
       PROVE  IInv'
  BY <1>14, MoveKeeps DEF Throw, Pass
<1>15. ASSUME NEW h \in Handlers,
              Karma(h) \/ CheckEmail(h) \/ FindUser(h) \/ CheckCode(h) \/ LookupName(h)
       PROVE  IInv'
  <2>1. CASE Karma(h)
    BY <2>1, <1>14, MoveKeeps DEF Karma
  <2>2. CASE CheckEmail(h)
    BY <2>2, <1>14, MoveKeeps DEF CheckEmail
  <2>3. CASE FindUser(h)
    BY <2>3, MoveKeeps DEF FindUser
  <2>4. CASE CheckCode(h)
    <3>1. CASE Stored(Email(h)) = code[h]
      <4>1. pc[h] = "get" /\ Pass(h, "load")
        BY <2>4, <3>1 DEF CheckCode
      <4>2. Email(h) \in Emails /\ code[h] \in Handlers /\ code[h] # Nobody
        BY <4>1, <1>b, AccountAssumption DEF IInv, CallInv
      <4>3. cache[Email(h)] # Nobody /\ code[h] = cache[Email(h)].by
        BY <3>1, <4>2 DEF Stored
      <4>4. code[h] \in Issuers(Email(h))
        BY <4>2, <4>3 DEF IInv, CodeInv
      <4> QED
        BY <4>1, <4>4, MoveKeeps
    <3>2. CASE Stored(Email(h)) # code[h]
      BY <2>4, <3>2, <1>14 DEF CheckCode
    <3> QED
      BY <3>1, <3>2
  <2>5. CASE LookupName(h)
    BY <2>5, <1>14, MoveKeeps DEF LookupName
  <2> QED
    BY <1>15, <2>1, <2>2, <2>3, <2>4, <2>5
<1>16. ASSUME NEW h \in Handlers,
              \/ DuplicateEmail(h) \/ SaveRefused(h) \/ LoginRefused(h)
              \/ DuplicateName(h) \/ CallFails(h)
       PROVE  IInv'
  BY <1>14, <1>16
     DEF DuplicateEmail, SaveRefused, LoginRefused, DuplicateName, CallFails
<1> QED
  BY <1>1, <1>2, <1>3, <1>4, <1>5, <1>6, <1>7, <1>8, <1>9, <1>10, <1>11, <1>12,
     <1>13, <1>15, <1>16 DEF Next, Step, Quiet

(* The invariant holds throughout. *)
LEMMA IInvHolds == Spec => []IInv
<1>1. Init => TypeOK
  BY AccountAssumption DEF Init, TypeOK, NoJob, JobType
<1>2. Init => CallInv /\ UsersInv /\ ReadInv /\ CodeInv /\ MailInv
  BY AccountAssumption
     DEF Init, CallInv, UsersInv, ReadInv, CodeInv, MailInv, NoJob
<1>3. Init => ResetInv /\ StoredCodesAreMailed
  BY DEF Init, ResetInv, StoredCodesAreMailed, NoJob
<1>4. Init => IInv
  BY <1>1, <1>2, <1>3 DEF IInv
<1> QED
  BY <1>4, IInvStep, PTL DEF Spec

(* The variables keep their types: a row is a whole user or none, a mail job *)
(* never gets a second attempt.                                             *)
THEOREM AccountTypeCorrect == Spec => []TypeOK
<1>1. IInv => TypeOK
  BY DEF IInv
<1> QED
  BY <1>1, IInvHolds, PTL

(* A reset passes only with a code issued to its email, and once it is      *)
(* answered the code is gone for good: issues and resets that overlap it    *)
(* cannot store it again.                                                   *)
THEOREM SpentCodesStayGone == Spec => []SpentCodesAreGone
<1>1. IInv => SpentCodesAreGone
  <2> SUFFICES ASSUME IInv, NEW h \in Handlers,
                      pc[h] \in {"load", "save", "forget", "done"}, call[h].op = "reset"
               PROVE  /\ code[h] \in Issuers(Email(h))
                      /\ pc[h] = "done" => Stored(Email(h)) # code[h]
    BY DEF SpentCodesAreGone
  <2>1. code[h] \in Issuers(Email(h))
    BY DEF IInv, CodeInv, ResetInv
  <2>2. ASSUME pc[h] = "done" PROVE Stored(Email(h)) # code[h]
    <3>1. /\ code[h] \in Handlers /\ code[h] # Nobody
          /\ cache[Email(h)] = Nobody \/ cache[Email(h)].by # code[h]
      BY <2>1, <2>2, AccountAssumption DEF IInv, CodeInv, Issuers
    <3> QED
      BY <3>1 DEF Stored
  <2> QED
    BY <2>1, <2>2
<1> QED
  BY <1>1, IInvHolds, PTL

(* A stored code is on its way to its user, or its call has failed; a mail  *)
(* job that is completed has delivered its mail, or a verification mail.    *)
THEOREM StoredCodesGetMailed == Spec => []StoredCodesAreMailed
<1>1. IInv => StoredCodesAreMailed
  BY DEF IInv
<1> QED
  BY <1>1, IInvHolds, PTL

(* Only three steps write the users table.                                  *)
LEMMA UserWrites ==
  ASSUME IInv, [Next]_vars, users' # users
  PROVE  \E h \in Handlers : InsertUser(h) \/ SaveUser(h) \/ Rename(h)
BY DEF Next, Step, vars, handler, post, rest, Arrive, Karma, CheckEmail,
       DuplicateEmail, FindUser, IssueCode, QueueMail, CheckCode, LoadUser,
       SaveRefused, ForgetCode, Login, LoginRefused, LookupName, DuplicateName,
       CallFails, StartMail, SendMail, SendFails, Tick, Crash, Quiet, Pass, Throw

(* A call keeps its arguments and its code once it has arrived, and a code  *)
(* that is issued stays issued.                                             *)
LEMMA ArrivedKeeps ==
  ASSUME IInv, [Next]_vars, NEW g \in Handlers, pc[g] # "idle"
  PROVE  /\ call'[g] = call[g] /\ code'[g] = code[g]
         /\ user[g] # Nobody => user'[g] # Nobody
         /\ pc'[g] # "idle"
         /\ pc[g] \in {"mail"} \cup Ended => pc'[g] \in {"mail"} \cup Ended
         /\ pc[g] \in Ended => pc'[g] = pc[g]
<1> USE DEF handler, post, rest, Ended
<1>a. /\ DOMAIN pc = Handlers /\ DOMAIN call = Handlers
      /\ DOMAIN code = Handlers /\ DOMAIN user = Handlers
  BY DEF IInv, TypeOK
<1>1. ASSUME NEW h \in Handlers, Arrive(h) PROVE UNCHANGED <<call[g], code[g], user[g], pc[g]>>
  BY <1>1, <1>a DEF Arrive, GoTo
<1>2. ASSUME NEW h \in Handlers, LoadUser(h)
      PROVE  /\ UNCHANGED <<call, code>> /\ pc' = [pc EXCEPT ![h] = "save"] /\ pc[h] = "load"
             /\ user[g] # Nobody => user'[g] # Nobody
  BY <1>2, <1>a DEF LoadUser, GoTo
<1>3. ASSUME NEW h \in Handlers, NEW to \in {"check", "insert", "find", "issue", "mail", "done",
                                             "load", "forget", "rename", "failed"},
             GoTo(h, to), UNCHANGED <<call, code, user>>,
             pc[h] \notin {"idle", "done", "failed"}, pc[h] = "mail" => to \in {"done", "failed"}
      PROVE  /\ UNCHANGED <<call, code, user>>
             /\ pc'[g] # "idle"
             /\ pc[g] \in {"mail"} \cup Ended => pc'[g] \in {"mail"} \cup Ended
             /\ pc[g] \in Ended => pc'[g] = pc[g]
  BY <1>3, <1>a DEF GoTo
<1>4. ASSUME NEW h \in Handlers,
             \/ Karma(h) \/ CheckEmail(h) \/ InsertUser(h) \/ DuplicateEmail(h)
             \/ FindUser(h) \/ IssueCode(h) \/ QueueMail(h)
             \/ CheckCode(h) \/ SaveUser(h) \/ SaveRefused(h) \/ ForgetCode(h)
             \/ Login(h) \/ LoginRefused(h)
             \/ LookupName(h) \/ Rename(h) \/ DuplicateName(h) \/ CallFails(h)
      PROVE  /\ UNCHANGED <<call, code, user>>
             /\ pc'[g] # "idle"
             /\ pc[g] \in {"mail"} \cup Ended => pc'[g] \in {"mail"} \cup Ended
             /\ pc[g] \in Ended => pc'[g] = pc[g]
  BY <1>3, <1>4
     DEF Karma, CheckEmail, InsertUser, DuplicateEmail, FindUser, IssueCode, QueueMail,
         CheckCode, SaveUser, SaveRefused, ForgetCode, Login, LoginRefused, LookupName,
         Rename, DuplicateName, CallFails, Pass, Throw
<1>5. ASSUME NEW h \in Handlers, StartMail(h) \/ SendMail(h) \/ SendFails(h)
      PROVE  UNCHANGED <<call, code, user, pc>>
  BY <1>5 DEF StartMail, SendMail, SendFails
<1>6. CASE Crash
  BY <1>6 DEF Crash
<1>7. CASE Tick \/ Quiet \/ UNCHANGED vars
  BY <1>7 DEF Tick, Quiet, vars
<1> QED
  BY <1>1, <1>2, <1>4, <1>5, <1>6, <1>7, <1>a DEF Next, Step

(* The five steps by which a call is answered with success.                 *)
LEMMA DoneBy ==
  ASSUME IInv, [Next]_vars, NEW h \in Handlers, pc[h] # "done", pc'[h] = "done"
  PROVE  FindUser(h) \/ QueueMail(h) \/ ForgetCode(h) \/ Login(h) \/ Rename(h)
<1> USE DEF handler, post, rest, Ended
<1>a. DOMAIN pc = Handlers
  BY DEF IInv, TypeOK
<1>b. ASSUME NEW g \in Handlers, NEW to, GoTo(g, to) PROVE g = h /\ to = "done"
  BY <1>b, <1>a DEF GoTo
<1>1. ASSUME NEW g \in Handlers PROVE ~Arrive(g)
  <2> SUFFICES ASSUME Arrive(g) PROVE FALSE
    OBVIOUS
  <2>1. PICK c \in Calls : GoTo(g, Entry[c.op])
    BY DEF Arrive
  <2>2. Entry[c.op] # "done"
    BY AccountAssumption DEF CallType, Entry
  <2> QED
    BY <2>1, <2>2, <1>b
<1>2. ASSUME NEW g \in Handlers
      PROVE  /\ ~Karma(g) /\ ~CheckEmail(g) /\ ~InsertUser(g) /\ ~DuplicateEmail(g)
             /\ ~IssueCode(g) /\ ~CheckCode(g) /\ ~LoadUser(g) /\ ~SaveUser(g)
             /\ ~SaveRefused(g) /\ ~LoginRefused(g) /\ ~LookupName(g)
             /\ ~DuplicateName(g) /\ ~CallFails(g)
  BY <1>b DEF Karma, CheckEmail, InsertUser, DuplicateEmail, IssueCode, CheckCode, LoadUser,
       SaveUser, SaveRefused, LoginRefused, LookupName, DuplicateName, CallFails, Pass, Throw
<1>3. ASSUME NEW g \in Handlers,
             FindUser(g) \/ QueueMail(g) \/ ForgetCode(g) \/ Login(g) \/ Rename(g)
      PROVE  g = h
  BY <1>3, <1>b DEF FindUser, QueueMail, ForgetCode, Login, Rename, Pass
<1>4. ASSUME NEW g \in Handlers PROVE ~StartMail(g) /\ ~SendMail(g) /\ ~SendFails(g)
  BY DEF StartMail, SendMail, SendFails
<1>5. ~Crash /\ ~Tick /\ ~Quiet /\ ~UNCHANGED vars
  BY DEF Crash, Tick, Quiet, vars
<1> QED
  BY <1>1, <1>2, <1>3, <1>4, <1>5 DEF Next, Step

(* A verified user has a chosen password, and so had every login that       *)
(* passed; a call that has not arrived has read no user.                    *)
EarnedInv ==
  /\ \A h \in Handlers : pc[h] = "idle" => user[h] = Nobody
  /\ \A e \in Emails :
       users[e] # Nobody /\ users[e].status = "ACTIVE" => users[e].hash \in Chosen(e)
  /\ \A h \in Handlers :
       pc[h] = "done" /\ call[h].op = "login" => call[h].password \in Chosen(Email(h))

(* A password that was chosen stays one that was chosen.                    *)
LEMMA ChosenGrows ==
  ASSUME IInv, EarnedInv, [Next]_vars
  PROVE  \A e \in Emails : Chosen(e) \subseteq Chosen(e)'
<1>1. ASSUME NEW e \in Emails, NEW g \in Issuers(e) PROVE g \in Issuers(e)'
  BY <1>1, ArrivedKeeps DEF Issuers, Email, Ended
<1>2. ASSUME NEW e \in Emails,
             NEW g \in Handlers, user[g] # Nobody, Email(g) = e, code[g] \in Issuers(e)
      PROVE  /\ user'[g] # Nobody /\ Email(g)' = e /\ code'[g] \in Issuers(e)'
             /\ call'[g].password = call[g].password
  BY <1>1, <1>2, ArrivedKeeps DEF EarnedInv, Email
<1> QED
  BY <1>2 DEF Chosen

LEMMA EarnedStep == IInv /\ EarnedInv /\ [Next]_vars => EarnedInv'
<1> SUFFICES ASSUME IInv, EarnedInv, [Next]_vars PROVE EarnedInv'
  OBVIOUS
<1>a. /\ DOMAIN pc = Handlers /\ DOMAIN user = Handlers /\ DOMAIN call = Handlers
      /\ users \in [Emails -> UserType \cup {Nobody}]
  BY DEF IInv, TypeOK
<1>b. \A h \in Handlers : pc[h] # "idle" => Email(h) \in Emails
  BY AccountAssumption DEF IInv, CallInv, CallType, Email
<1>1. \A h \in Handlers : pc'[h] = "idle" => user'[h] = Nobody
  <2> SUFFICES ASSUME NEW h \in Handlers, pc'[h] = "idle" PROVE user'[h] = Nobody
    OBVIOUS
  <2>1. pc[h] = "idle" /\ user[h] = Nobody
    BY ArrivedKeeps DEF EarnedInv
  <2>2. ASSUME NEW g \in Handlers, LoadUser(g) PROVE user'[h] = user[h]
    BY <2>1, <2>2, <1>a DEF LoadUser
  <2> QED
    BY <2>1, <2>2
       DEF Next, Step, vars, handler, post, rest, Arrive, Karma, CheckEmail, InsertUser,
           DuplicateEmail, FindUser, IssueCode, QueueMail, CheckCode, SaveUser, SaveRefused,
           ForgetCode, Login, LoginRefused, LookupName, Rename, DuplicateName, CallFails,
           StartMail, SendMail, SendFails, Tick, Crash, Quiet, Pass, Throw
<1>2. ASSUME NEW e \in Emails, users'[e] # Nobody, users'[e].status = "ACTIVE"
      PROVE  users'[e].hash \in Chosen(e)'
  <2>1. CASE users' = users
    BY <2>1, <1>2, ChosenGrows DEF EarnedInv
  <2>2. ASSUME NEW h \in Handlers, InsertUser(h) PROVE users'[e].hash \in Chosen(e)'
    <3>1. Email(h) # e
      BY <2>2, <1>2, <1>a DEF InsertUser, NewUser
    <3> QED
      BY <2>2, <3>1, <1>2, <1>a, ChosenGrows DEF InsertUser, EarnedInv
  <2>3. ASSUME NEW h \in Handlers, SaveUser(h) PROVE users'[e].hash \in Chosen(e)'
    <3>1. CASE Email(h) # e
      BY <2>3, <3>1, <1>2, SaveWrites, ChosenGrows DEF EarnedInv
    <3>2. CASE Email(h) = e
      <4>1. call[h].password \in Chosen(e)
        BY <2>3, <3>2 DEF SaveUser, Chosen, IInv, CallInv, ResetInv
      <4> QED
        BY <2>3, <3>2, <4>1, SaveWrites, ChosenGrows
    <3> QED
      BY <3>1, <3>2
  <2>4. ASSUME NEW h \in Handlers, Rename(h) PROVE users'[e].hash \in Chosen(e)'
    BY <2>4, <1>2, RenameWrites, ChosenGrows DEF EarnedInv
  <2> QED
    BY <2>1, <2>2, <2>3, <2>4, UserWrites
<1>3. ASSUME NEW h \in Handlers, pc'[h] = "done", call'[h].op = "login"
      PROVE  call'[h].password \in Chosen(Email(h))'
  <2>1. CASE pc[h] = "done"
    BY <2>1, <1>3, <1>b, ArrivedKeeps, ChosenGrows DEF EarnedInv, Email, Ended
  <2>2. CASE pc[h] # "done"
    <3>1. FindUser(h) \/ QueueMail(h) \/ ForgetCode(h) \/ Login(h) \/ Rename(h)
      BY <1>3, <2>2, DoneBy
    <3>2. Login(h) /\ pc[h] # "idle" /\ call'[h] = call[h]
      BY <1>3, <3>1
         DEF IInv, CallInv, Senders, handler, FindUser, QueueMail, ForgetCode, Login,
             Rename, Pass
    <3>3. call[h].password \in Chosen(Email(h)) /\ Email(h)' = Email(h) /\ Email(h) \in Emails
      BY <3>2, <1>b DEF Login, MayLogin, EarnedInv, Email
    <3> QED
      BY <3>2, <3>3, ChosenGrows
  <2> QED
    BY <2>1, <2>2
<1> QED
  BY <1>1, <1>2, <1>3 DEF EarnedInv

(* Whoever holds a token is verified, and has a password that a reset with  *)
(* a code for the email has given; so had whoever logged in, be it the      *)
(* password of registration.                                                *)
THEOREM TokensAlwaysEarned == Spec => []TokensAreEarned
<1>1. Init => EarnedInv
  <2> SUFFICES ASSUME Init PROVE EarnedInv
    OBVIOUS
  <2> QED
    BY DEF Init, EarnedInv, Chosen
<1>2. IInv /\ EarnedInv => TokensAreEarned
  BY DEF IInv, UsersInv, TypeOK, Verified, EarnedInv, TokensAreEarned
<1> QED
  BY <1>1, <1>2, EarnedStep, IInvHolds, PTL DEF Spec

(* A registration past its insert has its user in the table; nobody else    *)
(* registers that email.                                                    *)
RegInv ==
  \A e \in Emails :
    /\ Opening[e] # Nobody => users[e] # Nobody
    /\ \A g, h \in Registrations(e) :
         g = h /\ Opening[e] = Nobody /\ users[e] # Nobody

(* A registration gets there by its insert only. *)
LEMMA RegisteredBy ==
  ASSUME IInv, [Next]_vars, NEW e \in Emails, NEW h \in Handlers, h \in Registrations(e)'
  PROVE  h \in Registrations(e) \/ (InsertUser(h) /\ Email(h) = e)
<1> SUFFICES ASSUME h \notin Registrations(e), ~(InsertUser(h) /\ Email(h) = e)
             PROVE  FALSE
  OBVIOUS
<1> USE DEF handler, post, rest, Ended
<1>a. /\ DOMAIN pc = Handlers /\ DOMAIN call = Handlers
      /\ cache \in [Emails -> CodeType \cup {Nobody}] /\ h \in Handlers
  BY DEF IInv, TypeOK, Registrations
<1>b. /\ call'[h] # Nobody /\ call'[h].op = "register" /\ Email(h)' = e
      /\ \/ pc'[h] \in {"find", "issue", "mail", "done"}
         \/ cache'[e] # Nobody /\ cache'[e].by = h
  BY DEF Registrations
<1>c. \A g \in Issuers(e) : pc[g] # "idle"
  BY DEF Issuers
<1>d. pc[h] # "idle" => call'[h] = call[h]
  BY <1>a, ArrivedKeeps
<1>1. CASE UNCHANGED <<call, pc, cache>>
  BY <1>1, <1>a, <1>b DEF Registrations, Email
<1>2. ASSUME NEW g \in Handlers, Arrive(g) PROVE FALSE
  <2>1. PICK c \in Calls : call' = [call EXCEPT ![g] = c] /\ GoTo(g, Entry[c.op])
    BY <1>2 DEF Arrive
  <2>2. pc[g] = "idle" /\ UNCHANGED cache
    BY <1>2 DEF Arrive
  <2>3. g # h => UNCHANGED <<call[h], pc[h]>>
    BY <2>1, <1>a DEF GoTo
  <2>4. g = h => pc'[h] = "karma"
    BY <2>1, <1>a, <1>b DEF GoTo, Entry
  <2>5. cache[e] # Nobody => cache[e].by # g
    BY <2>2, <1>c DEF IInv, CodeInv
  <2> QED
    BY <2>2, <2>3, <2>4, <2>5, <1>a, <1>b DEF Registrations, Email
<1>3. ASSUME NEW g \in Handlers, NEW to, GoTo(g, to), UNCHANGED <<call, cache>>,
             \/ to \notin {"find", "issue", "mail", "done"}
             \/ pc[g] \in {"find", "issue", "mail", "done"}
             \/ call[g].op # "register"
      PROVE  FALSE
  BY <1>3, <1>a, <1>b DEF GoTo, Registrations, Email
<1>4. ASSUME NEW g \in Handlers,
             \/ Karma(g) \/ CheckEmail(g) \/ DuplicateEmail(g) \/ FindUser(g) \/ QueueMail(g)
             \/ CheckCode(g) \/ LoadUser(g) \/ SaveUser(g) \/ SaveRefused(g)
             \/ Login(g) \/ LoginRefused(g)
             \/ LookupName(g) \/ Rename(g) \/ DuplicateName(g) \/ CallFails(g)
      PROVE  FALSE
  BY <1>3, <1>4
     DEF IInv, CallInv, Karma, CheckEmail, DuplicateEmail, FindUser, QueueMail, CheckCode,
         LoadUser, SaveUser, SaveRefused, Login, LoginRefused, LookupName, Rename,
         DuplicateName, CallFails, Pass, Throw
<1>5. ASSUME NEW g \in Handlers, InsertUser(g) PROVE FALSE
  BY <1>5, <1>a, <1>b DEF InsertUser, GoTo, Registrations, Email
<1>6. ASSUME NEW g \in Handlers, IssueCode(g) PROVE FALSE
  <2>1. /\ UNCHANGED call /\ pc[g] = "issue" /\ GoTo(g, "mail")
        /\ cache'[e] = cache[e] \/ cache'[e] = [by |-> g, at |-> now]
    BY <1>6, <1>a DEF IssueCode
  <2> QED
    BY <2>1, <1>a, <1>b DEF GoTo, Registrations, Email
<1>7. ASSUME NEW g \in Handlers, ForgetCode(g) PROVE FALSE
  <2>1. /\ UNCHANGED call /\ GoTo(g, "done") /\ call[g].op = "reset"
        /\ cache'[e] = cache[e] \/ cache'[e] = Nobody
    BY <1>7, <1>a DEF ForgetCode, IInv, CallInv
  <2> QED
    BY <2>1, <1>a, <1>b DEF GoTo, Registrations, Email
<1>8. CASE Crash
  BY <1>8, <1>a, <1>b DEF Crash, Registrations, Email
<1>9. ASSUME NEW g \in Handlers, StartMail(g) \/ SendMail(g) \/ SendFails(g) PROVE FALSE
  BY <1>9, <1>1 DEF StartMail, SendMail, SendFails
<1>10. CASE Tick \/ Quiet \/ UNCHANGED vars
  BY <1>10, <1>1 DEF Tick, Quiet, vars
<1> QED
  BY <1>2, <1>4, <1>5, <1>6, <1>7, <1>8, <1>9, <1>10 DEF Next, Step

(* However registrations of one email overlap, one at most is past its      *)
(* insert or leaves a code, and none if the email had a user before.        *)
THEOREM RegistrationsAreSingle == Spec => []RegisteredOnce
<1>1. Init => RegInv
  BY DEF Init, RegInv, Registrations
<1>2. IInv /\ RegInv /\ [Next]_vars => RegInv'
  <2> SUFFICES ASSUME IInv, RegInv, [Next]_vars, NEW e \in Emails
               PROVE  /\ Opening[e] # Nobody => users'[e] # Nobody
                      /\ \A g, h \in Registrations(e)' :
                           g = h /\ Opening[e] = Nobody /\ users'[e] # Nobody
    BY DEF RegInv
  <2>1. users[e] # Nobody => users'[e] # Nobody
    <3>1. CASE users' = users
      BY <3>1
    <3>2. CASE users' # users
      <4>1. PICK h \in Handlers : InsertUser(h) \/ SaveUser(h) \/ Rename(h)
        BY <3>2, UserWrites
      <4>2. CASE InsertUser(h)
        BY <4>2, AccountAssumption DEF InsertUser, IInv, TypeOK, NewUser, UserType
      <4>3. CASE SaveUser(h)
        BY <4>3, SaveWrites
      <4>4. CASE Rename(h)
        BY <4>4, RenameWrites
      <4> QED
        BY <4>1, <4>2, <4>3, <4>4
    <3> QED
      BY <3>1, <3>2
  <2>2. ASSUME NEW h \in Handlers, InsertUser(h), Email(h) = e
        PROVE  /\ users[e] = Nobody /\ users'[e] # Nobody
               /\ \A g \in Handlers : InsertUser(g) => g = h
    BY <2>2, AccountAssumption
       DEF InsertUser, GoTo, IInv, TypeOK, NewUser, UserType
  <2> QED
    BY <2>1, <2>2, RegisteredBy DEF RegInv, Registrations
<1>3. RegInv => RegisteredOnce
  BY DEF RegInv, RegisteredOnce
<1> QED
  BY <1>1, <1>2, <1>3, IInvHolds, PTL DEF Spec

(* A registered user stays registered and a verified one verified: a reset  *)
(* writes a whole row it read before, but never an unverified one.          *)
THEOREM VerificationIsFinal == Spec => VerifiedForGood
<1>1. IInv /\ [Next]_vars =>
        [\A e \in Emails : users[e] # Nobody =>
           /\ users'[e] # Nobody
           /\ users[e].status = "PENDING" \/ users'[e].status = "ACTIVE"]_vars
  <2> SUFFICES ASSUME IInv, [Next]_vars, users' # users, NEW e \in Emails,
                      users[e] # Nobody
               PROVE  /\ users'[e] # Nobody
                      /\ users[e].status = "PENDING" \/ users'[e].status = "ACTIVE"
    BY DEF IInv, TypeOK, UserType
  <2>1. PICK h \in Handlers : InsertUser(h) \/ SaveUser(h) \/ Rename(h)
    BY UserWrites
  <2>2. users \in [Emails -> UserType \cup {Nobody}]
    BY DEF IInv, TypeOK
  <2>3. CASE InsertUser(h)
    BY <2>2, <2>3 DEF InsertUser, UserType
  <2>4. CASE SaveUser(h)
    BY <2>2, <2>4, SaveWrites DEF UserType
  <2>5. CASE Rename(h)
    BY <2>2, <2>5, RenameWrites DEF UserType
  <2> QED
    BY <2>1, <2>3, <2>4, <2>5
<1> QED
  BY <1>1, IInvHolds, PTL DEF Spec, VerifiedForGood

(* A name changes only to one that nobody has, only by a rename of the user *)
(* or back, when a reset had read the row before such a rename.             *)
THEOREM NamesAreTheOwners == Spec => NamesChangeByOwner
<1>1. IInv /\ [Next]_vars =>
        [/\ DistinctNames(users')
         /\ \A e \in Emails :
              users[e] # Nobody /\ users'[e].name # users[e].name =>
                \/ \E h \in RenamesOf(e) : pc[h] = "rename" /\ users'[e].name = call[h].name
                \/ /\ \E h \in Handlers : /\ pc[h] = "save" /\ pc'[h] = "forget"
                                         /\ Email(h) = e /\ users'[e].name = user[h].name
                   /\ \E g \in RenamesOf(e) : pc[g] = "done"]_vars
  <2>1. ASSUME IInv, [Next]_vars PROVE DistinctNames(users')
    BY <2>1, IInvStep DEF IInv, UsersInv
  <2> SUFFICES ASSUME IInv, [Next]_vars, NEW e \in Emails, users[e] # Nobody,
                      users'[e].name # users[e].name
               PROVE  \/ \E h \in RenamesOf(e) :
                           pc[h] = "rename" /\ users'[e].name = call[h].name
                      \/ /\ \E h \in Handlers : /\ pc[h] = "save" /\ pc'[h] = "forget"
                                               /\ Email(h) = e /\ users'[e].name = user[h].name
                         /\ \E g \in RenamesOf(e) : pc[g] = "done"
    BY <2>1
  <2>2. PICK h \in Handlers : InsertUser(h) \/ SaveUser(h) \/ Rename(h)
    BY UserWrites
  <2>3. CASE InsertUser(h)
    BY <2>3 DEF InsertUser, IInv, TypeOK
  <2>4. CASE SaveUser(h)
    <3>1. Email(h) = e /\ users'[e].name = user[h].name
      BY <2>4, SaveWrites
    <3>2. pc[h] = "save" /\ pc'[h] = "forget"
      BY <2>4 DEF SaveUser, GoTo, IInv, TypeOK
    <3>3. \E g \in RenamesOf(e) : pc[g] = "done"
      BY <3>1, <3>2 DEF IInv, ReadInv
    <3> QED
      BY <3>1, <3>2, <3>3
  <2>5. CASE Rename(h)
    <3>1. h \in RenamesOf(e) /\ users'[e].name = call[h].name
      BY <2>5, RenameWrites
    <3> QED
      BY <2>5, <3>1 DEF Rename
  <2> QED
    BY <2>2, <2>3, <2>4, <2>5
<1> QED
  BY <1>1, IInvHolds, PTL DEF Spec, NamesChangeByOwner
=============================================================================
