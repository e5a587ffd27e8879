-------------------------------- MODULE Accounts --------------------------------
(***************************************************************************)
(* Who may log in: sign-up with a code sent by mail (auth.service.ts), the *)
(* accounts of the staff (cms.service.ts), and the suspension of members   *)
(* with its log (users.service.ts).                                        *)
(*                                                                         *)
(* Members and CMS accounts are two collections that must not share an     *)
(* address, and neither has an index that knows the other.  A sign-up is   *)
(* three requests that hand on what they know through two Redis keys of    *)
(* ten minutes each.  No operation is a transaction: each access to MongoDB*)
(* or Redis and each mail is a step, and a request may die before any of   *)
(* them.  Passwords are compared, not hashed; age, names, roles and tokens *)
(* are left out, and codes are taken to be distinct.                       *)
(***************************************************************************)
EXTENDS Collections

CONSTANTS Call,         \* slots for requests; a slot is used again and again
          Email,
          Root,         \* the address of the super admin that is seeded at start
          NationalId,
          Otp,          \* codes; each is sent out for one registration
          Password,     \* passwords members choose
          Temporary,    \* the generated password of a CMS account
          None

ASSUME RootIsAnAddress == Root \in Email

VARIABLES users,       \* by e-mail address
          cmsAccounts, \* by e-mail address
          statusLog,   \* statusLog[e]: the last of e's member_account_status_logs
          signup,      \* signup[e]: the code in the key signup:e, and with it its data
          verified,    \* the same of the key verified:e
          codes,       \* codes[o]: the registration code o was made for
          mailed,      \* the codes that were mailed
          handedOut,   \* the CMS addresses a temporary password was mailed to
          up,          \* some process has started
          status,      \* how far each request is, or its answer
          job,         \* what it asks for
          seen,        \* what it has read and still needs
          \* Observed only:
          entered,     \* codes that were entered and accepted
          told,        \* address and password of members told "Account created"
          turnedAway,  \* owners of a password who logged in with it in vain
          reported,    \* CMS addresses whose creation ended with an error
          disturbed    \* members whose status changes overlapped or broke off

collections == <<users, cmsAccounts, statusLog>>
keys        == <<signup, verified>>
sent        == <<codes, mailed, handedOut>>
calls       == <<status, job, seen>>
observed    == <<entered, told, turnedAway, reported, disturbed>>
vars == <<collections, keys, sent, up, calls, observed>>

User == [code: Otp, password: Password, isActive: BOOLEAN]

\* Requests that name the seeded address are left out.
Applicant == Email \ {Root}

Request == [op: {"register"}, email: Applicant, nationalId: NationalId]
             \cup [op: {"verify"}, email: Applicant, otp: Otp]
             \cup [op: {"setPassword"}, email: Applicant, password: Password]
             \cup [op: {"createCms"}, email: Applicant]
             \cup [op: {"login"}, email: Applicant, password: Password \cup {Temporary}]
             \cup [op: {"setStatus"}, email: Applicant, newIsActive: BOOLEAN]

LogEntry == [previousIsActive: BOOLEAN, newIsActive: BOOLEAN]

\* A request on its way, and what was observed when it arrived.
Task == [op: {"register", "verify", "setPassword", "createCms", "login", "setStatus"},
         email: Applicant, ask: Request, taken: BOOLEAN, entitled: BOOLEAN]

ASSUME NoneIsNothing == None \notin Otp \cup Request \cup LogEntry

InFlight(c) == status[c] # "idle"

At(c, op, st)  == status[c] = st /\ job[c].op = op
Goto(c, st)    == status' = [status EXCEPT ![c] = st] /\ UNCHANGED job
Remember(c, x) == seen' = [seen EXCEPT ![c] = x]

\* c is answered, and its slot is free.
Reply(c) == /\ status' = [status EXCEPT ![c] = "idle"]
            /\ job' = [job EXCEPT ![c] = None]
            /\ Remember(c, None)
-------------------------------------------------------------------------------
Init == /\ users = EmptyCollection /\ cmsAccounts = EmptyCollection
        /\ statusLog = [e \in Email |-> None]
        /\ signup = [e \in Email |-> None] /\ verified = [e \in Email |-> None]
        /\ codes = [o \in Otp |-> None]
        /\ mailed = {} /\ handedOut = {} /\ up = FALSE
        /\ status = [c \in Call |-> "idle"]
        /\ job = [c \in Call |-> None] /\ seen = [c \in Call |-> None]
        /\ entered = {} /\ told = {} /\ turnedAway = {} /\ reported = {} /\ disturbed = {}

\* Somebody can only enter a code or a temporary password he was mailed.
Known(r) == /\ r.op = "verify" => r.otp \in mailed
            /\ r.op = "login" /\ r.password = Temporary => r.email \in handedOut

\* The password is one its owner has been given or has been told is his.
Entitled(e, p) == <<e, p>> \in told \/ (p = Temporary /\ e \in handedOut)

ChangesStatusOf(c, e) == InFlight(c) /\ job[c].op = "setStatus" /\ job[c].email = e

\* A request reaches the service.  Observed of it: whether its address has an
\* account by then, and whether its password is its caller's.
Arrive(c) ==
  /\ up /\ ~InFlight(c)
  /\ \E r \in Request :
       /\ Known(r)
       /\ job' = [job EXCEPT ![c] =
            [op |-> r.op, email |-> r.email, ask |-> r,
             taken |-> r.email \in DOMAIN users \cup DOMAIN cmsAccounts,
             entitled |-> r.op = "login" /\ Entitled(r.email, r.password)]]
       /\ disturbed' = IF r.op = "setStatus" /\ \E d \in Call : ChangesStatusOf(d, r.email)
                       THEN disturbed \cup {r.email} ELSE disturbed
  /\ status' = [status EXCEPT ![c] = "received"]
  /\ UNCHANGED <<collections, keys, sent, up, seen, entered, told, reported, turnedAway>>
-------------------------------------------------------------------------------
(***************************************************************************)
(* register() and createCmsUser() look an address up in both collections,  *)
(* the first begins with the members, the second with the CMS accounts.    *)
(***************************************************************************)
Looks(c, st) == status[c] = st /\ job[c].op \in {"register", "createCms"}

LookUp(c) ==
  LET first == IF job[c].op = "register" THEN users ELSE cmsAccounts
  IN /\ Looks(c, "received")
     /\ Remember(c, job[c].email \in DOMAIN first)
     /\ Goto(c, "lookedUp")
     /\ UNCHANGED <<collections, keys, sent, up, observed>>

LookUpOther(c) ==
  LET other == IF job[c].op = "register" THEN cmsAccounts ELSE users
  IN /\ Looks(c, "lookedUp")
     /\ IF seen[c] \/ job[c].email \in DOMAIN other THEN Reply(c)
                                                     ELSE Goto(c, "free") /\ Remember(c, None)
     /\ UNCHANGED <<collections, keys, sent, up, observed>>

\* register() goes on: the data and a new code to signup:e, the code to the mail.
StoreSignup(c) ==
  /\ At(c, "register", "free")
  /\ \E o \in Otp :
       /\ codes[o] = None
       /\ codes' = [codes EXCEPT ![o] = job[c].ask]
       /\ signup' = [signup EXCEPT ![job[c].email] = o]
       /\ Remember(c, o)
  /\ Goto(c, "stored")
  /\ UNCHANGED <<collections, verified, mailed, handedOut, up, observed>>

MailCode(c) ==
  /\ At(c, "register", "stored")
  /\ mailed' = mailed \cup {seen[c]}
  /\ Reply(c)
  /\ UNCHANGED <<collections, keys, codes, handedOut, up, observed>>

\* createCmsUser() goes on: e-mail is unique among the CMS accounts.
InsertCmsAccount(c) ==
  /\ At(c, "createCms", "free")
  /\ IF job[c].email \in DOMAIN cmsAccounts
     THEN Reply(c) /\ UNCHANGED cmsAccounts
     ELSE /\ cmsAccounts' = With(cmsAccounts, job[c].email, Temporary)
          /\ Goto(c, "inserted") /\ Remember(c, None)
  /\ UNCHANGED <<users, statusLog, keys, sent, up, observed>>

\* Faulty: a mail that cannot be sent is only logged, as elsewhere.
MailTemporaryOrNot(c) ==
  /\ At(c, "createCms", "inserted")
  /\ handedOut' \in {handedOut, handedOut \cup {job[c].email}}
  /\ Reply(c)
  /\ UNCHANGED <<collections, keys, codes, mailed, up, observed>>

MailTemporary(c) ==
  /\ At(c, "createCms", "inserted")
  /\ handedOut' = handedOut \cup {job[c].email}
  /\ Reply(c)
  /\ UNCHANGED <<collections, keys, codes, mailed, up, observed>>
-------------------------------------------------------------------------------
(***************************************************************************)
(* verifyOtp(): get, set and delete are three steps.                       *)
(***************************************************************************)
\* Faulty: any code the address was sent will do.
MatchesAny(e, o) == signup[e] # None
Matches(e, o) == signup[e] = o

ReadSignup(c) ==
  /\ At(c, "verify", "received")
  /\ IF Matches(job[c].email, job[c].ask.otp)
     THEN /\ Goto(c, "matched") /\ Remember(c, signup[job[c].email])
          /\ entered' = entered \cup {job[c].ask.otp}
     ELSE Reply(c) /\ UNCHANGED entered
  /\ UNCHANGED <<collections, keys, sent, up, told, turnedAway, reported, disturbed>>

StoreVerified(c) ==
  /\ At(c, "verify", "matched")
  /\ verified' = [verified EXCEPT ![job[c].email] = seen[c]]
  /\ Goto(c, "moved") /\ Remember(c, None)
  /\ UNCHANGED <<collections, signup, sent, up, observed>>

DropSignup(c) ==
  /\ At(c, "verify", "moved")
  /\ signup' = [signup EXCEPT ![job[c].email] = None]
  /\ Reply(c)
  /\ UNCHANGED <<collections, verified, sent, up, observed>>
-------------------------------------------------------------------------------
(***************************************************************************)
(* setPassword() and, in it, users.create().                               *)
(***************************************************************************)
ReadVerified(c) ==
  LET o == verified[job[c].email]
  IN /\ At(c, "setPassword", "received")
     /\ IF o = None THEN Reply(c) ELSE Goto(c, "read") /\ Remember(c, o)
     /\ UNCHANGED <<collections, keys, sent, up, observed>>

\* Faulty: register() has looked already.
TrustRegister(c) ==
  /\ At(c, "setPassword", "read")
  /\ Goto(c, "notCms")
  /\ UNCHANGED <<collections, keys, sent, up, seen, observed>>

CheckCms(c) ==
  /\ At(c, "setPassword", "read")
  /\ IF job[c].email \in DOMAIN cmsAccounts THEN Reply(c)
                                            ELSE Goto(c, "notCms") /\ UNCHANGED seen
  /\ UNCHANGED <<collections, keys, sent, up, observed>>

\* Another member has the address or the national id.
Duplicate(o) == \E e \in DOMAIN users :
  e = codes[o].email \/ codes[users[e].code].nationalId = codes[o].nationalId

FindDuplicate(c) ==
  /\ At(c, "setPassword", "notCms")
  /\ IF Duplicate(seen[c]) THEN Reply(c) ELSE Goto(c, "unique") /\ UNCHANGED seen
  /\ UNCHANGED <<collections, keys, sent, up, observed>>

\* The code stands for the data that was registered with it.
NewUser(c) == [code |-> seen[c], password |-> job[c].ask.password, isActive |-> TRUE]

\* Faulty: findOne is all there is, users has no unique index.
InsertUserUnindexed(c) ==
  /\ At(c, "setPassword", "unique")
  /\ users' = With(users, codes[seen[c]].email, NewUser(c))
  /\ Goto(c, "inserted") /\ Remember(c, None)
  /\ UNCHANGED <<cmsAccounts, statusLog, keys, sent, up, observed>>

\* Both are unique indexes of users.
InsertUser(c) ==
  /\ At(c, "setPassword", "unique")
  /\ IF Duplicate(seen[c])
     THEN Reply(c) /\ UNCHANGED users
     ELSE /\ users' = With(users, codes[seen[c]].email, NewUser(c))
          /\ Goto(c, "inserted") /\ Remember(c, None)
  /\ UNCHANGED <<cmsAccounts, statusLog, keys, sent, up, observed>>

DropVerified(c) ==
  /\ At(c, "setPassword", "inserted")
  /\ verified' = [verified EXCEPT ![job[c].email] = None]
  /\ told' = told \cup {<<job[c].email, job[c].ask.password>>}
  /\ Reply(c)
  /\ UNCHANGED <<collections, signup, sent, up, entered, turnedAway, reported, disturbed>>
-------------------------------------------------------------------------------
(***************************************************************************)
(* login(): members first.                                                 *)
(***************************************************************************)
\* "Invalid credentials" although the password was somebody's when he sent it.
TurnAway(c) == turnedAway' = IF job[c].entitled
                             THEN turnedAway \cup {<<job[c].email, job[c].ask.password>>}
                             ELSE turnedAway

LoginMember(c) ==
  LET e == job[c].email
  IN /\ At(c, "login", "received")
     /\ IF e \notin DOMAIN users THEN Goto(c, "noMember") /\ UNCHANGED <<seen, turnedAway>>
        ELSE /\ Reply(c)
             /\ IF users[e].isActive /\ users[e].password # job[c].ask.password
                THEN TurnAway(c) ELSE UNCHANGED turnedAway
     /\ UNCHANGED <<collections, keys, sent, up, entered, told, reported, disturbed>>

LoginCms(c) ==
  LET e == job[c].email
  IN /\ At(c, "login", "noMember")
     /\ Reply(c)
     /\ IF e \in DOMAIN cmsAccounts /\ cmsAccounts[e] = job[c].ask.password
        THEN UNCHANGED turnedAway ELSE TurnAway(c)
     /\ UNCHANGED <<collections, keys, sent, up, entered, told, reported, disturbed>>
-------------------------------------------------------------------------------
(***************************************************************************)
(* setMemberAccountStatus(): load, save, log.                              *)
(***************************************************************************)
LoadMember(c) ==
  LET e == job[c].email
  IN /\ At(c, "setStatus", "received")
     /\ IF e \in DOMAIN users THEN Goto(c, "loaded") /\ Remember(c, users[e].isActive)
                              ELSE Reply(c)
     /\ UNCHANGED <<collections, keys, sent, up, observed>>

\* Faulty: previousIsActive is read from the document after it was set.
SaveMemberFirst(c) ==
  /\ At(c, "setStatus", "loaded")
  /\ users' = [users EXCEPT ![job[c].email].isActive = job[c].ask.newIsActive]
  /\ Goto(c, "saved") /\ Remember(c, job[c].ask.newIsActive)
  /\ UNCHANGED <<cmsAccounts, statusLog, keys, sent, up, observed>>

\* user.save() writes what differs from what was loaded, and nothing else.
SaveMember(c) ==
  /\ At(c, "setStatus", "loaded")
  /\ users' = IF seen[c] = job[c].ask.newIsActive THEN users
              ELSE [users EXCEPT ![job[c].email].isActive = job[c].ask.newIsActive]
  /\ Goto(c, "saved")
  /\ UNCHANGED <<cmsAccounts, statusLog, keys, sent, up, seen, observed>>

LogStatus(c) ==
  /\ At(c, "setStatus", "saved")
  /\ statusLog' = [statusLog EXCEPT ![job[c].email] =
                     [previousIsActive |-> seen[c], newIsActive |-> job[c].ask.newIsActive]]
  /\ Reply(c)
  /\ UNCHANGED <<users, cmsAccounts, keys, sent, up, observed>>
-------------------------------------------------------------------------------
(***************************************************************************)
(* onModuleInit() of a process: seedSuperAdmin().                          *)
(***************************************************************************)
Start(c) ==
  /\ ~InFlight(c)
  /\ job' = [job EXCEPT ![c] = [op |-> "start", email |-> Root]]
  /\ status' = [status EXCEPT ![c] = "received"]
  /\ UNCHANGED <<collections, keys, sent, up, seen, observed>>

FindRoot(c) ==
  /\ At(c, "start", "received")
  /\ IF Root \in DOMAIN cmsAccounts THEN Reply(c) /\ up' = TRUE
                                    ELSE Goto(c, "unseeded") /\ UNCHANGED seen /\ UNCHANGED up
  /\ UNCHANGED <<collections, keys, sent, observed>>

\* A second process that seeds at the same time meets the unique index, and its
\* start fails.
SeedRoot(c) ==
  /\ At(c, "start", "unseeded")
  /\ IF Root \in DOMAIN cmsAccounts
     THEN Reply(c) /\ UNCHANGED <<cmsAccounts, up>>
     ELSE /\ cmsAccounts' = With(cmsAccounts, Root, "Pass1234")
          /\ Reply(c) /\ up' = TRUE
  /\ UNCHANGED <<users, statusLog, keys, sent, observed>>
-------------------------------------------------------------------------------
\* The database, Redis, the mail server or the process fails c.
Fail(c) ==
  LET e == job[c].email
  IN /\ InFlight(c)
     /\ reported' = IF At(c, "createCms", "inserted") THEN reported \cup {e} ELSE reported
     /\ disturbed' = IF At(c, "setStatus", "saved") THEN disturbed \cup {e} ELSE disturbed
     /\ Reply(c)
     /\ UNCHANGED <<collections, keys, sent, up, entered, told, turnedAway>>

\* Ten minutes have passed.
ExpireSignup(e)   == /\ signup[e] # None
                     /\ signup' = [signup EXCEPT ![e] = None]
                     /\ UNCHANGED <<collections, verified, sent, up, calls, observed>>
ExpireVerified(e) == /\ verified[e] # None
                     /\ verified' = [verified EXCEPT ![e] = None]
                     /\ UNCHANGED <<collections, signup, sent, up, calls, observed>>

SignupStep(c) == \/ StoreSignup(c) \/ MailCode(c)
                 \/ ReadSignup(c) \/ StoreVerified(c) \/ DropSignup(c)
                 \/ ReadVerified(c) \/ CheckCms(c) \/ FindDuplicate(c) \/ InsertUser(c)
                 \/ DropVerified(c)
CmsStep(c)    == InsertCmsAccount(c) \/ MailTemporary(c) \/ FindRoot(c) \/ SeedRoot(c)
LoginStep(c)  == LoginMember(c) \/ LoginCms(c)
StatusStep(c) == LoadMember(c) \/ SaveMember(c) \/ LogStatus(c)

Next == \/ \E c \in Call : \/ Arrive(c) \/ Start(c) \/ Fail(c)
                           \/ LookUp(c) \/ LookUpOther(c)
                           \/ SignupStep(c) \/ CmsStep(c) \/ LoginStep(c) \/ StatusStep(c)
        \/ \E e \in Email : ExpireSignup(e) \/ ExpireVerified(e)

Spec == Init /\ [][Next]_vars
-------------------------------------------------------------------------------
\* Documents, keys and requests keep to their schemas.
TypeOK ==
  /\ DOMAIN users \subseteq Email /\ users \in [DOMAIN users -> User]
  /\ DOMAIN cmsAccounts \subseteq Email
  /\ cmsAccounts = [e \in DOMAIN cmsAccounts |-> cmsAccounts[e]]
  /\ signup \in [Email -> Otp \cup {None}] /\ verified \in [Email -> Otp \cup {None}]
  /\ statusLog \in [Email -> LogEntry \cup {None}]
  /\ codes \in [Otp -> Request \cup {None}]
  /\ status = [c \in Call |-> status[c]] /\ seen = [c \in Call |-> seen[c]]
  /\ job = [c \in Call |-> job[c]]
  /\ \A c \in Call : InFlight(c) =>
       \/ job[c] \in Task /\ job[c].op = job[c].ask.op /\ job[c].email = job[c].ask.email
       \/ job[c] = [op |-> "start", email |-> Root]

\* A member is made of the data of one registration, whose code was mailed to his
\* address and accepted there: what two sign-ups for one address leave in the two
\* Redis keys, overwriting and deleting each other's, never makes a member of
\* data whose code nobody has entered.
MembersAreWhoTheySay ==
  \A e \in DOMAIN users : /\ users[e].code \in mailed \cap entered
                          /\ codes[users[e].code].email = e

\* An address that has an account of either kind when a request for it arrives is
\* not given away by it: members and CMS accounts can share one only if the
\* requests that made them overlapped.
LateRequestsAreRefused ==
  \A c \in Call :
    /\ status[c] \in {"stored", "inserted"}
    /\ job[c].op \in {"register", "setPassword", "createCms"}
    => ~job[c].taken

\* Whoever was told that his account exists, or was mailed a temporary password,
\* is not turned away with it later, unless the address is shared: then login()
\* finds the member and never the CMS account.
OwnersCanLogIn ==
  \A x \in turnedAway : x[2] = Temporary /\ x[1] \in DOMAIN users \cap DOMAIN cmsAccounts

\* A CMS account whose password nobody was mailed is one the admin who asked for
\* it has not been told is ready: its mail is under way, or he got an error.
LostPasswordsAreReported ==
  \A e \in DOMAIN cmsAccounts \ {Root} :
    \/ e \in handedOut \cup reported
    \/ \E c \in Call : At(c, "createCms", "inserted") /\ job[c].email = e

\* The status that the log tells of: a member starts active.
LoggedStatus(e) == IF statusLog[e] = None THEN TRUE ELSE statusLog[e].newIsActive

\* Unless two admins change one member at the same time or a change breaks off,
\* the log is the history of his status: each entry starts where the one before
\* it ended, and the last one ends where he is.
LogTellsTheStatus ==
  /\ [](\A e \in DOMAIN users \ disturbed :
         \/ users[e].isActive = LoggedStatus(e)
         \/ \E c \in Call : At(c, "setStatus", "saved") /\ job[c].email = e)
  /\ [][\A c \in Call : LogStatus(c) /\ job[c].email \notin disturbed
                          => seen[c] = LoggedStatus(job[c].email)]_vars
-------------------------------------------------------------------------------
(***************************************************************************)
(* Why it works: the inductive invariant.                                  *)
(***************************************************************************)
\* The code o was made for a registration of the address e, was mailed there and
\* has been entered.
Registered(o, e) == o \in Otp /\ codes[o] \in Request /\ codes[o].email = e
Proven(o, e)     == Registered(o, e) /\ o \in mailed \cap entered

\* What the Redis keys of an address hold belongs to it.
KeysOK == \A e \in Email : /\ signup[e] # None => Registered(signup[e], e)
                           /\ verified[e] # None => Proven(verified[e], e)

\* So does what a request has taken from them, and what it makes a member of.
CodesOK(c) ==
  /\ InFlight(c) /\ job[c].op = "verify" => job[c].ask.otp \in mailed
  /\ \/ At(c, "verify", "matched")
     \/ status[c] \in {"read", "notCms", "unique"} /\ job[c].op = "setPassword"
     => Proven(seen[c], job[c].email)

MembersOK == \A e \in DOMAIN users : Proven(users[e].code, e)

\* What a request for an address that had an account when it arrived has met, or
\* is going to meet.
TakenOK(c) ==
  InFlight(c) /\ job[c].op \in {"register", "setPassword", "createCms"} /\ job[c].taken =>
    LET e == job[c].email
    IN /\ e \in DOMAIN users \cup DOMAIN cmsAccounts
       /\ Looks(c, "lookedUp") =>
            seen[c] \/ e \in IF job[c].op = "register" THEN DOMAIN cmsAccounts ELSE DOMAIN users
       /\ At(c, "setPassword", "notCms") => e \in DOMAIN users
       /\ ~Looks(c, "free") /\ status[c] \notin {"unique", "stored", "inserted"}

\* A password that somebody was told is his is the account's.
PasswordsOK ==
  /\ \A x \in told : x[1] \in DOMAIN users /\ users[x[1]].password = x[2]
  /\ handedOut \subseteq DOMAIN cmsAccounts
  /\ \A e \in DOMAIN cmsAccounts \ {Root} : cmsAccounts[e] = Temporary

\* A request that is about to tell it has created the account; a change of status
\* has found the member; who was told that he has an account and is no member can
\* only be one of the staff.
AccountsOK(c) ==
  /\ At(c, "setPassword", "inserted") => /\ job[c].email \in DOMAIN users
                                         /\ users[job[c].email].password = job[c].ask.password
  /\ At(c, "createCms", "inserted") => job[c].email \in DOMAIN cmsAccounts
  /\ status[c] \in {"loaded", "saved"} /\ job[c].op = "setStatus" =>
       job[c].email \in DOMAIN users /\ seen[c] \in BOOLEAN
  /\ InFlight(c) /\ job[c].op = "login" /\ job[c].entitled =>
       /\ Entitled(job[c].email, job[c].ask.password)
       /\ status[c] = "noMember" => /\ job[c].ask.password = Temporary
                                    /\ job[c].email \in handedOut

CallOK(c) == CodesOK(c) /\ TakenOK(c) /\ AccountsOK(c)

\* While no two changes of a member overlap, the one under way knows what he was,
\* and the log tells what he was before it.
Saving(e) == \E c \in Call : At(c, "setStatus", "saved") /\ job[c].email = e

StatusOK(e) ==
  /\ e \in Email \ DOMAIN users => statusLog[e] = None
  /\ e \notin disturbed =>
       /\ \A c, d \in Call : ChangesStatusOf(c, e) /\ ChangesStatusOf(d, e) => c = d
       /\ \A c \in Call : ChangesStatusOf(c, e) =>
            /\ status[c] \in {"loaded", "saved"} => seen[c] = LoggedStatus(e)
            /\ status[c] = "saved" => users[e].isActive = job[c].ask.newIsActive
       /\ e \in DOMAIN users => users[e].isActive = LoggedStatus(e) \/ Saving(e)

IInv == /\ TypeOK /\ KeysOK /\ MembersOK /\ PasswordsOK
        /\ \A c \in Call : CallOK(c)
        /\ \A e \in Email : StatusOK(e)
        /\ OwnersCanLogIn /\ LostPasswordsAreReported
===============================================================================
