---------------------------- MODULE AccountsProofs ----------------------------
(***************************************************************************)
(* Accounts for any number of addresses, codes, passwords and requests at  *)
(* a time: its inductive invariant, who becomes a member, who may log in   *)
(* and what the log of the members' status tells.                          *)
(***************************************************************************)
EXTENDS Accounts, TLAPS

LEMMA InitIInv == Init => IInv
<1> SUFFICES ASSUME Init PROVE IInv
  OBVIOUS
<1>1. DOMAIN users = {} /\ DOMAIN cmsAccounts = {} /\ \A c \in Call : ~InFlight(c)
  BY DEF Init, EmptyCollection, InFlight
<1>2. TypeOK
  <2>1. /\ users \in [DOMAIN users -> User]
        /\ cmsAccounts = [e \in DOMAIN cmsAccounts |-> cmsAccounts[e]]
    BY <1>1 DEF Init, EmptyCollection
  <2> QED
    BY <1>1, <2>1 DEF Init, TypeOK
<1>3. KeysOK /\ MembersOK /\ PasswordsOK /\ OwnersCanLogIn /\ LostPasswordsAreReported
  BY <1>1 DEF Init, KeysOK, MembersOK, PasswordsOK, OwnersCanLogIn, LostPasswordsAreReported
<1>4. \A c \in Call : CallOK(c)
  BY <1>1 DEF Init, InFlight, CallOK, CodesOK, TakenOK, AccountsOK, At, Looks
<1>5. \A e \in Email : StatusOK(e)
  BY <1>1 DEF Init, StatusOK, ChangesStatusOf
<1> QED
  BY <1>2, <1>3, <1>4, <1>5 DEF IInv
-------------------------------------------------------------------------------
(***************************************************************************)
(* What every step has in common: one slot is used, accounts, mails and    *)
(* proofs of address stay.                                                 *)
(***************************************************************************)
OneSlot(c) ==
  /\ status' = [d \in Call |-> status'[d]]
  /\ job' = [d \in Call |-> job'[d]] /\ seen' = [d \in Call |-> seen'[d]]
  /\ \A d \in Call \ {c} : status'[d] = status[d] /\ job'[d] = job[d] /\ seen'[d] = seen[d]

Grows ==
  /\ DOMAIN users \subseteq DOMAIN users' /\ DOMAIN cmsAccounts \subseteq DOMAIN cmsAccounts'
  /\ \A e \in DOMAIN users : /\ users'[e].code = users[e].code
                             /\ users'[e].password = users[e].password
  /\ \A o \in Otp : codes[o] \in Request => codes'[o] = codes[o]
  /\ mailed \subseteq mailed' /\ entered \subseteq entered'
  /\ handedOut \subseteq handedOut' /\ told \subseteq told'

\* A request that is answered leaves an idle slot, about which nothing is said.
LEMMA Replied ==
  ASSUME TypeOK, NEW c \in Call, Reply(c)
  PROVE  OneSlot(c) /\ status'[c] = "idle" /\ ~InFlight(c)'
BY DEF Reply, Remember, TypeOK, OneSlot, InFlight

LEMMA IdleIsOK ==
  ASSUME NEW c \in Call, status'[c] = "idle"
  PROVE  CallOK(c)'
BY DEF CallOK, CodesOK, TakenOK, AccountsOK, At, Looks, InFlight

\* A request that goes on keeps its task.
LEMMA WentOn ==
  ASSUME TypeOK, NEW c \in Call, NEW st, NEW x, Goto(c, st), seen' = [seen EXCEPT ![c] = x]
  PROVE  OneSlot(c) /\ status'[c] = st /\ seen'[c] = x /\ job'[c] = job[c]
BY DEF Goto, TypeOK, OneSlot

LEMMA WentOnAsIs ==
  ASSUME TypeOK, NEW c \in Call, NEW st, Goto(c, st), UNCHANGED seen
  PROVE  OneSlot(c) /\ status'[c] = st /\ seen'[c] = seen[c] /\ job'[c] = job[c]
BY DEF Goto, TypeOK, OneSlot

\* What an address was proven with stays a proof.
LEMMA ProofsStay ==
  ASSUME Grows, NEW o, NEW e
  PROVE  /\ Registered(o, e) => o \in Otp /\ codes'[o] \in Request /\ codes'[o].email = e
         /\ Proven(o, e) => o \in mailed' /\ o \in entered'
BY DEF Grows, Registered, Proven

LEMMA CallsKept ==
  ASSUME IInv, Grows, NEW c \in Call, OneSlot(c), CallOK(c)'
  PROVE  \A d \in Call : CallOK(d)'
<1> SUFFICES ASSUME NEW d \in Call, d # c PROVE CallOK(d)'
  OBVIOUS
<1>1. status'[d] = status[d] /\ job'[d] = job[d] /\ seen'[d] = seen[d]
  BY DEF OneSlot
<1>2. CodesOK(d)'
  <2>1. Proven(seen[d], job[d].email) => Proven(seen[d], job[d].email)'
    BY <1>1, ProofsStay DEF Proven, Registered
  <2> QED
    BY <1>1, <2>1 DEF IInv, CallOK, CodesOK, Grows, At, InFlight
<1>3. TakenOK(d)'
  BY <1>1 DEF IInv, CallOK, TakenOK, Grows, At, Looks, InFlight
<1>4. AccountsOK(d)'
  BY <1>1 DEF IInv, CallOK, AccountsOK, Grows, At, InFlight, Entitled
<1> QED
  BY <1>2, <1>3, <1>4 DEF CallOK

LEMMA MembersKept ==
  ASSUME MembersOK, Grows, \A e \in DOMAIN users' \ DOMAIN users : Proven(users[e].code, e)'
  PROVE  MembersOK'
<1> SUFFICES ASSUME NEW e \in DOMAIN users PROVE Proven(users[e].code, e)'
  BY DEF MembersOK
<1>1. Proven(users[e].code, e) /\ users'[e].code = users[e].code
  BY DEF MembersOK, Grows
<1> QED
  BY <1>1, ProofsStay DEF Proven, Registered

LEMMA KeysKept ==
  ASSUME KeysOK, Grows,
         \A e \in Email : \/ signup'[e] \in {signup[e], None}
                          \/ Registered(signup[e], e)',
         \A e \in Email : \/ verified'[e] \in {verified[e], None}
                          \/ Proven(verified[e], e)'
  PROVE  KeysOK'
<1> SUFFICES ASSUME NEW e \in Email
             PROVE  /\ signup'[e] # None => Registered(signup[e], e)'
                    /\ verified'[e] # None => Proven(verified[e], e)'
  BY DEF KeysOK
<1>1. signup'[e] # None => Registered(signup[e], e)'
  BY ProofsStay DEF KeysOK, Registered
<1>2. verified'[e] # None => Proven(verified[e], e)'
  BY ProofsStay DEF KeysOK, Proven, Registered
<1> QED
  BY <1>1, <1>2

LEMMA PasswordsKept ==
  ASSUME PasswordsOK, Grows, told' = told, handedOut' \subseteq DOMAIN cmsAccounts',
         \A e \in DOMAIN cmsAccounts' \ {Root} :
           e \in DOMAIN cmsAccounts /\ cmsAccounts'[e] = cmsAccounts[e]
  PROVE  PasswordsOK'
BY DEF PasswordsOK, Grows

LEMMA OwnersKept ==
  ASSUME OwnersCanLogIn, Grows, turnedAway' = turnedAway
  PROVE  OwnersCanLogIn'
BY DEF OwnersCanLogIn, Grows

\* An account whose mail is still to come loses the request that is to send it
\* only when the mail is sent or the failure is reported.
LEMMA LostKept ==
  ASSUME LostPasswordsAreReported, NEW c \in Call, OneSlot(c),
         DOMAIN cmsAccounts' \subseteq DOMAIN cmsAccounts \cup {Root},
         handedOut \subseteq handedOut', reported \subseteq reported',
         At(c, "createCms", "inserted") => job[c].email \in handedOut' \cup reported'
  PROVE  LostPasswordsAreReported'
<1> SUFFICES ASSUME NEW e \in DOMAIN cmsAccounts' \ {Root}, e \notin handedOut' \cup reported'
             PROVE  \E d \in Call : At(d, "createCms", "inserted")' /\ job'[d].email = e
  BY DEF LostPasswordsAreReported
<1>1. PICK d \in Call : At(d, "createCms", "inserted") /\ job[d].email = e
  BY DEF LostPasswordsAreReported
<1>2. d # c
  BY <1>1
<1> QED
  BY <1>1, <1>2 DEF OneSlot, At

\* What the log tells of a member is a matter of the changes of his status.
LEMMA StatusKept ==
  ASSUME IInv, NEW c \in Call, OneSlot(c),
         DOMAIN users \subseteq DOMAIN users', statusLog' = statusLog,
         \A e \in DOMAIN users : users'[e].isActive = users[e].isActive,
         \A e \in DOMAIN users' \ DOMAIN users : users'[e].isActive = TRUE,
         disturbed \subseteq disturbed',
         ~(InFlight(c)' /\ job'[c].op = "setStatus"),
         At(c, "setStatus", "saved") => job[c].email \in disturbed'
  PROVE  \A e \in Email : StatusOK(e)'
<1> SUFFICES ASSUME NEW e \in Email PROVE StatusOK(e)'
  OBVIOUS
<1>1. StatusOK(e)
  BY DEF IInv
<1>2. e \in Email \ DOMAIN users' => statusLog'[e] = None
  BY <1>1 DEF StatusOK
<1>3. ASSUME e \notin disturbed'
      PROVE  /\ \A d, f \in Call : ChangesStatusOf(d, e)' /\ ChangesStatusOf(f, e)' => d = f
             /\ \A d \in Call : ChangesStatusOf(d, e)' =>
                  /\ status'[d] \in {"loaded", "saved"} => seen'[d] = LoggedStatus(e)'
                  /\ status'[d] = "saved" => users'[e].isActive = job'[d].ask.newIsActive
  <2>1. \A d \in Call : ChangesStatusOf(d, e)' => d # c
    BY DEF ChangesStatusOf
  <2>2. \A d \in Call \ {c} : ChangesStatusOf(d, e)' <=> ChangesStatusOf(d, e)
    BY DEF ChangesStatusOf, OneSlot, InFlight
  <2>3. LoggedStatus(e)' = LoggedStatus(e)
    BY DEF LoggedStatus
  <2>4. \A d \in Call \ {c} : /\ status'[d] = status[d] /\ job'[d] = job[d] /\ seen'[d] = seen[d]
    BY DEF OneSlot
  <2>5. \A d, f \in Call : ChangesStatusOf(d, e)' /\ ChangesStatusOf(f, e)' => d = f
    BY <1>1, <1>3, <2>1, <2>2 DEF StatusOK
  <2>6. ASSUME NEW d \in Call, ChangesStatusOf(d, e)'
        PROVE  /\ status'[d] \in {"loaded", "saved"} => seen'[d] = LoggedStatus(e)'
               /\ status'[d] = "saved" => users'[e].isActive = job'[d].ask.newIsActive
    <3>1. ChangesStatusOf(d, e) /\ status'[d] = status[d] /\ job'[d] = job[d] /\ seen'[d] = seen[d]
      BY <2>1, <2>2, <2>4, <2>6
    <3>2. /\ status[d] \in {"loaded", "saved"} => seen[d] = LoggedStatus(e)
          /\ status[d] = "saved" => users[e].isActive = job[d].ask.newIsActive
      BY <1>1, <1>3, <3>1 DEF StatusOK
    <3>3. status[d] = "saved" => e \in DOMAIN users
      BY <3>1 DEF IInv, CallOK, AccountsOK, ChangesStatusOf
    <3> QED
      BY <2>3, <3>1, <3>2, <3>3
  <2> QED
    BY <2>5, <2>6
<1>4. ASSUME e \notin disturbed', e \in DOMAIN users'
      PROVE  users'[e].isActive = LoggedStatus(e)' \/ Saving(e)'
  <2>1. CASE e \notin DOMAIN users
    BY <1>1, <1>4, <2>1 DEF StatusOK, LoggedStatus
  <2>2. CASE e \in DOMAIN users
    <3>1. users[e].isActive = LoggedStatus(e) \/ Saving(e)
      BY <1>1, <1>4, <2>2 DEF StatusOK
    <3>2. Saving(e) => Saving(e)'
      <4>1. ASSUME NEW d \in Call, At(d, "setStatus", "saved"), job[d].email = e
            PROVE  At(d, "setStatus", "saved")' /\ job'[d].email = e
        <5>1. d # c
          BY <1>4, <4>1
        <5> QED
          BY <4>1, <5>1 DEF OneSlot, At
      <4> QED
        BY <4>1 DEF Saving
    <3> QED
      BY <2>2, <3>1, <3>2 DEF LoggedStatus
  <2> QED
    BY <2>1, <2>2
<1> QED
  BY <1>2, <1>3, <1>4 DEF StatusOK

LEMMA TypesKept ==
  ASSUME TypeOK, NEW c \in Call, OneSlot(c), InFlight(c)' => InFlight(c) /\ job'[c] = job[c],
         UNCHANGED <<users, cmsAccounts, statusLog>>,
         signup' \in [Email -> Otp \cup {None}], verified' \in [Email -> Otp \cup {None}],
         codes' \in [Otp -> Request \cup {None}]
  PROVE  TypeOK'
<1>1. ASSUME NEW d \in Call, InFlight(d)'
      PROVE  \/ job'[d] \in Task /\ job'[d].op = job'[d].ask.op /\ job'[d].email = job'[d].ask.email
             \/ job'[d] = [op |-> "start", email |-> Root]
  <2>1. InFlight(d) /\ job'[d] = job[d]
    BY <1>1 DEF OneSlot, InFlight
  <2> QED
    BY <2>1 DEF TypeOK
<1> QED
  BY <1>1 DEF TypeOK, OneSlot

\* A step of a request that leaves accounts and members' status alone, and is not
\* the last of a creation unless its mail is sent.
LEMMA LocalStep ==
  ASSUME IInv, NEW c \in Call, OneSlot(c), CallOK(c)', Grows, KeysOK', OwnersCanLogIn',
         InFlight(c)' => InFlight(c) /\ job'[c] = job[c] /\ job[c].op # "setStatus",
         ~At(c, "setStatus", "saved"),
         At(c, "createCms", "inserted") => job[c].email \in handedOut',
         UNCHANGED <<users, cmsAccounts, statusLog, told, reported, disturbed>>,
         signup' \in [Email -> Otp \cup {None}], verified' \in [Email -> Otp \cup {None}],
         codes' \in [Otp -> Request \cup {None}], handedOut' \subseteq DOMAIN cmsAccounts
  PROVE  IInv'
<1>1. TypeOK'
  BY TypesKept DEF IInv
<1>2. \A d \in Call : CallOK(d)'
  BY CallsKept
<1>3. MembersOK'
  BY MembersKept DEF IInv
<1>4. PasswordsOK'
  <2>1. PasswordsOK
    BY DEF IInv
  <2> QED
    BY <2>1, PasswordsKept
<1>5. LostPasswordsAreReported'
  <2>1. handedOut \subseteq handedOut'
    BY DEF Grows
  <2> QED
    BY <2>1, LostKept DEF IInv
<1>6. \A e \in Email : StatusOK(e)'
  BY StatusKept
<1> QED
  BY <1>1, <1>2, <1>3, <1>4, <1>5, <1>6 DEF IInv

\* The same of a step that only reads.
LEMMA ReadingStep ==
  ASSUME IInv, NEW c \in Call, OneSlot(c), CallOK(c)', OwnersCanLogIn',
         InFlight(c)' => InFlight(c) /\ job'[c] = job[c] /\ job[c].op # "setStatus",
         ~At(c, "setStatus", "saved"), ~At(c, "createCms", "inserted"),
         UNCHANGED <<collections, keys, sent, entered, told, reported, disturbed>>
  PROVE  IInv'
<1>1. UNCHANGED <<users, cmsAccounts, statusLog, signup, verified, codes, mailed, handedOut,
                  entered, told, reported, disturbed>>
  BY DEF collections, keys, sent
<1>2. Grows
  BY <1>1 DEF Grows
<1>3. KeysOK'
  BY <1>1, <1>2, KeysKept DEF IInv
<1>4. /\ signup \in [Email -> Otp \cup {None}] /\ verified \in [Email -> Otp \cup {None}]
      /\ codes \in [Otp -> Request \cup {None}] /\ handedOut \subseteq DOMAIN cmsAccounts
  BY DEF IInv, TypeOK, PasswordsOK
<1> QED
  BY <1>1, <1>2, <1>3, <1>4, LocalStep

\* OwnersCanLogIn speaks of nothing that a step which only reads could change.
LEMMA OwnersUntouched ==
  ASSUME IInv, UNCHANGED <<collections, turnedAway>>
  PROVE  OwnersCanLogIn'
BY DEF IInv, OwnersCanLogIn, collections
-------------------------------------------------------------------------------
\* An address with an account that is not in the first collection is in the other.
LEMMA LookUpKeepsIInv == ASSUME IInv, NEW c \in Call, LookUp(c)  PROVE IInv'
<1> DEFINE e == job[c].email
           first == IF job[c].op = "register" THEN users ELSE cmsAccounts
           hit == e \in DOMAIN first
<1>1. /\ status[c] = "received" /\ job[c].op \in {"register", "createCms"}
      /\ seen' = [seen EXCEPT ![c] = hit] /\ Goto(c, "lookedUp")
      /\ UNCHANGED <<collections, keys, sent, up, observed>>
  BY DEF LookUp, Looks, Remember
<1> HIDE DEF hit
<1>2. OneSlot(c) /\ status'[c] = "lookedUp" /\ seen'[c] = hit /\ job'[c] = job[c]
  BY <1>1, WentOn DEF IInv
<1> USE DEF hit
<1>3. TakenOK(c)'
  <2>1. job[c].taken => e \in DOMAIN users \cup DOMAIN cmsAccounts
    BY <1>1 DEF IInv, CallOK, TakenOK, InFlight
  <2>2. job[c].taken => hit \/ e \in IF job[c].op = "register" THEN DOMAIN cmsAccounts ELSE DOMAIN users
    BY <1>1, <2>1
  <2> QED
    BY <1>1, <1>2, <2>1, <2>2 DEF TakenOK, InFlight, At, Looks, collections
<1>4. CodesOK(c)' /\ AccountsOK(c)'
  BY <1>1, <1>2 DEF CodesOK, AccountsOK, InFlight, At
<1>5. OwnersCanLogIn'
  BY <1>1, OwnersUntouched DEF observed
<1> QED
  BY <1>1, <1>2, <1>3, <1>4, <1>5, ReadingStep DEF CallOK, InFlight, At, observed

LEMMA LookUpOtherKeepsIInv == ASSUME IInv, NEW c \in Call, LookUpOther(c)  PROVE IInv'
<1> DEFINE e == job[c].email
           other == IF job[c].op = "register" THEN cmsAccounts ELSE users
<1>1. /\ status[c] = "lookedUp" /\ job[c].op \in {"register", "createCms"}
      /\ UNCHANGED <<collections, keys, sent, up, observed>>
  BY DEF LookUpOther, Looks
<1>2. OwnersCanLogIn'
  BY <1>1, OwnersUntouched DEF observed
<1>3. CASE Reply(c)
  BY <1>1, <1>2, <1>3, Replied, IdleIsOK, ReadingStep DEF IInv, At, observed
<1>4. CASE ~(seen[c] \/ e \in DOMAIN other) /\ Goto(c, "free") /\ Remember(c, None)
  <2>1. OneSlot(c) /\ status'[c] = "free" /\ job'[c] = job[c]
    BY <1>4, WentOn DEF IInv, Remember
  <2>2. ~job[c].taken
    BY <1>1, <1>4 DEF IInv, CallOK, TakenOK, InFlight, Looks
  <2>3. CallOK(c)'
    BY <1>1, <2>1, <2>2 DEF CallOK, CodesOK, AccountsOK, TakenOK, InFlight, At, Looks
  <2> QED
    BY <1>1, <1>2, <2>1, <2>3, ReadingStep DEF InFlight, At, observed
<1> QED
  BY <1>3, <1>4 DEF LookUpOther

\* A request that is only answered: nothing else is said of it.
LEMMA AnswerOnly ==
  ASSUME IInv, NEW c \in Call, Reply(c), OwnersCanLogIn',
         ~At(c, "setStatus", "saved"), ~At(c, "createCms", "inserted"),
         UNCHANGED <<collections, keys, sent, entered, told, reported, disturbed>>
  PROVE  IInv'
<1>1. OneSlot(c) /\ status'[c] = "idle" /\ ~InFlight(c)'
  BY Replied DEF IInv
<1>2. CallOK(c)'
  BY <1>1, IdleIsOK
<1> QED
  BY <1>1, <1>2, ReadingStep

\* What is known of a request that is not a start of the process.
LEMMA TaskOfRequest ==
  ASSUME IInv, NEW c \in Call, InFlight(c), job[c].op # "start"
  PROVE  /\ job[c] \in Task /\ job[c].email \in Applicant /\ job[c].ask \in Request
         /\ job[c].op = job[c].ask.op /\ job[c].email = job[c].ask.email
<1>1. \/ job[c] \in Task /\ job[c].op = job[c].ask.op /\ job[c].email = job[c].ask.email
      \/ job[c] = [op |-> "start", email |-> Root]
  BY DEF IInv, TypeOK
<1>2. job[c] \in Task /\ job[c].op = job[c].ask.op /\ job[c].email = job[c].ask.email
  BY <1>1
<1> QED
  BY <1>2 DEF Task

\* The code is one that was made for no other registration.
LEMMA StoreSignupKeepsIInv == ASSUME IInv, NEW c \in Call, StoreSignup(c)  PROVE IInv'
<1>1. /\ status[c] = "free" /\ job[c].op = "register" /\ Goto(c, "stored")
      /\ UNCHANGED <<collections, verified, mailed, handedOut, up, observed>>
  BY DEF StoreSignup, At
<1>2. PICK e \in Email : /\ job[c].email = e /\ job[c].ask \in Request /\ job[c].ask.email = e
  BY <1>1, TaskOfRequest DEF InFlight, Applicant
<1>3. PICK o \in Otp : /\ codes[o] = None /\ codes' = [codes EXCEPT ![o] = job[c].ask]
                       /\ signup' = [signup EXCEPT ![e] = o]
                       /\ seen' = [seen EXCEPT ![c] = o]
  BY <1>2 DEF StoreSignup, Remember
<1>4. OneSlot(c) /\ status'[c] = "stored" /\ seen'[c] = o /\ job'[c] = job[c]
  BY <1>1, <1>3, WentOn DEF IInv
<1>5. /\ codes' \in [Otp -> Request \cup {None}] /\ codes'[o] = job[c].ask
      /\ \A p \in Otp : codes[p] \in Request => codes'[p] = codes[p]
  BY <1>3, <1>2, NoneIsNothing DEF IInv, TypeOK
<1>6. /\ signup' \in [Email -> Otp \cup {None}] /\ signup'[e] = o
      /\ \A f \in Email \ {e} : signup'[f] = signup[f]
  BY <1>3, <1>2 DEF IInv, TypeOK
<1>7. Grows
  BY <1>1, <1>5 DEF Grows, collections, observed
<1>8. KeysOK'
  <2>1. Registered(signup[e], e)'
    BY <1>2, <1>5, <1>6 DEF Registered
  <2> QED
    BY <1>1, <1>6, <1>7, <2>1, KeysKept DEF IInv
<1>9. CallOK(c)'
  <2>1. ~job[c].taken
    BY <1>1 DEF IInv, CallOK, TakenOK, InFlight, Looks
  <2> QED
    BY <1>1, <1>4, <2>1 DEF CallOK, CodesOK, AccountsOK, TakenOK, InFlight, At, Looks
<1>10. OwnersCanLogIn'
  BY <1>1, OwnersUntouched DEF observed
<1>11. verified \in [Email -> Otp \cup {None}] /\ handedOut \subseteq DOMAIN cmsAccounts
  BY DEF IInv, TypeOK, PasswordsOK
<1> QED
  BY <1>1, <1>4, <1>5, <1>6, <1>7, <1>8, <1>9, <1>10, <1>11, LocalStep
     DEF InFlight, At, collections, observed

LEMMA MailCodeKeepsIInv == ASSUME IInv, NEW c \in Call, MailCode(c)  PROVE IInv'
<1>1. /\ status[c] = "stored" /\ mailed' = mailed \cup {seen[c]} /\ Reply(c)
      /\ UNCHANGED <<collections, keys, codes, handedOut, up, observed>>
  BY DEF MailCode, At
<1>2. OneSlot(c) /\ ~InFlight(c)' /\ CallOK(c)'
  BY <1>1, Replied, IdleIsOK DEF IInv
<1>3. Grows
  BY <1>1 DEF Grows, collections, observed
<1>4. KeysOK'
  BY <1>1, <1>3, KeysKept DEF IInv, keys
<1>5. OwnersCanLogIn'
  BY <1>1, OwnersUntouched DEF observed
<1>6. /\ signup \in [Email -> Otp \cup {None}] /\ verified \in [Email -> Otp \cup {None}]
      /\ codes \in [Otp -> Request \cup {None}] /\ handedOut \subseteq DOMAIN cmsAccounts
  BY DEF IInv, TypeOK, PasswordsOK
<1> QED
  BY <1>1, <1>2, <1>3, <1>4, <1>5, <1>6, LocalStep DEF At, collections, keys, observed

LEMMA MailTemporaryKeepsIInv == ASSUME IInv, NEW c \in Call, MailTemporary(c)  PROVE IInv'
<1>1. /\ At(c, "createCms", "inserted") /\ handedOut' = handedOut \cup {job[c].email} /\ Reply(c)
      /\ UNCHANGED <<collections, keys, codes, mailed, up, observed>>
  BY DEF MailTemporary
<1>2. OneSlot(c) /\ ~InFlight(c)' /\ CallOK(c)'
  BY <1>1, Replied, IdleIsOK DEF IInv
<1>3. Grows
  BY <1>1 DEF Grows, collections, observed
<1>4. KeysOK'
  BY <1>1, <1>3, KeysKept DEF IInv, keys
<1>5. OwnersCanLogIn'
  BY <1>1, OwnersUntouched DEF observed
<1>6. /\ signup \in [Email -> Otp \cup {None}] /\ verified \in [Email -> Otp \cup {None}]
      /\ codes \in [Otp -> Request \cup {None}] /\ handedOut \subseteq DOMAIN cmsAccounts
  BY DEF IInv, TypeOK, PasswordsOK
<1>7. handedOut' \subseteq DOMAIN cmsAccounts
  BY <1>1, <1>6 DEF IInv, CallOK, AccountsOK
<1> QED
  BY <1>1, <1>2, <1>3, <1>4, <1>5, <1>6, <1>7, LocalStep DEF At, collections, keys, observed

\* The code that is entered is the one that the key of the address holds.
LEMMA ReadSignupKeepsIInv == ASSUME IInv, NEW c \in Call, ReadSignup(c)  PROVE IInv'
<1> DEFINE e == job[c].email
           o == job[c].ask.otp
<1>1. /\ status[c] = "received" /\ job[c].op = "verify"
      /\ UNCHANGED <<collections, keys, sent, up, told, turnedAway, reported, disturbed>>
  BY DEF ReadSignup, At
<1>2. OwnersCanLogIn'
  BY <1>1, OwnersUntouched
<1>3. CASE Reply(c) /\ UNCHANGED entered
  BY <1>1, <1>2, <1>3, AnswerOnly DEF At
<1>4. CASE /\ signup[e] = o /\ Goto(c, "matched") /\ seen' = [seen EXCEPT ![c] = signup[e]]
           /\ entered' = entered \cup {o}
  <2>1. OneSlot(c) /\ status'[c] = "matched" /\ seen'[c] = o /\ job'[c] = job[c]
    BY <1>4, WentOn DEF IInv
  <2>2. e \in Email /\ o \in Otp /\ o \in mailed
    <3>1. e \in Email /\ job[c].ask \in Request /\ job[c].ask.op = "verify"
      BY <1>1, TaskOfRequest DEF InFlight, Applicant
    <3>2. o \in Otp
      BY <3>1 DEF Request
    <3> QED
      BY <1>1, <3>1, <3>2 DEF IInv, CallOK, CodesOK, InFlight
  <2>3. Registered(o, e)
    BY <1>4, <2>2, NoneIsNothing DEF IInv, KeysOK
  <2>4. Grows
    BY <1>1, <1>4 DEF Grows, collections, sent
  <2>5. KeysOK'
    BY <1>1, <2>4, KeysKept DEF IInv, keys
  <2>6. Proven(seen[c], e)'
    BY <1>1, <1>4, <2>1, <2>2, <2>3 DEF Proven, Registered, sent
  <2>7. CallOK(c)'
    BY <1>1, <2>1, <2>2, <2>6 DEF CallOK, CodesOK, AccountsOK, TakenOK, InFlight, At, Looks, sent
  <2>8. /\ signup \in [Email -> Otp \cup {None}] /\ verified \in [Email -> Otp \cup {None}]
        /\ codes \in [Otp -> Request \cup {None}] /\ handedOut \subseteq DOMAIN cmsAccounts
    BY DEF IInv, TypeOK, PasswordsOK
  <2> QED
    BY <1>1, <1>2, <2>1, <2>4, <2>5, <2>7, <2>8, LocalStep DEF InFlight, At, collections, keys, sent
<1> QED
  BY <1>3, <1>4 DEF ReadSignup, Matches, Remember

LEMMA StoreVerifiedKeepsIInv == ASSUME IInv, NEW c \in Call, StoreVerified(c)  PROVE IInv'
<1>1. /\ status[c] = "matched" /\ job[c].op = "verify" /\ Goto(c, "moved")
      /\ seen' = [seen EXCEPT ![c] = None]
      /\ UNCHANGED <<collections, signup, sent, up, observed>>
  BY DEF StoreVerified, At, Remember
<1>2. PICK e \in Email : e = job[c].email
  BY <1>1, TaskOfRequest DEF InFlight, Applicant
<1>3. PICK o \in Otp : o = seen[c] /\ Proven(o, e)
  BY <1>1, <1>2 DEF IInv, CallOK, CodesOK, At, Proven, Registered
<1>4. /\ verified' \in [Email -> Otp \cup {None}] /\ verified'[e] = o
      /\ \A f \in Email \ {e} : verified'[f] = verified[f]
  BY <1>2, <1>3 DEF StoreVerified, IInv, TypeOK
<1>5. OneSlot(c) /\ status'[c] = "moved" /\ job'[c] = job[c]
  BY <1>1, WentOn DEF IInv
<1>6. Grows
  BY <1>1 DEF Grows, collections, sent, observed
<1>7. KeysOK'
  <2>1. Proven(verified[e], e)'
    BY <1>1, <1>3, <1>4 DEF Proven, Registered, sent, observed
  <2> QED
    BY <1>1, <1>4, <1>6, <2>1, KeysKept DEF IInv
<1>8. CallOK(c)'
  <2>1. job[c].ask.otp \in mailed
    BY <1>1 DEF IInv, CallOK, CodesOK, InFlight
  <2> QED
    BY <1>1, <1>5, <2>1 DEF CallOK, CodesOK, AccountsOK, TakenOK, InFlight, At, Looks, sent
<1>9. OwnersCanLogIn'
  BY <1>1, OwnersUntouched DEF observed
<1>10. /\ signup \in [Email -> Otp \cup {None}] /\ codes \in [Otp -> Request \cup {None}]
       /\ handedOut \subseteq DOMAIN cmsAccounts
  BY DEF IInv, TypeOK, PasswordsOK
<1> QED
  BY <1>1, <1>4, <1>5, <1>6, <1>7, <1>8, <1>9, <1>10, LocalStep
     DEF InFlight, At, collections, sent, observed

LEMMA DropSignupKeepsIInv == ASSUME IInv, NEW c \in Call, DropSignup(c)  PROVE IInv'
<1>1. /\ status[c] = "moved" /\ Reply(c)
      /\ UNCHANGED <<collections, verified, sent, up, observed>>
  BY DEF DropSignup, At
<1>2. /\ signup' \in [Email -> Otp \cup {None}]
      /\ \A f \in Email : signup'[f] \in {signup[f], None}
  BY DEF DropSignup, IInv, TypeOK
<1>3. OneSlot(c) /\ ~InFlight(c)' /\ CallOK(c)'
  BY <1>1, Replied, IdleIsOK DEF IInv
<1>4. Grows
  BY <1>1 DEF Grows, collections, sent, observed
<1>5. KeysOK'
  BY <1>1, <1>2, <1>4, KeysKept DEF IInv
<1>6. OwnersCanLogIn'
  BY <1>1, OwnersUntouched DEF observed
<1>7. /\ verified \in [Email -> Otp \cup {None}] /\ codes \in [Otp -> Request \cup {None}]
      /\ handedOut \subseteq DOMAIN cmsAccounts
  BY DEF IInv, TypeOK, PasswordsOK
<1> QED
  BY <1>1, <1>2, <1>3, <1>4, <1>5, <1>6, <1>7, LocalStep DEF At, collections, sent, observed

\* Keys that expire, and steps of nobody.
LEMMA ExpiringKeepsIInv ==
  ASSUME IInv, UNCHANGED <<collections, sent, up, calls, observed>>,
         signup' \in [Email -> Otp \cup {None}], verified' \in [Email -> Otp \cup {None}],
         \A e \in Email : signup'[e] \in {signup[e], None} /\ verified'[e] \in {verified[e], None}
  PROVE  IInv'
<1>1. Grows
  BY DEF Grows, collections, sent, observed
<1>2. TypeOK' /\ KeysOK'
  <2>1. KeysOK'
    BY <1>1, KeysKept DEF IInv
  <2> QED
    BY <2>1 DEF IInv, TypeOK, collections, sent, calls, InFlight
<1>3. MembersOK'
  BY <1>1, MembersKept DEF IInv, collections
<1>4. PasswordsOK' /\ OwnersCanLogIn' /\ LostPasswordsAreReported'
  BY DEF IInv, PasswordsOK, OwnersCanLogIn, LostPasswordsAreReported, At,
         collections, sent, calls, observed
<1>5. ASSUME NEW d \in Call PROVE CallOK(d)'
  <2>1. CallOK(d)
    BY DEF IInv
  <2>2. CodesOK(d)'
    BY <2>1 DEF CallOK, CodesOK, Proven, Registered, InFlight, At, sent, calls, observed
  <2>3. TakenOK(d)'
    BY <2>1 DEF CallOK, TakenOK, InFlight, At, Looks, collections, calls
  <2>4. AccountsOK(d)'
    BY <2>1 DEF CallOK, AccountsOK, Entitled, InFlight, At, collections, sent, calls, observed
  <2> QED
    BY <2>2, <2>3, <2>4 DEF CallOK
<1>6. ASSUME NEW e \in Email PROVE StatusOK(e)'
  <2>1. StatusOK(e)
    BY DEF IInv
  <2> QED
    BY <2>1 DEF StatusOK, ChangesStatusOf, LoggedStatus, Saving, InFlight, At,
                collections, calls, observed
<1> QED
  BY <1>2, <1>3, <1>4, <1>5, <1>6 DEF IInv

\* setPassword() goes on with a code that has been proven, or is answered.
LEMMA ReadVerifiedKeepsIInv == ASSUME IInv, NEW c \in Call, ReadVerified(c)  PROVE IInv'
<1> DEFINE o == verified[job[c].email]
<1>1. /\ status[c] = "received" /\ job[c].op = "setPassword"
      /\ UNCHANGED <<collections, keys, sent, up, observed>>
  BY DEF ReadVerified, At
<1>2. OwnersCanLogIn'
  BY <1>1, OwnersUntouched DEF observed
<1>3. CASE Reply(c)
  BY <1>1, <1>2, <1>3, AnswerOnly DEF At, observed
<1>4. CASE o # None /\ Goto(c, "read") /\ seen' = [seen EXCEPT ![c] = o]
  <2>1. OneSlot(c) /\ status'[c] = "read" /\ seen'[c] = o /\ job'[c] = job[c]
    BY <1>4, WentOn DEF IInv
  <2>2. Proven(o, job[c].email)
    <3>1. job[c].email \in Email
      BY <1>1, TaskOfRequest DEF InFlight, Applicant
    <3> QED
      BY <1>4, <3>1 DEF IInv, KeysOK
  <2>3. CodesOK(c)'
    BY <1>1, <2>1, <2>2 DEF CodesOK, Proven, Registered, InFlight, At, sent, observed
  <2>4. TakenOK(c)' /\ AccountsOK(c)'
    BY <1>1, <2>1 DEF IInv, CallOK, AccountsOK, TakenOK, InFlight, At, Looks, collections
  <2> QED
    BY <1>1, <1>2, <2>1, <2>3, <2>4, ReadingStep DEF CallOK, InFlight, At, observed
<1> QED
  BY <1>3, <1>4 DEF ReadVerified, Remember

\* An address with an account that is not a CMS account's is a member's, and then
\* findOne() finds the member.
LEMMA CheckCmsKeepsIInv == ASSUME IInv, NEW c \in Call, CheckCms(c)  PROVE IInv'
<1>1. /\ status[c] = "read" /\ job[c].op = "setPassword"
      /\ UNCHANGED <<collections, keys, sent, up, observed>>
  BY DEF CheckCms, At
<1>2. OwnersCanLogIn'
  BY <1>1, OwnersUntouched DEF observed
<1>3. CASE Reply(c)
  BY <1>1, <1>2, <1>3, AnswerOnly DEF At, observed
<1>4. CASE job[c].email \notin DOMAIN cmsAccounts /\ Goto(c, "notCms") /\ UNCHANGED seen
  <2>1. OneSlot(c) /\ status'[c] = "notCms" /\ seen'[c] = seen[c] /\ job'[c] = job[c]
    BY <1>4, WentOnAsIs DEF IInv
  <2>2. CodesOK(c)'
    BY <1>1, <2>1 DEF IInv, CallOK, CodesOK, Proven, Registered, InFlight, At, sent, observed
  <2>3. TakenOK(c)' /\ AccountsOK(c)'
    BY <1>1, <1>4, <2>1 DEF IInv, CallOK, AccountsOK, TakenOK, InFlight, At, Looks, collections
  <2> QED
    BY <1>1, <1>2, <2>1, <2>2, <2>3, ReadingStep DEF CallOK, InFlight, At, observed
<1> QED
  BY <1>3, <1>4 DEF CheckCms

LEMMA FindDuplicateKeepsIInv == ASSUME IInv, NEW c \in Call, FindDuplicate(c)  PROVE IInv'
<1>1. /\ status[c] = "notCms" /\ job[c].op = "setPassword"
      /\ UNCHANGED <<collections, keys, sent, up, observed>>
  BY DEF FindDuplicate, At
<1>2. OwnersCanLogIn'
  BY <1>1, OwnersUntouched DEF observed
<1>3. CASE Reply(c)
  BY <1>1, <1>2, <1>3, AnswerOnly DEF At, observed
<1>4. CASE ~Duplicate(seen[c]) /\ Goto(c, "unique") /\ UNCHANGED seen
  <2>1. OneSlot(c) /\ status'[c] = "unique" /\ seen'[c] = seen[c] /\ job'[c] = job[c]
    BY <1>4, WentOnAsIs DEF IInv
  <2>2. CodesOK(c)'
    BY <1>1, <2>1 DEF IInv, CallOK, CodesOK, Proven, Registered, InFlight, At, sent, observed
  <2>3. ~job[c].taken
    <3>1. codes[seen[c]].email = job[c].email
      BY <1>1 DEF IInv, CallOK, CodesOK, Proven, Registered
    <3> QED
      BY <1>1, <1>4, <3>1 DEF Duplicate, IInv, CallOK, TakenOK, InFlight, At
  <2>4. TakenOK(c)' /\ AccountsOK(c)'
    BY <1>1, <2>1, <2>3 DEF AccountsOK, TakenOK, InFlight, At
  <2> QED
    BY <1>1, <1>2, <2>1, <2>2, <2>4, ReadingStep DEF CallOK, InFlight, At, observed
<1> QED
  BY <1>3, <1>4 DEF FindDuplicate

\* The unique index: nobody had the address, so no account is replaced.
LEMMA InsertUserKeepsIInv == ASSUME IInv, NEW c \in Call, InsertUser(c)  PROVE IInv'
<1>1. /\ status[c] = "unique" /\ job[c].op = "setPassword"
      /\ UNCHANGED <<cmsAccounts, statusLog, keys, sent, up, observed>>
  BY DEF InsertUser, At
<1>2. CASE Duplicate(seen[c])
  <2>1. Reply(c) /\ UNCHANGED collections
    BY <1>1, <1>2 DEF InsertUser, collections
  <2>2. OwnersCanLogIn'
    BY <1>1, <2>1, OwnersUntouched DEF observed
  <2> QED
    BY <1>1, <2>1, <2>2, AnswerOnly DEF At, observed
<1>3. CASE ~Duplicate(seen[c])
  <2>1. PICK e \in Email, o \in Otp : /\ e = job[c].email /\ o = seen[c] /\ Proven(o, e)
                                      /\ codes[o].email = e /\ job[c].ask.password \in Password
    <3>1. job[c].email \in Email /\ Proven(seen[c], job[c].email)
      BY <1>1, TaskOfRequest DEF InFlight, Applicant, IInv, CallOK, CodesOK
    <3>2. job[c].ask \in Request /\ job[c].ask.op = "setPassword"
      BY <1>1, TaskOfRequest DEF InFlight
    <3>3. job[c].ask.password \in Password
      BY <3>2 DEF Request
    <3> QED
      BY <3>1, <3>3 DEF Proven, Registered
  <2> DEFINE new == [code |-> o, password |-> job[c].ask.password, isActive |-> TRUE]
  <2>2. /\ users' = With(users, e, new) /\ Goto(c, "inserted") /\ seen' = [seen EXCEPT ![c] = None]
    BY <1>3, <2>1 DEF InsertUser, NewUser, Remember
  <2>3. e \notin DOMAIN users
    BY <1>3, <2>1 DEF Duplicate
  <2>4. /\ DOMAIN users' = DOMAIN users \cup {e} /\ users'[e] = new
        /\ \A f \in DOMAIN users : users'[f] = users[f]
        /\ users' \in [DOMAIN users' -> User]
    <3>1. new \in User
      BY <2>1 DEF User
    <3> QED
      BY <2>2, <2>3, <3>1 DEF With, IInv, TypeOK
  <2>5. OneSlot(c) /\ status'[c] = "inserted" /\ job'[c] = job[c]
    BY <2>2, WentOn DEF IInv
  <2>6. TypeOK'
    <3>1. ASSUME NEW d \in Call, InFlight(d)'
          PROVE  \/ job'[d] \in Task /\ job'[d].op = job'[d].ask.op /\ job'[d].email = job'[d].ask.email
                 \/ job'[d] = [op |-> "start", email |-> Root]
      <4>1. InFlight(d) /\ job'[d] = job[d]
        BY <1>1, <2>5, <3>1 DEF OneSlot, InFlight
      <4> QED
        BY <4>1 DEF IInv, TypeOK
    <3> QED
      BY <1>1, <2>1, <2>4, <2>5, <3>1 DEF IInv, TypeOK, OneSlot, keys, sent
  <2>7. Grows
    BY <1>1, <2>4 DEF Grows, sent, observed
  <2>8. KeysOK'
    BY <1>1, <2>7, KeysKept DEF IInv, keys
  <2>9. MembersOK'
    <3>1. Proven(users[e].code, e)'
      BY <1>1, <2>1, <2>4 DEF Proven, Registered, sent, observed
    <3> QED
      BY <2>4, <2>7, <3>1, MembersKept DEF IInv
  <2>10. PasswordsOK'
    <3>1. PasswordsOK
      BY DEF IInv
    <3> QED
      BY <1>1, <2>7, <3>1, PasswordsKept DEF PasswordsOK, sent, observed
  <2>11. OwnersCanLogIn'
    BY <1>1, <2>7, OwnersKept DEF IInv, observed
  <2>12. LostPasswordsAreReported'
    BY <1>1, <2>5, LostKept DEF IInv, At, sent, observed
  <2>13. \A f \in Email : StatusOK(f)'
    <3>1. /\ \A f \in DOMAIN users' \ DOMAIN users : users'[f].isActive = TRUE
          /\ \A f \in DOMAIN users : users'[f].isActive = users[f].isActive
          /\ DOMAIN users \subseteq DOMAIN users'
      BY <2>4
    <3>2. /\ job'[c].op # "setStatus" /\ ~At(c, "setStatus", "saved")
          /\ statusLog' = statusLog /\ disturbed \subseteq disturbed'
      BY <1>1, <2>5 DEF At, observed
    <3> HIDE DEF new
    <3> QED
      BY <2>5, <3>1, <3>2, StatusKept
  <2>14. CallOK(c)'
    <3>1. ~job[c].taken
      BY <1>1 DEF IInv, CallOK, TakenOK, InFlight
    <3> QED
      BY <1>1, <2>1, <2>4, <2>5, <3>1 DEF CallOK, CodesOK, AccountsOK, TakenOK, InFlight, At, Looks
  <2>15. \A d \in Call : CallOK(d)'
    BY <2>5, <2>7, <2>14, CallsKept
  <2> QED
    BY <2>6, <2>8, <2>9, <2>10, <2>11, <2>12, <2>13, <2>15 DEF IInv
<1> QED
  BY <1>2, <1>3

\* A CMS account is one more, with the generated password and its mail to come.
LEMMA InsertCmsAccountKeepsIInv == ASSUME IInv, NEW c \in Call, InsertCmsAccount(c)  PROVE IInv'
<1>1. /\ status[c] = "free" /\ job[c].op = "createCms"
      /\ UNCHANGED <<users, statusLog, keys, sent, up, observed>>
  BY DEF InsertCmsAccount, At
<1>2. CASE job[c].email \in DOMAIN cmsAccounts
  <2>1. Reply(c) /\ UNCHANGED collections
    BY <1>1, <1>2 DEF InsertCmsAccount, collections
  <2>2. OwnersCanLogIn'
    BY <1>1, <2>1, OwnersUntouched DEF observed
  <2> QED
    BY <1>1, <2>1, <2>2, AnswerOnly DEF At, observed
<1>3. CASE job[c].email \notin DOMAIN cmsAccounts
  <2>1. PICK e \in Email : e = job[c].email /\ e # Root
    BY <1>1, TaskOfRequest DEF InFlight, Applicant
  <2>2. /\ cmsAccounts' = With(cmsAccounts, e, Temporary)
        /\ Goto(c, "inserted") /\ seen' = [seen EXCEPT ![c] = None]
    BY <1>3, <2>1 DEF InsertCmsAccount, Remember
  <2>3. /\ DOMAIN cmsAccounts' = DOMAIN cmsAccounts \cup {e} /\ cmsAccounts'[e] = Temporary
        /\ \A f \in DOMAIN cmsAccounts : cmsAccounts'[f] = cmsAccounts[f]
        /\ cmsAccounts' = [f \in DOMAIN cmsAccounts' |-> cmsAccounts'[f]]
    BY <1>3, <2>1, <2>2 DEF With
  <2>4. OneSlot(c) /\ status'[c] = "inserted" /\ job'[c] = job[c]
    BY <2>2, WentOn DEF IInv
  <2>5. TypeOK'
    <3>1. ASSUME NEW d \in Call, InFlight(d)'
          PROVE  \/ job'[d] \in Task /\ job'[d].op = job'[d].ask.op /\ job'[d].email = job'[d].ask.email
                 \/ job'[d] = [op |-> "start", email |-> Root]
      <4>1. InFlight(d) /\ job'[d] = job[d]
        BY <1>1, <2>4, <3>1 DEF OneSlot, InFlight
      <4> QED
        BY <4>1 DEF IInv, TypeOK
    <3> QED
      BY <1>1, <2>1, <2>3, <2>4, <3>1 DEF IInv, TypeOK, OneSlot, keys, sent
  <2>6. Grows
    BY <1>1, <2>3 DEF Grows, sent, observed
  <2>7. KeysOK'
    BY <1>1, <2>6, KeysKept DEF IInv, keys
  <2>8. MembersOK'
    BY <1>1, <2>6, MembersKept DEF IInv
  <2>9. PasswordsOK'
    BY <1>1, <2>3 DEF IInv, PasswordsOK, sent, observed
  <2>10. OwnersCanLogIn'
    BY <1>1, <2>6, OwnersKept DEF IInv, observed
  <2>11. LostPasswordsAreReported'
    <3> SUFFICES ASSUME NEW f \in DOMAIN cmsAccounts' \ {Root}, f \notin handedOut \cup reported
                 PROVE  \E d \in Call : At(d, "createCms", "inserted")' /\ job'[d].email = f
      BY <1>1 DEF LostPasswordsAreReported, sent, observed
    <3>1. CASE f = e
      BY <1>1, <2>1, <2>4, <3>1 DEF At
    <3>2. CASE f # e
      <4>1. PICK d \in Call : At(d, "createCms", "inserted") /\ job[d].email = f
        BY <2>3, <3>2 DEF IInv, LostPasswordsAreReported
      <4>2. d # c
        BY <1>1, <4>1 DEF At
      <4> QED
        BY <2>4, <4>1, <4>2 DEF OneSlot, At
    <3> QED
      BY <3>1, <3>2
  <2>12. \A f \in Email : StatusOK(f)'
    BY <1>1, <2>4, StatusKept DEF At, observed
  <2>13. CallOK(c)'
    <3>1. ~job[c].taken
      BY <1>1 DEF IInv, CallOK, TakenOK, InFlight, Looks
    <3> QED
      BY <1>1, <2>1, <2>3, <2>4, <3>1 DEF CallOK, CodesOK, AccountsOK, TakenOK, InFlight, At, Looks
  <2>14. \A d \in Call : CallOK(d)'
    BY <2>4, <2>6, <2>13, CallsKept
  <2> QED
    BY <2>5, <2>7, <2>8, <2>9, <2>10, <2>11, <2>12, <2>14 DEF IInv
<1> QED
  BY <1>2, <1>3

\* "Account created": it has been, with the password of the one who is told.
LEMMA DropVerifiedKeepsIInv == ASSUME IInv, NEW c \in Call, DropVerified(c)  PROVE IInv'
<1>1. /\ status[c] = "inserted" /\ job[c].op = "setPassword" /\ Reply(c)
      /\ told' = told \cup {<<job[c].email, job[c].ask.password>>}
      /\ UNCHANGED <<collections, signup, sent, up, entered, turnedAway, reported, disturbed>>
  BY DEF DropVerified, At
<1>2. OneSlot(c) /\ ~InFlight(c)' /\ CallOK(c)'
  BY <1>1, Replied, IdleIsOK DEF IInv
<1>3. Grows
  BY <1>1 DEF Grows, collections, sent
<1>4. /\ verified' \in [Email -> Otp \cup {None}]
      /\ \A f \in Email : verified'[f] \in {verified[f], None}
  BY DEF DropVerified, IInv, TypeOK
<1>5. TypeOK'
  <2>1. signup \in [Email -> Otp \cup {None}] /\ codes \in [Otp -> Request \cup {None}]
    BY DEF IInv, TypeOK
  <2> QED
    BY <1>1, <1>2, <1>4, <2>1, TypesKept DEF IInv, collections, sent
<1>6. KeysOK'
  BY <1>1, <1>3, <1>4, KeysKept DEF IInv
<1>7. MembersOK'
  BY <1>1, <1>3, MembersKept DEF IInv, collections
<1>8. PasswordsOK'
  <2>1. /\ job[c].email \in DOMAIN users
        /\ users[job[c].email].password = job[c].ask.password
    BY <1>1 DEF IInv, CallOK, AccountsOK, At
  <2> QED
    BY <1>1, <2>1 DEF IInv, PasswordsOK, collections, sent
<1>9. OwnersCanLogIn'
  BY <1>1, OwnersUntouched
<1>10. LostPasswordsAreReported'
  BY <1>1, <1>2, LostKept DEF IInv, At, collections, sent
<1>11. \A e \in Email : StatusOK(e)'
  BY <1>1, <1>2, StatusKept DEF At, collections
<1>12. \A d \in Call : CallOK(d)'
  BY <1>2, <1>3, CallsKept
<1> QED
  BY <1>5, <1>6, <1>7, <1>8, <1>9, <1>10, <1>11, <1>12 DEF IInv

\* A member whose password it is gets in; a password that was told is a member's,
\* so without a member it can only be one that was mailed to the staff.
LEMMA LoginMemberKeepsIInv == ASSUME IInv, NEW c \in Call, LoginMember(c)  PROVE IInv'
<1> DEFINE e == job[c].email
           p == job[c].ask.password
<1>1. /\ status[c] = "received" /\ job[c].op = "login"
      /\ UNCHANGED <<collections, keys, sent, up, entered, told, reported, disturbed>>
  BY DEF LoginMember, At
<1>2. job[c].entitled => Entitled(e, p)
  BY <1>1 DEF IInv, CallOK, AccountsOK, InFlight
<1>3. <<e, p>> \in told => e \in DOMAIN users /\ users[e].password = p
  BY DEF IInv, PasswordsOK
<1>4. CASE e \notin DOMAIN users
  <2>1. Goto(c, "noMember") /\ UNCHANGED <<seen, turnedAway>>
    BY <1>4 DEF LoginMember
  <2>2. OneSlot(c) /\ status'[c] = "noMember" /\ job'[c] = job[c]
    BY <2>1, WentOnAsIs DEF IInv
  <2>3. CallOK(c)'
    <3>1. job[c].entitled => p = Temporary /\ e \in handedOut
      BY <1>2, <1>3, <1>4 DEF Entitled
    <3> QED
      BY <1>1, <1>2, <2>2, <3>1
         DEF CallOK, CodesOK, AccountsOK, TakenOK, InFlight, At, Looks, Entitled, sent
  <2>4. OwnersCanLogIn'
    BY <1>1, <2>1, OwnersUntouched
  <2> QED
    BY <1>1, <2>2, <2>3, <2>4, ReadingStep DEF InFlight, At
<1>5. CASE e \in DOMAIN users
  <2>1. /\ Reply(c)
        /\ \/ turnedAway' = turnedAway
           \/ users[e].password # p /\ job[c].entitled /\ turnedAway' = turnedAway \cup {<<e, p>>}
    BY <1>5 DEF LoginMember, TurnAway
  <2>2. OwnersCanLogIn'
    <3>1. users[e].password # p /\ job[c].entitled => p = Temporary /\ e \in DOMAIN cmsAccounts
      BY <1>2, <1>3 DEF Entitled, IInv, PasswordsOK
    <3> QED
      BY <1>1, <1>5, <2>1, <3>1 DEF IInv, OwnersCanLogIn, collections
  <2> QED
    BY <1>1, <2>1, <2>2, AnswerOnly DEF At
<1> QED
  BY <1>4, <1>5

LEMMA LoginCmsKeepsIInv == ASSUME IInv, NEW c \in Call, LoginCms(c)  PROVE IInv'
<1> DEFINE e == job[c].email
           p == job[c].ask.password
<1>1. /\ status[c] = "noMember" /\ job[c].op = "login" /\ Reply(c)
      /\ UNCHANGED <<collections, keys, sent, up, entered, told, reported, disturbed>>
      /\ \/ turnedAway' = turnedAway
         \/ ~(e \in DOMAIN cmsAccounts /\ cmsAccounts[e] = p) /\ job[c].entitled
  BY DEF LoginCms, At, TurnAway
<1>2. job[c].entitled => p = Temporary /\ e \in handedOut
  BY <1>1 DEF IInv, CallOK, AccountsOK, InFlight
<1>3. job[c].entitled => e \in DOMAIN cmsAccounts \ {Root}
  BY <1>1, <1>2, TaskOfRequest DEF InFlight, Applicant, IInv, PasswordsOK
<1>4. turnedAway' = turnedAway
  BY <1>1, <1>2, <1>3 DEF IInv, PasswordsOK
<1>5. OwnersCanLogIn'
  BY <1>1, <1>4, OwnersUntouched
<1> QED
  BY <1>1, <1>5, AnswerOnly DEF At

LEMMA FindRootKeepsIInv == ASSUME IInv, NEW c \in Call, FindRoot(c)  PROVE IInv'
<1>1. /\ status[c] = "received" /\ job[c].op = "start"
      /\ UNCHANGED <<collections, keys, sent, observed>>
  BY DEF FindRoot, At
<1>2. OwnersCanLogIn'
  BY <1>1, OwnersUntouched DEF observed
<1>3. CASE Reply(c)
  BY <1>1, <1>2, <1>3, AnswerOnly DEF At, observed
<1>4. CASE Goto(c, "unseeded") /\ UNCHANGED seen
  <2>1. OneSlot(c) /\ status'[c] = "unseeded" /\ job'[c] = job[c]
    BY <1>4, WentOnAsIs DEF IInv
  <2>2. CallOK(c)'
    BY <1>1, <2>1 DEF CallOK, CodesOK, AccountsOK, TakenOK, InFlight, At, Looks
  <2> QED
    BY <1>1, <1>2, <2>1, <2>2, ReadingStep DEF InFlight, At, observed
<1> QED
  BY <1>3, <1>4 DEF FindRoot

LEMMA SeedRootKeepsIInv == ASSUME IInv, NEW c \in Call, SeedRoot(c)  PROVE IInv'
<1>1. /\ status[c] = "unseeded" /\ job[c].op = "start" /\ Reply(c)
      /\ UNCHANGED <<users, statusLog, keys, sent, observed>>
  BY DEF SeedRoot, At
<1>2. OneSlot(c) /\ status'[c] = "idle" /\ ~InFlight(c)'
  BY <1>1, Replied DEF IInv
<1>3. CASE Root \in DOMAIN cmsAccounts
  <2>1. UNCHANGED collections
    BY <1>1, <1>3 DEF SeedRoot, collections
  <2>2. OwnersCanLogIn'
    BY <1>1, <2>1, OwnersUntouched DEF observed
  <2> QED
    BY <1>1, <2>1, <2>2, AnswerOnly DEF At, observed
<1>4. CASE Root \notin DOMAIN cmsAccounts
  <2>1. /\ DOMAIN cmsAccounts' = DOMAIN cmsAccounts \cup {Root}
        /\ \A f \in DOMAIN cmsAccounts : cmsAccounts'[f] = cmsAccounts[f]
        /\ cmsAccounts' = [f \in DOMAIN cmsAccounts' |-> cmsAccounts'[f]]
    BY <1>4 DEF SeedRoot, With
  <2>2. TypeOK'
    <3>1. ASSUME NEW d \in Call, InFlight(d)'
          PROVE  \/ job'[d] \in Task /\ job'[d].op = job'[d].ask.op /\ job'[d].email = job'[d].ask.email
                 \/ job'[d] = [op |-> "start", email |-> Root]
      <4>1. InFlight(d) /\ job'[d] = job[d]
        BY <1>2, <3>1 DEF OneSlot, InFlight
      <4> QED
        BY <4>1 DEF IInv, TypeOK
    <3> QED
      BY <1>1, <1>2, <2>1, <3>1, RootIsAnAddress DEF IInv, TypeOK, OneSlot, keys, sent
  <2>3. Grows
    BY <1>1, <2>1 DEF Grows, sent, observed
  <2>4. KeysOK'
    BY <1>1, <2>3, KeysKept DEF IInv, keys
  <2>5. MembersOK'
    BY <1>1, <2>3, MembersKept DEF IInv
  <2>6. PasswordsOK'
    BY <1>1, <2>1 DEF IInv, PasswordsOK, sent, observed
  <2>7. OwnersCanLogIn'
    BY <1>1, <2>3, OwnersKept DEF IInv, observed
  <2>8. LostPasswordsAreReported'
    BY <1>1, <1>2, <2>1, LostKept DEF IInv, At, sent, observed
  <2>9. \A f \in Email : StatusOK(f)'
    BY <1>1, <1>2, StatusKept DEF At, observed
  <2>10. \A d \in Call : CallOK(d)'
    <3>1. CallOK(c)'
      BY <1>2, IdleIsOK
    <3> QED
      BY <1>2, <2>3, <3>1, CallsKept
  <2> QED
    BY <2>2, <2>4, <2>5, <2>6, <2>7, <2>8, <2>9, <2>10 DEF IInv
<1> QED
  BY <1>3, <1>4

\* A failure is answered with an error, and what it left undone is on record.
LEMMA FailKeepsIInv == ASSUME IInv, NEW c \in Call, Fail(c)  PROVE IInv'
<1>1. /\ InFlight(c) /\ Reply(c)
      /\ UNCHANGED <<collections, keys, sent, up, entered, told, turnedAway>>
  BY DEF Fail
<1>2. /\ reported \subseteq reported' /\ disturbed \subseteq disturbed'
      /\ At(c, "createCms", "inserted") => job[c].email \in reported'
      /\ At(c, "setStatus", "saved") => job[c].email \in disturbed'
  BY DEF Fail
<1>3. OneSlot(c) /\ ~InFlight(c)' /\ CallOK(c)'
  BY <1>1, Replied, IdleIsOK DEF IInv
<1>4. Grows
  BY <1>1 DEF Grows, collections, sent
<1>5. TypeOK'
  <2>1. /\ signup \in [Email -> Otp \cup {None}] /\ verified \in [Email -> Otp \cup {None}]
        /\ codes \in [Otp -> Request \cup {None}]
    BY DEF IInv, TypeOK
  <2> QED
    BY <1>1, <1>3, <2>1, TypesKept DEF IInv, collections, keys, sent
<1>6. KeysOK'
  BY <1>1, <1>4, KeysKept DEF IInv, keys
<1>7. MembersOK'
  BY <1>1, <1>4, MembersKept DEF IInv, collections
<1>8. PasswordsOK'
  BY <1>1 DEF IInv, PasswordsOK, collections, sent
<1>9. OwnersCanLogIn'
  BY <1>1, OwnersUntouched
<1>10. LostPasswordsAreReported'
  BY <1>1, <1>2, <1>3, LostKept DEF IInv, collections, sent
<1>11. \A e \in Email : StatusOK(e)'
  BY <1>1, <1>2, <1>3, StatusKept DEF collections
<1>12. \A d \in Call : CallOK(d)'
  BY <1>3, <1>4, CallsKept
<1> QED
  BY <1>5, <1>6, <1>7, <1>8, <1>9, <1>10, <1>11, <1>12 DEF IInv

\* A slot that was idle takes a request; accounts, keys and mails are what they were.
LEMMA Arriving ==
  ASSUME IInv, NEW c \in Call, ~InFlight(c), OneSlot(c), CallOK(c)',
         UNCHANGED <<collections, keys, sent, entered, told, turnedAway, reported>>,
         \/ job'[c] \in Task /\ job'[c].op = job'[c].ask.op /\ job'[c].email = job'[c].ask.email
         \/ job'[c] = [op |-> "start", email |-> Root],
         \A e \in Email : StatusOK(e)'
  PROVE  IInv'
<1>1. TypeOK'
  <2>1. ASSUME NEW d \in Call, InFlight(d)'
        PROVE  \/ job'[d] \in Task /\ job'[d].op = job'[d].ask.op /\ job'[d].email = job'[d].ask.email
               \/ job'[d] = [op |-> "start", email |-> Root]
    <3>1. CASE d # c
      <4>1. InFlight(d) /\ job'[d] = job[d]
        BY <2>1, <3>1 DEF OneSlot, InFlight
      <4> QED
        BY <4>1 DEF IInv, TypeOK
    <3> QED
      BY <3>1
  <2> QED
    BY <2>1 DEF IInv, TypeOK, OneSlot, collections, keys, sent
<1>2. Grows
  BY DEF Grows, collections, sent
<1>3. KeysOK'
  BY <1>2, KeysKept DEF IInv, keys
<1>4. MembersOK'
  BY <1>2, MembersKept DEF IInv, collections
<1>5. PasswordsOK' /\ OwnersCanLogIn'
  BY DEF IInv, PasswordsOK, OwnersCanLogIn, collections, sent
<1>6. LostPasswordsAreReported'
  BY LostKept DEF IInv, At, InFlight, collections, sent
<1>7. \A d \in Call : CallOK(d)'
  BY <1>2, CallsKept
<1> QED
  BY <1>1, <1>3, <1>4, <1>5, <1>6, <1>7 DEF IInv

LEMMA StartKeepsIInv == ASSUME IInv, NEW c \in Call, Start(c)  PROVE IInv'
<1>1. /\ ~InFlight(c) /\ job' = [job EXCEPT ![c] = [op |-> "start", email |-> Root]]
      /\ status' = [status EXCEPT ![c] = "received"]
      /\ UNCHANGED <<collections, keys, sent, up, seen, observed>>
  BY DEF Start
<1>2. /\ OneSlot(c) /\ status'[c] = "received" /\ job'[c] = [op |-> "start", email |-> Root]
  BY <1>1 DEF IInv, TypeOK, OneSlot
<1>3. CallOK(c)'
  BY <1>2 DEF CallOK, CodesOK, TakenOK, AccountsOK, At, Looks
<1>4. \A e \in Email : StatusOK(e)'
  <2>1. job'[c].op # "setStatus" /\ ~At(c, "setStatus", "saved")
    BY <1>1, <1>2 DEF InFlight, At
  <2>2. users' = users /\ statusLog' = statusLog /\ disturbed' = disturbed
    BY <1>1 DEF collections, observed
  <2> QED
    BY <1>2, <2>1, <2>2, StatusKept
<1> QED
  BY <1>1, <1>2, <1>3, <1>4, Arriving DEF observed

\* A change of one member's status says nothing of another's.
LEMMA StatusKeptElsewhere ==
  ASSUME IInv, NEW c \in Call, OneSlot(c), NEW e \in Email,
         ~ChangesStatusOf(c, e), ~ChangesStatusOf(c, e)',
         DOMAIN users' = DOMAIN users, statusLog'[e] = statusLog[e],
         e \in DOMAIN users => users'[e].isActive = users[e].isActive,
         disturbed \subseteq disturbed'
  PROVE  StatusOK(e)'
<1>1. StatusOK(e)
  BY DEF IInv
<1>2. LoggedStatus(e)' = LoggedStatus(e)
  BY DEF LoggedStatus
<1>3. \A d \in Call \ {c} : /\ status'[d] = status[d] /\ job'[d] = job[d] /\ seen'[d] = seen[d]
                            /\ ChangesStatusOf(d, e)' <=> ChangesStatusOf(d, e)
  BY DEF OneSlot, ChangesStatusOf, InFlight
<1>4. \A d, f \in Call : e \notin disturbed' /\ ChangesStatusOf(d, e)' /\ ChangesStatusOf(f, e)' => d = f
  BY <1>1, <1>3 DEF StatusOK
<1>5. ASSUME NEW d \in Call, e \notin disturbed', ChangesStatusOf(d, e)'
      PROVE  /\ status'[d] \in {"loaded", "saved"} => seen'[d] = LoggedStatus(e)'
             /\ status'[d] = "saved" => users'[e].isActive = job'[d].ask.newIsActive
  <2>1. d # c /\ ChangesStatusOf(d, e)
    BY <1>3, <1>5
  <2>2. status[d] = "saved" => e \in DOMAIN users
    BY <2>1 DEF IInv, CallOK, AccountsOK, ChangesStatusOf
  <2> QED
    BY <1>1, <1>2, <1>3, <1>5, <2>1, <2>2 DEF StatusOK
<1>6. Saving(e) => Saving(e)'
  <2>1. ASSUME NEW d \in Call, At(d, "setStatus", "saved"), job[d].email = e
        PROVE  At(d, "setStatus", "saved")' /\ job'[d].email = e
    <3>1. d # c
      BY <2>1 DEF At, ChangesStatusOf, InFlight
    <3> QED
      BY <1>3, <2>1, <3>1 DEF At
  <2> QED
    BY <2>1 DEF Saving
<1>7. e \notin disturbed' /\ e \in DOMAIN users => users'[e].isActive = LoggedStatus(e)' \/ Saving(e)'
  BY <1>1, <1>2, <1>6 DEF StatusOK
<1>8. e \in Email \ DOMAIN users' => statusLog'[e] = None
  BY <1>1 DEF StatusOK
<1> QED
  BY <1>4, <1>5, <1>7, <1>8 DEF StatusOK

\* What is observed when a request arrives: whether its address is taken and its
\* password somebody's, and that another change of the member is under way.
LEMMA ArriveKeepsIInv == ASSUME IInv, NEW c \in Call, Arrive(c)  PROVE IInv'
<1>1. PICK r \in Request :
        /\ Known(r)
        /\ job' = [job EXCEPT ![c] =
             [op |-> r.op, email |-> r.email, ask |-> r,
              taken |-> r.email \in DOMAIN users \cup DOMAIN cmsAccounts,
              entitled |-> r.op = "login" /\ Entitled(r.email, r.password)]]
        /\ disturbed' = IF r.op = "setStatus" /\ \E d \in Call : ChangesStatusOf(d, r.email)
                        THEN disturbed \cup {r.email} ELSE disturbed
  BY DEF Arrive
<1> DEFINE isTaken == r.email \in DOMAIN users \cup DOMAIN cmsAccounts
           isEntitled == r.op = "login" /\ Entitled(r.email, r.password)
<1>2. /\ ~InFlight(c) /\ status' = [status EXCEPT ![c] = "received"]
      /\ UNCHANGED <<collections, keys, sent, up, seen, entered, told, reported, turnedAway>>
  BY DEF Arrive
<1>3. /\ job' = [job EXCEPT ![c] = [op |-> r.op, email |-> r.email, ask |-> r,
                                    taken |-> isTaken, entitled |-> isEntitled]]
      /\ isTaken \in BOOLEAN /\ isEntitled \in BOOLEAN
      /\ isEntitled => Entitled(r.email, r.password)
      /\ isTaken => r.email \in DOMAIN users \cup DOMAIN cmsAccounts
  BY <1>1
<1>4. /\ r.email \in Applicant
      /\ r.op \in {"register", "verify", "setPassword", "createCms", "login", "setStatus"}
  BY DEF Request
<1> HIDE DEF isTaken, isEntitled
<1>5. /\ OneSlot(c) /\ status'[c] = "received"
      /\ job'[c] = [op |-> r.op, email |-> r.email, ask |-> r,
                    taken |-> isTaken, entitled |-> isEntitled]
  BY <1>2, <1>3 DEF IInv, TypeOK, OneSlot
<1>6. /\ job'[c].op = r.op /\ job'[c].email = r.email /\ job'[c].ask = r
      /\ job'[c].taken = isTaken /\ job'[c].entitled = isEntitled /\ job'[c] \in Task
  BY <1>3, <1>4, <1>5 DEF Task
<1>7. CallOK(c)'
  <2>1. CodesOK(c)'
    BY <1>1, <1>2, <1>5, <1>6 DEF CodesOK, At, InFlight, Known, sent
  <2>2. TakenOK(c)'
    BY <1>2, <1>3, <1>5, <1>6 DEF TakenOK, At, Looks, InFlight, collections
  <2>3. AccountsOK(c)'
    BY <1>2, <1>3, <1>5, <1>6 DEF AccountsOK, At, InFlight, Entitled, sent
  <2> QED
    BY <2>1, <2>2, <2>3 DEF CallOK
<1>8. ASSUME NEW e \in Email PROVE StatusOK(e)'
  <2>1. /\ users' = users /\ statusLog' = statusLog /\ disturbed \subseteq disturbed'
        /\ ~ChangesStatusOf(c, e)
    BY <1>1, <1>2 DEF collections, ChangesStatusOf
  <2>2. CASE r.op # "setStatus" \/ r.email # e
    <3>1. ~ChangesStatusOf(c, e)'
      BY <1>6, <2>2 DEF ChangesStatusOf
    <3> QED
      BY <1>5, <2>1, <3>1, StatusKeptElsewhere
  <2>3. CASE r.op = "setStatus" /\ r.email = e
    <3>1. StatusOK(e)
      BY DEF IInv
    <3>2. e \in Email \ DOMAIN users' => statusLog'[e] = None
      BY <2>1, <3>1 DEF StatusOK
    <3>3. ASSUME e \notin disturbed'
          PROVE  /\ \A d \in Call : ChangesStatusOf(d, e)' => d = c
                 /\ e \notin disturbed /\ ~Saving(e)
      <4>1. \A d \in Call : ~ChangesStatusOf(d, e)
        BY <1>1, <2>3, <3>3
      <4>2. \A d \in Call \ {c} : ~ChangesStatusOf(d, e)'
        BY <1>5, <4>1 DEF OneSlot, ChangesStatusOf, InFlight
      <4>3. ~Saving(e)
        BY <4>1 DEF Saving, ChangesStatusOf, InFlight, At
      <4> QED
        BY <2>1, <3>3, <4>2, <4>3
    <3>4. e \notin disturbed' /\ e \in DOMAIN users => users'[e].isActive = LoggedStatus(e)'
      BY <2>1, <3>1, <3>3 DEF StatusOK, LoggedStatus
    <3> QED
      BY <1>5, <2>1, <3>2, <3>3, <3>4 DEF StatusOK
  <2> QED
    BY <2>2, <2>3
<1> QED
  BY <1>2, <1>5, <1>6, <1>7, <1>8, Arriving

\* What setMemberAccountStatus() knows when it has loaded the member is what the
\* log tells, for nobody else is changing him.
LEMMA NobodyElseSaves ==
  ASSUME IInv, NEW c \in Call, NEW e \in Email \ disturbed, ChangesStatusOf(c, e), status[c] # "saved"
  PROVE  ~Saving(e) /\ (e \in DOMAIN users => users[e].isActive = LoggedStatus(e))
<1>1. StatusOK(e)
  BY DEF IInv
<1>2. \A d \in Call : ChangesStatusOf(d, e) => d = c
  BY <1>1 DEF StatusOK
<1>3. ~Saving(e)
  BY <1>2 DEF Saving, ChangesStatusOf, InFlight, At
<1> QED
  BY <1>1, <1>3 DEF StatusOK

LEMMA LoadMemberKeepsIInv == ASSUME IInv, NEW c \in Call, LoadMember(c)  PROVE IInv'
<1>1. /\ status[c] = "received" /\ job[c].op = "setStatus"
      /\ UNCHANGED <<collections, keys, sent, up, observed>>
  BY DEF LoadMember, At
<1>2. OwnersCanLogIn'
  BY <1>1, OwnersUntouched DEF observed
<1>3. PICK e \in Email : e = job[c].email
  BY <1>1, TaskOfRequest DEF InFlight, Applicant
<1>4. CASE e \notin DOMAIN users
  <2>1. Reply(c)
    BY <1>3, <1>4 DEF LoadMember
  <2> QED
    BY <1>1, <1>2, <2>1, AnswerOnly DEF At, observed
<1>5. CASE e \in DOMAIN users
  <2>1. Goto(c, "loaded") /\ seen' = [seen EXCEPT ![c] = users[e].isActive]
    BY <1>3, <1>5 DEF LoadMember, Remember
  <2>2. /\ OneSlot(c) /\ status'[c] = "loaded" /\ seen'[c] = users[e].isActive /\ job'[c] = job[c]
    BY <2>1, WentOn DEF IInv
  <2>3. /\ UNCHANGED <<users, cmsAccounts, statusLog, signup, verified, codes, mailed, handedOut,
                       entered, told, turnedAway, reported, disturbed>>
    BY <1>1 DEF collections, keys, sent, observed
  <2>4. Grows
    BY <2>3 DEF Grows
  <2>5. TypeOK'
    <3>1. /\ signup \in [Email -> Otp \cup {None}] /\ verified \in [Email -> Otp \cup {None}]
          /\ codes \in [Otp -> Request \cup {None}]
      BY DEF IInv, TypeOK
    <3> QED
      BY <1>1, <2>2, <2>3, <3>1, TypesKept DEF IInv, InFlight
  <2>6. KeysOK' /\ MembersOK'
    BY <2>3, <2>4, KeysKept, MembersKept DEF IInv
  <2>7. PasswordsOK'
    BY <2>3 DEF IInv, PasswordsOK
  <2>8. LostPasswordsAreReported'
    BY <1>1, <2>2, <2>3, LostKept DEF IInv, At
  <2>9. CallOK(c)'
    <3>1. users[e].isActive \in BOOLEAN
      BY <1>5 DEF IInv, TypeOK, User
    <3> QED
      BY <1>1, <1>3, <1>5, <2>2, <2>3, <3>1 DEF CallOK, CodesOK, AccountsOK, TakenOK, InFlight, At, Looks
  <2>10. \A d \in Call : CallOK(d)'
    BY <2>2, <2>4, <2>9, CallsKept
  <2>11. ASSUME NEW f \in Email PROVE StatusOK(f)'
    <3>1. CASE f # e
      <4>1. ~ChangesStatusOf(c, f) /\ ~ChangesStatusOf(c, f)'
        BY <1>3, <2>2, <3>1 DEF ChangesStatusOf
      <4> QED
        BY <2>2, <2>3, <4>1, StatusKeptElsewhere
    <3>2. CASE f = e
      <4>1. StatusOK(e) /\ ChangesStatusOf(c, e)
        BY <1>1, <1>3 DEF IInv, ChangesStatusOf, InFlight
      <4>2. e \notin disturbed => users[e].isActive = LoggedStatus(e)
        BY <1>1, <1>5, <4>1, NobodyElseSaves
      <4>3. \A d \in Call : ChangesStatusOf(d, e)' => ChangesStatusOf(d, e)
        BY <1>1, <2>2 DEF OneSlot, ChangesStatusOf, InFlight
      <4>4. \A d \in Call : e \notin disturbed /\ ChangesStatusOf(d, e)' => d = c
        BY <4>1, <4>3 DEF StatusOK
      <4> QED
        BY <1>5, <2>2, <2>3, <3>2, <4>2, <4>4 DEF StatusOK, LoggedStatus
    <3> QED
      BY <3>1, <3>2
  <2> QED
    BY <1>2, <2>5, <2>6, <2>7, <2>8, <2>10, <2>11 DEF IInv
<1> QED
  BY <1>4, <1>5

\* save() leaves the member with the new status, whether it had to write or not.
LEMMA SaveMemberKeepsIInv == ASSUME IInv, NEW c \in Call, SaveMember(c)  PROVE IInv'
<1>1. /\ status[c] = "loaded" /\ job[c].op = "setStatus" /\ Goto(c, "saved")
      /\ UNCHANGED <<cmsAccounts, statusLog, signup, verified, codes, mailed, handedOut, seen,
                     entered, told, turnedAway, reported, disturbed>>
  BY DEF SaveMember, At, keys, sent, observed
<1>2. PICK e \in Email : e = job[c].email
  BY <1>1, TaskOfRequest DEF InFlight, Applicant
<1>3. PICK new \in BOOLEAN : new = job[c].ask.newIsActive
  <2>1. job[c].ask \in Request /\ job[c].ask.op = "setStatus"
    BY <1>1, TaskOfRequest DEF InFlight
  <2>2. job[c].ask.newIsActive \in BOOLEAN
    BY <2>1 DEF Request
  <2> QED
    BY <2>2
<1>4. \/ seen[c] = new /\ users' = users
      \/ seen[c] # new /\ users' = [users EXCEPT ![e].isActive = new]
  BY <1>2, <1>3 DEF SaveMember
<1>5. e \in DOMAIN users
  BY <1>1, <1>2 DEF IInv, CallOK, AccountsOK
<1>6. /\ users' \in [DOMAIN users -> User] /\ DOMAIN users' = DOMAIN users
      /\ \A f \in DOMAIN users : /\ users'[f].code = users[f].code
                                 /\ users'[f].password = users[f].password
                                 /\ f # e => users'[f].isActive = users[f].isActive
      /\ seen[c] # new => users'[e].isActive = new
      /\ seen[c] = new => users'[e].isActive = users[e].isActive
  <2>1. users \in [DOMAIN users -> User]
    BY DEF IInv, TypeOK
  <2>2. CASE seen[c] = new /\ users' = users
    BY <2>1, <2>2
  <2>3. CASE seen[c] # new /\ users' = [users EXCEPT ![e].isActive = new]
    <3>1. users[e] \in User
      BY <1>5, <2>1
    <3>2. /\ [users[e] EXCEPT !.isActive = new] \in User
          /\ [users[e] EXCEPT !.isActive = new].code = users[e].code
          /\ [users[e] EXCEPT !.isActive = new].password = users[e].password
          /\ [users[e] EXCEPT !.isActive = new].isActive = new
      BY <1>3, <3>1 DEF User
    <3>3. /\ users'[e] = [users[e] EXCEPT !.isActive = new]
          /\ DOMAIN users' = DOMAIN users /\ users' = [f \in DOMAIN users |-> users'[f]]
          /\ \A f \in DOMAIN users \ {e} : users'[f] = users[f]
      BY <1>5, <2>1, <2>3
    <3>4. \A f \in DOMAIN users : users'[f] \in User
      BY <2>1, <3>2, <3>3
    <3> QED
      BY <1>5, <2>1, <2>3, <3>2, <3>3, <3>4
  <2> QED
    BY <1>4, <2>2, <2>3
<1>7. OneSlot(c) /\ status'[c] = "saved" /\ seen'[c] = seen[c] /\ job'[c] = job[c]
  BY <1>1, WentOnAsIs DEF IInv
<1>8. TypeOK'
  <2>1. ASSUME NEW d \in Call, InFlight(d)'
        PROVE  \/ job'[d] \in Task /\ job'[d].op = job'[d].ask.op /\ job'[d].email = job'[d].ask.email
               \/ job'[d] = [op |-> "start", email |-> Root]
    <3>1. InFlight(d) /\ job'[d] = job[d]
      BY <1>1, <1>7, <2>1 DEF OneSlot, InFlight
    <3> QED
      BY <3>1 DEF IInv, TypeOK
  <2> QED
    BY <1>1, <1>6, <1>7, <2>1 DEF IInv, TypeOK, OneSlot
<1>9. Grows
  BY <1>1, <1>6 DEF Grows
<1>10. KeysOK' /\ MembersOK'
  BY <1>1, <1>6, <1>9, KeysKept, MembersKept DEF IInv
<1>11. PasswordsOK'
  BY <1>1, <1>6 DEF IInv, PasswordsOK
<1>12. OwnersCanLogIn'
  BY <1>1, <1>9, OwnersKept DEF IInv
<1>13. LostPasswordsAreReported'
  BY <1>1, <1>7, LostKept DEF IInv, At
<1>14. CallOK(c)'
  <2>1. seen[c] \in BOOLEAN
    BY <1>1 DEF IInv, CallOK, AccountsOK
  <2> QED
    BY <1>1, <1>2, <1>5, <1>6, <1>7, <2>1
       DEF CallOK, CodesOK, AccountsOK, TakenOK, InFlight, At, Looks
<1>15. \A d \in Call : CallOK(d)'
  BY <1>7, <1>9, <1>14, CallsKept
<1>16. ASSUME NEW f \in Email PROVE StatusOK(f)'
  <2>1. CASE f # e
    <3>1. ~ChangesStatusOf(c, f) /\ ~ChangesStatusOf(c, f)'
      BY <1>2, <1>7, <2>1 DEF ChangesStatusOf
    <3> QED
      BY <1>1, <1>6, <1>7, <2>1, <3>1, StatusKeptElsewhere
  <2>2. CASE f = e
    <3>1. StatusOK(e) /\ ChangesStatusOf(c, e)
      BY <1>1, <1>2 DEF IInv, ChangesStatusOf, InFlight
    <3>2. \A d \in Call : ChangesStatusOf(d, e)' => ChangesStatusOf(d, e)
      BY <1>1, <1>7 DEF OneSlot, ChangesStatusOf, InFlight
    <3>3. \A d \in Call : e \notin disturbed /\ ChangesStatusOf(d, e)' => d = c
      BY <3>1, <3>2 DEF StatusOK
    <3>4. e \notin disturbed => seen[c] = LoggedStatus(e) /\ users[e].isActive = LoggedStatus(e)
      BY <1>1, <1>5, <3>1, NobodyElseSaves DEF StatusOK
    <3>5. e \notin disturbed => users'[e].isActive = new
      BY <1>6, <3>4
    <3>6. Saving(e)'
      BY <1>1, <1>2, <1>7 DEF Saving, At
    <3>7. LoggedStatus(e)' = LoggedStatus(e)
      BY <1>1 DEF LoggedStatus
    <3> QED
      BY <1>1, <1>3, <1>5, <1>6, <1>7, <2>2, <3>3, <3>4, <3>5, <3>6, <3>7 DEF StatusOK
  <2> QED
    BY <2>1, <2>2
<1> QED
  BY <1>8, <1>10, <1>11, <1>12, <1>13, <1>15, <1>16 DEF IInv

\* The entry begins with the status that the log told of and ends with the member's.
LEMMA LogStatusKeepsIInv == ASSUME IInv, NEW c \in Call, LogStatus(c)  PROVE IInv'
<1>1. /\ status[c] = "saved" /\ job[c].op = "setStatus" /\ Reply(c)
      /\ UNCHANGED <<users, cmsAccounts, signup, verified, codes, mailed, handedOut,
                     entered, told, turnedAway, reported, disturbed>>
  BY DEF LogStatus, At, keys, sent, observed
<1>2. PICK e \in Email : e = job[c].email
  BY <1>1, TaskOfRequest DEF InFlight, Applicant
<1>3. PICK new \in BOOLEAN : new = job[c].ask.newIsActive
  <2>1. job[c].ask \in Request /\ job[c].ask.op = "setStatus"
    BY <1>1, TaskOfRequest DEF InFlight
  <2>2. job[c].ask.newIsActive \in BOOLEAN
    BY <2>1 DEF Request
  <2> QED
    BY <2>2
<1>4. seen[c] \in BOOLEAN /\ e \in DOMAIN users
  BY <1>1, <1>2 DEF IInv, CallOK, AccountsOK
<1> DEFINE entry == [previousIsActive |-> seen[c], newIsActive |-> new]
<1>5. /\ statusLog' \in [Email -> LogEntry \cup {None}] /\ statusLog'[e] = entry
      /\ statusLog'[e] # None /\ statusLog'[e].newIsActive = new
      /\ \A f \in Email \ {e} : statusLog'[f] = statusLog[f]
  <2>1. entry \in LogEntry
    BY <1>3, <1>4 DEF LogEntry
  <2>2. statusLog' = [statusLog EXCEPT ![e] = entry]
    BY <1>2, <1>3 DEF LogStatus
  <2> QED
    BY <2>1, <2>2, NoneIsNothing DEF IInv, TypeOK
<1> HIDE DEF entry
<1>6. OneSlot(c) /\ status'[c] = "idle" /\ ~InFlight(c)'
  BY <1>1, Replied DEF IInv
<1>7. TypeOK'
  <2>1. ASSUME NEW d \in Call, InFlight(d)'
        PROVE  \/ job'[d] \in Task /\ job'[d].op = job'[d].ask.op /\ job'[d].email = job'[d].ask.email
               \/ job'[d] = [op |-> "start", email |-> Root]
    <3>1. InFlight(d) /\ job'[d] = job[d]
      BY <1>6, <2>1 DEF OneSlot, InFlight
    <3> QED
      BY <3>1 DEF IInv, TypeOK
  <2> QED
    BY <1>1, <1>5, <1>6, <2>1 DEF IInv, TypeOK, OneSlot
<1>8. Grows
  BY <1>1 DEF Grows
<1>9. KeysOK' /\ MembersOK'
  BY <1>1, <1>8, KeysKept, MembersKept DEF IInv
<1>10. PasswordsOK'
  BY <1>1 DEF IInv, PasswordsOK
<1>11. OwnersCanLogIn'
  BY <1>1, <1>8, OwnersKept DEF IInv
<1>12. LostPasswordsAreReported'
  BY <1>1, <1>6, LostKept DEF IInv, At
<1>13. \A d \in Call : CallOK(d)'
  BY <1>6, <1>8, IdleIsOK, CallsKept
<1>14. ASSUME NEW f \in Email PROVE StatusOK(f)'
  <2>1. CASE f # e
    <3>1. ~ChangesStatusOf(c, f) /\ ~ChangesStatusOf(c, f)'
      BY <1>2, <1>6, <2>1 DEF ChangesStatusOf
    <3> QED
      BY <1>1, <1>5, <1>6, <2>1, <3>1, StatusKeptElsewhere
  <2>2. CASE f = e
    <3>1. StatusOK(e) /\ ChangesStatusOf(c, e)
      BY <1>1, <1>2 DEF IInv, ChangesStatusOf, InFlight
    <3>2. \A d \in Call : ChangesStatusOf(d, e)' => ChangesStatusOf(d, e) /\ d # c
      BY <1>6 DEF OneSlot, ChangesStatusOf, InFlight
    <3>3. e \notin disturbed => \A d \in Call : ~ChangesStatusOf(d, e)'
      BY <3>1, <3>2 DEF StatusOK
    <3>4. e \notin disturbed => users[e].isActive = new
      BY <1>1, <1>3, <3>1 DEF StatusOK
    <3>5. LoggedStatus(e)' = new
      BY <1>5 DEF LoggedStatus
    <3> QED
      BY <1>1, <1>4, <2>2, <3>3, <3>4, <3>5 DEF StatusOK
  <2> QED
    BY <2>1, <2>2
<1> QED
  BY <1>7, <1>9, <1>10, <1>11, <1>12, <1>13, <1>14 DEF IInv
-------------------------------------------------------------------------------
LEMMA NextKeepsIInv == IInv /\ [Next]_vars => IInv'
<1> SUFFICES ASSUME IInv, [Next]_vars PROVE IInv'
  OBVIOUS
<1>1. signup \in [Email -> Otp \cup {None}] /\ verified \in [Email -> Otp \cup {None}]
  BY DEF IInv, TypeOK
<1>2. CASE UNCHANGED vars
  <2>1. UNCHANGED <<collections, sent, up, calls, observed>> /\ UNCHANGED <<signup, verified>>
    BY <1>2 DEF vars, keys
  <2> QED
    BY <1>1, <2>1, ExpiringKeepsIInv
<1>3. ASSUME NEW e \in Email, ExpireSignup(e)  PROVE IInv'
  <2>1. /\ signup' = [signup EXCEPT ![e] = None] /\ UNCHANGED verified
        /\ UNCHANGED <<collections, sent, up, calls, observed>>
    BY <1>3 DEF ExpireSignup
  <2>2. signup' \in [Email -> Otp \cup {None}] /\ \A f \in Email : signup'[f] \in {signup[f], None}
    BY <1>1, <2>1
  <2> QED
    BY <1>1, <2>1, <2>2, ExpiringKeepsIInv
<1>4. ASSUME NEW e \in Email, ExpireVerified(e)  PROVE IInv'
  <2>1. /\ verified' = [verified EXCEPT ![e] = None] /\ UNCHANGED signup
        /\ UNCHANGED <<collections, sent, up, calls, observed>>
    BY <1>4 DEF ExpireVerified
  <2>2. /\ verified' \in [Email -> Otp \cup {None}]
        /\ \A f \in Email : verified'[f] \in {verified[f], None}
    BY <1>1, <2>1
  <2> QED
    BY <1>1, <2>1, <2>2, ExpiringKeepsIInv
<1>5. ASSUME NEW c \in Call, Arrive(c) \/ Start(c) \/ Fail(c) \/ LookUp(c) \/ LookUpOther(c)
      PROVE  IInv'
  BY <1>5, ArriveKeepsIInv, StartKeepsIInv, FailKeepsIInv, LookUpKeepsIInv, LookUpOtherKeepsIInv
<1>6. ASSUME NEW c \in Call, SignupStep(c)  PROVE IInv'
  BY <1>6, StoreSignupKeepsIInv, MailCodeKeepsIInv, ReadSignupKeepsIInv, StoreVerifiedKeepsIInv,
     DropSignupKeepsIInv, ReadVerifiedKeepsIInv, CheckCmsKeepsIInv, FindDuplicateKeepsIInv,
     InsertUserKeepsIInv, DropVerifiedKeepsIInv DEF SignupStep
<1>7. ASSUME NEW c \in Call, CmsStep(c)  PROVE IInv'
  BY <1>7, InsertCmsAccountKeepsIInv, MailTemporaryKeepsIInv, FindRootKeepsIInv, SeedRootKeepsIInv
     DEF CmsStep
<1>8. ASSUME NEW c \in Call, LoginStep(c)  PROVE IInv'
  BY <1>8, LoginMemberKeepsIInv, LoginCmsKeepsIInv DEF LoginStep
<1>9. ASSUME NEW c \in Call, StatusStep(c)  PROVE IInv'
  BY <1>9, LoadMemberKeepsIInv, SaveMemberKeepsIInv, LogStatusKeepsIInv DEF StatusStep
<1> QED
  BY <1>2, <1>3, <1>4, <1>5, <1>6, <1>7, <1>8, <1>9 DEF Next

\* Accounts.tla's invariant is inductive: it holds of every state of the service,
\* whatever the requests of a sign-up, the two Redis keys and the expiries do to
\* each other.
THEOREM AccountsInvariant == Spec => []IInv
BY InitIInv, NextKeepsIInv, PTL DEF Spec

\* A member is made of the data of one registration for his own address, whose
\* code was mailed and entered.
THEOREM MembersProvedTheirAddress == Spec => []MembersAreWhoTheySay
<1>1. IInv => MembersAreWhoTheySay
  BY DEF IInv, MembersOK, Proven, Registered, MembersAreWhoTheySay
<1> QED
  BY <1>1, AccountsInvariant, PTL

\* register(), setPassword() and createCmsUser() do not give away an address that
\* had an account of either kind when the request arrived.
THEOREM TakenAddressesAreRefused == Spec => []LateRequestsAreRefused
<1>1. IInv => LateRequestsAreRefused
  <2> SUFFICES ASSUME IInv, NEW c \in Call, status[c] \in {"stored", "inserted"},
                      job[c].op \in {"register", "setPassword", "createCms"}
               PROVE  ~job[c].taken
    BY DEF LateRequestsAreRefused
  <2> QED
    BY DEF IInv, CallOK, TakenOK, InFlight
<1> QED
  BY <1>1, AccountsInvariant, PTL

\* login() refuses the owner of a password only when a member and a CMS account
\* have come to share his address.
THEOREM LoginsSucceed == Spec => []OwnersCanLogIn
<1>1. IInv => OwnersCanLogIn
  BY DEF IInv
<1> QED
  BY <1>1, AccountsInvariant, PTL

\* createCmsUser() reports every account whose password it could not mail.
THEOREM UnmailedPasswordsAreErrors == Spec => []LostPasswordsAreReported
<1>1. IInv => LostPasswordsAreReported
  BY DEF IInv
<1> QED
  BY <1>1, AccountsInvariant, PTL

\* setMemberAccountStatus() keeps a log that tells each member's status and each
\* change of it, while no two changes of one member overlap and none breaks off.
THEOREM LogIsTheHistory == Spec => LogTellsTheStatus
<1>1. IInv => \A e \in DOMAIN users \ disturbed :
                 \/ users[e].isActive = LoggedStatus(e)
                 \/ \E c \in Call : At(c, "setStatus", "saved") /\ job[c].email = e
  BY DEF IInv, TypeOK, StatusOK, Saving
<1>2. IInv => [\A c \in Call : LogStatus(c) /\ job[c].email \notin disturbed
                                 => seen[c] = LoggedStatus(job[c].email)]_vars
  <2> SUFFICES ASSUME IInv, NEW c \in Call, LogStatus(c), job[c].email \notin disturbed
               PROVE  seen[c] = LoggedStatus(job[c].email)
    OBVIOUS
  <2>1. At(c, "setStatus", "saved")
    BY DEF LogStatus
  <2>2. job[c].email \in Email /\ ChangesStatusOf(c, job[c].email)
    BY <2>1, TaskOfRequest DEF At, InFlight, Applicant, ChangesStatusOf
  <2> QED
    BY <2>1, <2>2 DEF IInv, StatusOK, At
<1> QED
  BY <1>1, <1>2, AccountsInvariant, PTL DEF LogTellsTheStatus
===============================================================================
