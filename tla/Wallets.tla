-------------------------------- MODULE Wallets --------------------------------
(***************************************************************************)
(* Money in and out as wallets.service.ts moves it: deposits that Stripe   *)
(* reports by webhook, withdrawal requests and their review, and an        *)
(* admin's manual adjustments.                                             *)
(*                                                                         *)
(* Stripe delivers the webhook of a paid session until it is answered with *)
(* a 2xx, and may deliver it again after that, so deliveries use their     *)
(* slots over and over.  Every other call is made once.  Deposits, reviews *)
(* and adjustments are transactions (see MongoSessions); a withdrawal      *)
(* request reads, looks for a pending request and inserts its own in three *)
(* separate steps.                                                         *)
(***************************************************************************)
EXTENDS Collections, MongoSessions

CONSTANTS Member,
          Session,    \* Stripe checkout sessions
          Delivery,   \* the calls that are webhook deliveries
          Amount,     \* amounts a member or an admin may name
          None        \* no job, no plan

ASSUME DeliveriesAreCalls   == Delivery \subseteq Call
ASSUME AmountsArePositive   == Amount \subseteq Nat \ {0}

VARIABLES checkout,      \* checkout[s]: Stripe's record of the session
          balance,       \* wallets.balance, defined on the members with a wallet
          deposited,     \* the members whose wallets have lastDepositAt set
          transactions,  \* wallet_transactions by reference_id
          withdrawals,   \* withdrawals_requests by id, the call that made it
          auditTrail,    \* audit_trails by the adjustment they record
          status,        \* how far each call is
          job,           \* what it was asked to do
          plan,          \* what its open transaction will write
          mails          \* sent to members: by which call, about what, saying what

money == <<balance, deposited, transactions, withdrawals, auditTrail>>
calls == <<status, job, plan, mails>>
vars  == <<checkout, money, calls, sessionVars>>

Job == [op: {"deposit"}, session: Session]
         \cup [op: {"withdraw"}, member: Member, amount: Amount]
         \cup [op: {"review"}, request: Call, verdict: {"approved", "rejected"}]
         \cup [op: {"adjust"}, member: Member, direction: {"credit", "debit"}, amount: Amount]

\* The collections' schemas.
WalletTransaction == [member: Member, amount: Amount,
                      type: {"deposit", "withdrawal", "manual_credit", "manual_debit"}]
WithdrawalRequest == [member: Member, amount: Amount,
                      state: {"pending", "approved", "rejected"}]
AuditTrail == [member: Member, direction: {"credit", "debit"}, amount: Amount,
               before: Int, after: Int]

\* What an open transaction will do to a wallet.
Plan == [member: Member, delta: Int, after: Int]

ASSUME NoneIsNothing == None \notin Job \cup Plan

SessionRef(s)    == <<"session", s>>
WithdrawalRef(w) == <<"withdrawal_request", w>>
ManualRef(c)     == <<"manual_adjustment", c>>
Reference == {"session"} \X Session \cup {"withdrawal_request", "manual_adjustment"} \X Call

WalletDoc(m)  == <<"wallet", m>>
RequestDoc(w) == <<"request", w>>
RefDoc(ref)   == <<"reference", ref>>

BalanceOf(m) == IF m \in DOMAIN balance THEN balance[m] ELSE 0

Goto(c, st) == status' = [status EXCEPT ![c] = st]
-------------------------------------------------------------------------------
Init == /\ checkout = [s \in Session |-> [state |-> "none", member |-> None, amount |-> 0]]
        /\ balance = EmptyCollection /\ deposited = {}
        /\ transactions = EmptyCollection
        /\ withdrawals = EmptyCollection
        /\ auditTrail = EmptyCollection
        /\ status = [c \in Call |-> "idle"]
        /\ job = [c \in Call |-> None]
        /\ plan = [c \in Call |-> None]
        /\ mails = {}
        /\ SessionsInit

\* createDepositSession(): the metadata names the member and the amount, which
\* is positive.
AnyAmountOpens(a) == a \in Amount \cup {0}   \* faulty: no check of the amount
MayDeposit(a) == a \in Amount

OpenCheckout(s) ==
  /\ checkout[s].state = "none"
  /\ \E m \in Member, a \in Amount \cup {0} :
       /\ MayDeposit(a)
       /\ checkout' = [checkout EXCEPT ![s] = [state |-> "open", member |-> m, amount |-> a]]
  /\ UNCHANGED <<money, calls, sessionVars>>

\* The member pays on Stripe's page.
Pay(s) == /\ checkout[s].state = "open"
          /\ checkout' = [checkout EXCEPT ![s].state = "paid"]
          /\ UNCHANGED <<money, calls, sessionVars>>

\* The webhook ignores every event but checkout.session.completed.
AnyEvent(s)  == checkout[s].state # "none"   \* faulty: the type is not looked at
Completed(s) == checkout[s].state \in {"paid", "acknowledged"}

\* Stripe sends checkout.session.completed, perhaps not for the first time.
Deliver(c, s) == /\ c \in Delivery /\ status[c] = "idle"
                 /\ Completed(s)
                 /\ job' = [job EXCEPT ![c] = [op |-> "deposit", session |-> s]]
                 /\ Goto(c, "received")
                 /\ UNCHANGED <<checkout, money, plan, mails, sessionVars>>

\* Any other request reaches the service.
Submit(c) == /\ c \notin Delivery /\ status[c] = "idle"
             /\ \E j \in Job : j.op # "deposit" /\ job' = [job EXCEPT ![c] = j]
             /\ Goto(c, "received")
             /\ UNCHANGED <<checkout, money, plan, mails, sessionVars>>

-------------------------------------------------------------------------------
\* The documents each callback writes.
DepositWithoutWallet(m, s) == {RefDoc(SessionRef(s))}   \* faulty: no session
DepositFootprint(m, s) == {WalletDoc(m), RefDoc(SessionRef(s))}
ApproveWithoutRequest(m, w) == {WalletDoc(m), RefDoc(WithdrawalRef(w))}   \* faulty: no session
ApproveFootprint(m, w) == {RequestDoc(w), WalletDoc(m), RefDoc(WithdrawalRef(w))}
RejectWithoutRequest(w) == {}   \* faulty: status read, set without session
RejectFootprint(w)     == {RequestDoc(w)}
AdjustWithoutWallet(m, c)  == {RefDoc(ManualRef(c))}    \* faulty: balance read, set without session
AdjustFootprint(m, c)  == {WalletDoc(m), RefDoc(ManualRef(c))}

\* The callback of c goes through on this snapshot: it will change member m's
\* balance by d and write docs.
Open(c, m, d, docs) ==
  /\ Goto(c, "open")
  /\ plan' = [plan EXCEPT ![c] = [member |-> m, delta |-> d, after |-> BalanceOf(m) + d]]
  /\ OpenTxn(c, docs)
  /\ UNCHANGED <<checkout, money, job, mails>>

Refuse(c) == /\ Goto(c, "refused")
             /\ UNCHANGED <<checkout, money, job, plan, mails, sessionVars>>

\* The commit of c writes its wallet.  An upsert creates it; only a deposit sets
\* lastDepositAt.
WriteWallet(c, deposit) ==
  /\ balance' = With(balance, plan[c].member, plan[c].after)
  /\ deposited' = IF deposit THEN deposited \cup {plan[c].member} ELSE deposited

\* ... and records the movement under ref.
Record(c, ref, type, amount) ==
  transactions' = With(transactions, ref,
                    [member |-> plan[c].member, type |-> type, amount |-> amount])

\* The callback has run and its transaction commits.
Commit(c) == /\ status[c] = "open"
             /\ CommitTxn(c)
             /\ Goto(c, "committed")
             /\ plan' = [plan EXCEPT ![c] = None]
             /\ UNCHANGED <<checkout, job, mails>>
-------------------------------------------------------------------------------
(***************************************************************************)
(* handleWebhook()                                                         *)
(***************************************************************************)
Credited(s) == SessionRef(s) \in DOMAIN transactions

\* Answering 2xx frees the slot and ends Stripe's retries.
Acknowledge(c, s) ==
  /\ checkout' = [checkout EXCEPT ![s].state = "acknowledged"]
  /\ Goto(c, "idle")
  /\ job' = [job EXCEPT ![c] = None]

BeginDeposit(c) ==
  LET s == job[c].session
      m == checkout[s].member
  IN /\ status[c] = "received" /\ job[c].op = "deposit"
     /\ ~Credited(s)
     /\ Open(c, m, checkout[s].amount, DepositFootprint(m, s))

\* Mails are sent after the commit; that one cannot be sent is only logged.
Mail(c, about, says) ==
  mails' \in {mails, mails \cup {[by |-> c, about |-> about, says |-> says]}}

\* Faulty: a repeated delivery is an error like another.
AlreadyCreditedThrows(c) ==
  /\ status[c] = "received" /\ job[c].op = "deposit"
  /\ Credited(job[c].session)
  /\ Goto(c, "idle") /\ job' = [job EXCEPT ![c] = None]
  /\ UNCHANGED <<checkout, money, plan, mails, sessionVars>>

\* The insert of the transaction record hits the unique reference_id.
AlreadyCredited(c) ==
  LET s == job[c].session
  IN /\ status[c] = "received" /\ job[c].op = "deposit"
     /\ Credited(s)
     /\ Acknowledge(c, s)
     /\ UNCHANGED <<money, plan, mails, sessionVars>>

CommitDeposit(c) ==
  /\ Commit(c) /\ job[c].op = "deposit"
  /\ WriteWallet(c, TRUE)
  /\ Record(c, SessionRef(job[c].session), "deposit", plan[c].delta)
  /\ UNCHANGED <<withdrawals, auditTrail>>

AnswerDeposit(c) ==
  LET s == job[c].session
  IN /\ status[c] = "committed" /\ job[c].op = "deposit"
     /\ Mail(c, SessionRef(s), "paid")
     /\ Acknowledge(c, s)
     /\ UNCHANGED <<money, plan, sessionVars>>
-------------------------------------------------------------------------------
(***************************************************************************)
(* requestWithdrawal(): three accesses to the database, no transaction.    *)
(* The delay after a deposit is 0 in this build.                           *)
(***************************************************************************)
WithdrawStep(c, st) == status[c] = st /\ job[c].op = "withdraw"

CanWithdraw(m, a) ==
  m \in DOMAIN balance \cap deposited /\ balance[m] >= a

ReadWallet(c) ==
  /\ WithdrawStep(c, "received")
  /\ Goto(c, IF CanWithdraw(job[c].member, job[c].amount) THEN "checked" ELSE "refused")
  /\ UNCHANGED <<checkout, money, job, plan, mails, sessionVars>>

Pending(m) == {w \in DOMAIN withdrawals :
                 withdrawals[w].member = m /\ withdrawals[w].state = "pending"}

CheckPending(c) ==
  /\ WithdrawStep(c, "checked")
  /\ Goto(c, IF Pending(job[c].member) = {} THEN "clear" ELSE "refused")
  /\ UNCHANGED <<checkout, money, job, plan, mails, sessionVars>>

\* The partial unique index on pending requests decides.
CreateUnindexed(c) ==    \* faulty: nothing but the check of a moment ago
  /\ WithdrawStep(c, "clear")
  /\ Goto(c, "done")
  /\ withdrawals' = With(withdrawals, c, [member |-> job[c].member,
                           amount |-> job[c].amount, state |-> "pending"])
  /\ UNCHANGED <<checkout, balance, deposited, transactions, auditTrail, job, plan, mails, sessionVars>>

CreateRequest(c) ==
  /\ WithdrawStep(c, "clear")
  /\ \/ /\ Pending(job[c].member) = {}
        /\ Goto(c, "done")
        /\ withdrawals' = With(withdrawals, c, [member |-> job[c].member,
                                 amount |-> job[c].amount, state |-> "pending"])
     \/ /\ Pending(job[c].member) # {}
        /\ Goto(c, "refused")
        /\ UNCHANGED withdrawals
  /\ UNCHANGED <<checkout, balance, deposited, transactions, auditTrail, job, plan, mails, sessionVars>>
-------------------------------------------------------------------------------
(***************************************************************************)
(* updateWithdrawalRequestStatus()                                         *)
(***************************************************************************)
ReviewOf(c, st, verdict) ==
  status[c] = st /\ job[c].op = "review" /\ job[c].verdict = verdict

IsPending(w) == w \in DOMAIN withdrawals /\ withdrawals[w].state = "pending"

\* Balance >= amount is part of the filter of the update.
CanPay(m, a) == m \in DOMAIN balance /\ balance[m] >= a

BeginApprove(c) ==
  LET w == job[c].request
  IN /\ ReviewOf(c, "received", "approved")
     /\ IF IsPending(w) /\ CanPay(withdrawals[w].member, withdrawals[w].amount)
        THEN Open(c, withdrawals[w].member, -withdrawals[w].amount,
                  ApproveFootprint(withdrawals[w].member, w))
        ELSE Refuse(c)

BeginReject(c) ==
  LET w == job[c].request
  IN /\ ReviewOf(c, "received", "rejected")
     /\ IF IsPending(w) THEN Open(c, withdrawals[w].member, 0, RejectFootprint(w))
                        ELSE Refuse(c)

Decide(w, verdict) == withdrawals' = [withdrawals EXCEPT ![w].state = verdict]

CommitApprove(c) ==
  /\ Commit(c) /\ ReviewOf(c, "open", "approved")
  /\ WriteWallet(c, FALSE)
  /\ Record(c, WithdrawalRef(job[c].request), "withdrawal", -plan[c].delta)
  /\ Decide(job[c].request, "approved")
  /\ UNCHANGED auditTrail

CommitReject(c) ==
  /\ Commit(c) /\ ReviewOf(c, "open", "rejected")
  /\ Decide(job[c].request, "rejected")
  /\ UNCHANGED <<balance, deposited, transactions, auditTrail>>

AnswerReview(c) ==
  /\ status[c] = "committed" /\ job[c].op = "review"
  /\ Mail(c, WithdrawalRef(job[c].request), job[c].verdict)
  /\ Goto(c, "done")
  /\ UNCHANGED <<checkout, money, job, plan, sessionVars>>
-------------------------------------------------------------------------------
(***************************************************************************)
(* adjustMemberWalletBalance(): a credit makes the wallet if there is none,*)
(* a debit needs the balance.  Nobody is sent a mail.                      *)
(***************************************************************************)
BeginAdjust(c) ==
  LET j == job[c]
  IN /\ status[c] = "received" /\ j.op = "adjust"
     /\ IF j.direction = "credit" THEN Open(c, j.member, j.amount, AdjustFootprint(j.member, c))
        ELSE IF CanPay(j.member, j.amount)
             THEN Open(c, j.member, -j.amount, AdjustFootprint(j.member, c))
             ELSE Refuse(c)

CommitAdjust(c) ==
  LET j == job[c]
  IN /\ Commit(c) /\ j.op = "adjust"
     /\ WriteWallet(c, FALSE)
     /\ Record(c, ManualRef(c), IF j.direction = "credit" THEN "manual_credit"
                                                          ELSE "manual_debit", j.amount)
     /\ auditTrail' = With(auditTrail, c,
          [member |-> j.member, direction |-> j.direction, amount |-> j.amount,
           before |-> plan[c].after - plan[c].delta, after |-> plan[c].after])
     /\ UNCHANGED withdrawals

AnswerAdjust(c) == /\ status[c] = "committed" /\ job[c].op = "adjust"
                   /\ Goto(c, "done")
                   /\ UNCHANGED <<checkout, money, job, plan, mails, sessionVars>>
-------------------------------------------------------------------------------
\* A write conflict: withTransaction() runs the callback again.
Conflict(c) == /\ status[c] = "open" /\ c \in stale
               /\ AbortTxn(c)
               /\ Goto(c, "received")
               /\ plan' = [plan EXCEPT ![c] = None]
               /\ UNCHANGED <<checkout, money, job, mails>>

InFlight(c) == status[c] \in {"received", "checked", "clear", "open", "committed"}

\* Faulty: errors are caught and answered with 200.
FailAnswered200(c) ==
  /\ InFlight(c)
  /\ AbortTxn(c)
  /\ IF c \in Delivery THEN Acknowledge(c, job[c].session)
                       ELSE Goto(c, "failed") /\ UNCHANGED <<checkout, job>>
  /\ plan' = [plan EXCEPT ![c] = None]
  /\ UNCHANGED <<money, mails>>

\* The database, the network or the process gives up on c: an open transaction
\* goes with it, a committed one stays, and the caller sees an error.  To Stripe
\* that is no 2xx, so the session will be delivered again.
Fail(c) == /\ InFlight(c)
           /\ AbortTxn(c)
           /\ IF c \in Delivery THEN Goto(c, "idle") /\ job' = [job EXCEPT ![c] = None]
                                ELSE Goto(c, "failed") /\ UNCHANGED job
           /\ plan' = [plan EXCEPT ![c] = None]
           /\ UNCHANGED <<checkout, money, mails>>
-------------------------------------------------------------------------------
DepositStep(c)  == BeginDeposit(c) \/ AlreadyCredited(c) \/ CommitDeposit(c) \/ AnswerDeposit(c)
WithdrawalStep(c) == ReadWallet(c) \/ CheckPending(c) \/ CreateRequest(c)
ReviewStep(c)   == \/ BeginApprove(c) \/ BeginReject(c) \/ CommitApprove(c) \/ CommitReject(c)
                   \/ AnswerReview(c)
AdjustStep(c)   == BeginAdjust(c) \/ CommitAdjust(c) \/ AnswerAdjust(c)
CallStep(c)     == DepositStep(c) \/ WithdrawalStep(c) \/ ReviewStep(c) \/ AdjustStep(c)
                   \/ Conflict(c)

Next == \/ \E s \in Session : OpenCheckout(s) \/ Pay(s) \/ \E c \in Delivery : Deliver(c, s)
        \/ \E c \in Call : Submit(c) \/ CallStep(c) \/ Fail(c)

Spec == Init /\ [][Next]_vars

\* Stripe goes on delivering a session it got no 2xx for, and the failures that
\* hit its deliveries do not hit every single one of them at the same place.
Delivering(c, s) == job[c] = [op |-> "deposit", session |-> s]

FairSpec ==
  /\ Spec
  /\ \A c \in Call : WF_vars(CallStep(c))
  /\ \A s \in Session :
       /\ SF_vars(checkout[s].state = "paid" /\ \E c \in Delivery : Deliver(c, s))
       /\ SF_vars(\E c \in Delivery : Delivering(c, s) /\ BeginDeposit(c))
       /\ SF_vars(\E c \in Delivery : Delivering(c, s) /\ CommitDeposit(c))
       /\ SF_vars(\E c \in Delivery : Delivering(c, s) /\ AlreadyCredited(c))
-------------------------------------------------------------------------------
Signed(t) == IF t.type \in {"deposit", "manual_credit"} THEN t.amount ELSE -t.amount

\* Every document keeps to its schema, and a call has a job from its arrival on
\* and a plan exactly while its transaction is open.
TypeOK ==
  /\ checkout \in [Session -> [state: {"none", "open", "paid", "acknowledged"},
                              member: Member \cup {None}, amount: Amount \cup {0}]]
  /\ \A s \in Session : checkout[s].state # "none" =>
       checkout[s].member \in Member /\ checkout[s].amount \in Amount
  /\ deposited \subseteq DOMAIN balance /\ DOMAIN balance \subseteq Member
  /\ balance \in [DOMAIN balance -> Int]
  /\ DOMAIN transactions \subseteq Reference
  /\ transactions \in [DOMAIN transactions -> WalletTransaction]
  /\ DOMAIN withdrawals \subseteq Call
  /\ withdrawals \in [DOMAIN withdrawals -> WithdrawalRequest]
  /\ DOMAIN auditTrail \subseteq Call
  /\ auditTrail \in [DOMAIN auditTrail -> AuditTrail]
  /\ status \in [Call -> {"idle", "received", "checked", "clear", "open", "committed",
                          "done", "refused", "failed"}]
  /\ job \in [Call -> Job \cup {None}]
  /\ plan \in [Call -> Plan \cup {None}]
  /\ \A c \in Call : /\ job[c] = None <=> status[c] = "idle"
                     /\ plan[c] = None <=> status[c] # "open"
  /\ mails \subseteq [by : Call, about : Reference, says : {"paid", "approved", "rejected"}]

\* A session Stripe has got a 2xx for is credited: it will not be delivered again.
AcknowledgedMeansCredited ==
  \A s \in Session : checkout[s].state = "acknowledged" => Credited(s)

\* Nothing is credited before it is paid, and then the amount that was paid, to the
\* member who paid it, whichever delivery comes first.
OnlyPaidIsCredited ==
  \A s \in Session : Credited(s) =>
    /\ checkout[s].state \in {"paid", "acknowledged"}
    /\ transactions[SessionRef(s)] = [member |-> checkout[s].member, type |-> "deposit",
                                      amount |-> checkout[s].amount]

\* A member never has two requests waiting, however many he sends at once.
AtMostOnePending ==
  \A v, w \in DOMAIN withdrawals :
    /\ withdrawals[v].state = "pending" /\ withdrawals[w].state = "pending"
    /\ withdrawals[v].member = withdrawals[w].member
    => v = w

\* Money has left the wallet for a request if and only if it ends up approved,
\* although several admins may approve and reject it at the same time.
PaidIffApproved ==
  \A w \in DOMAIN withdrawals :
    IF withdrawals[w].state = "approved"
    THEN WithdrawalRef(w) \in DOMAIN transactions
         /\ transactions[WithdrawalRef(w)] = [member |-> withdrawals[w].member,
              type |-> "withdrawal", amount |-> withdrawals[w].amount]
    ELSE WithdrawalRef(w) \notin DOMAIN transactions

\* A member is told the outcome of a deposit or a request once, and it is the
\* outcome: repeated deliveries and competing reviews send no second mail.
ToldTheOutcomeOnce ==
  /\ \A x, y \in mails : x.about = y.about => x = y
  /\ \A x \in mails :
       /\ x.about[1] = "session" => x.says = "paid" /\ Credited(x.about[2])
       /\ x.about[1] = "withdrawal_request" => withdrawals[x.about[2]].state = x.says

\* A manual adjustment changes the wallet, the ledger and the audit trail in one
\* step, and the trail records the balances between which it really moved.
AdjustmentsAudited ==
  [][\A c \in Call :
       (ManualRef(c) \in DOMAIN transactions' \ DOMAIN transactions)
         <=> (c \in DOMAIN auditTrail' \ DOMAIN auditTrail
              /\ auditTrail'[c].before = BalanceOf(auditTrail'[c].member)
              /\ auditTrail'[c].after = balance'[auditTrail'[c].member]
              /\ auditTrail'[c].after - auditTrail'[c].before
                   = Signed(transactions'[ManualRef(c)]))]_vars

\* The entries of the members' accounts that are in wallet_transactions.
LedgerEntries == [ref \in DOMAIN transactions |->
                    [member |-> transactions[ref].member, delta |-> Signed(transactions[ref])]]

\* What a member has paid is credited in the end, and Stripe gets its 2xx.
PaidIsCredited ==
  \A s \in Session : checkout[s].state = "paid" ~> checkout[s].state = "acknowledged"
-------------------------------------------------------------------------------
(***************************************************************************)
(* Why it works: the inductive invariant.                                  *)
(***************************************************************************)
\* A delivery is of a session that is paid, and each step of a call is one of
\* the kind of call it is.
JobsOK ==
  \A c \in Call : status[c] # "idle" =>
    /\ c \in Delivery <=> job[c].op = "deposit"
    /\ job[c].op = "deposit" => Completed(job[c].session)
    /\ status[c] \in {"checked", "clear"} => job[c].op = "withdraw"
    /\ status[c] \in {"open", "committed"} => job[c].op # "withdraw"

\* An open transaction writes the documents of its job, and it will move the
\* amount its job is about.
PlanOK(c) ==
  LET j == job[c]
      p == plan[c]
  IN /\ j.op = "deposit" =>
          /\ writeSet[c] = DepositFootprint(p.member, j.session)
          /\ p.member = checkout[j.session].member
          /\ p.delta = checkout[j.session].amount
     /\ j.op = "review" =>
          /\ j.request \in DOMAIN withdrawals
          /\ p.member = withdrawals[j.request].member
          /\ j.verdict = "approved" =>
               /\ writeSet[c] = ApproveFootprint(p.member, j.request)
               /\ p.delta = -withdrawals[j.request].amount
          /\ j.verdict = "rejected" => writeSet[c] = RejectFootprint(j.request)
     /\ j.op = "adjust" =>
          /\ writeSet[c] = AdjustFootprint(p.member, c)
          /\ p.member = j.member
          /\ p.delta = IF j.direction = "credit" THEN j.amount ELSE -j.amount

PlansOK == \A c \in Call : status[c] = "open" => PlanOK(c)

MovesMoney(c) == ~(job[c].op = "review" /\ job[c].verdict = "rejected")

\* What c's open transaction found when it opened is still so.
Fresh(c) ==
  /\ job[c].op = "deposit" => ~Credited(job[c].session)
  /\ job[c].op = "review" => IsPending(job[c].request)
  /\ MovesMoney(c) => /\ plan[c].after = BalanceOf(plan[c].member) + plan[c].delta
                      /\ plan[c].after >= 0

\* A transaction that can still commit has not been overtaken.
SnapshotFresh == \A c \in Call : status[c] = "open" /\ c \notin stale => Fresh(c)

\* Every record was left by the call it is named after, and goes with the others
\* of its call.
RecordsOK ==
  /\ \A w \in DOMAIN withdrawals : status[w] = "done"
  /\ \A w \in Call : WithdrawalRef(w) \in DOMAIN transactions => w \in DOMAIN withdrawals
  /\ \A c \in Call : ManualRef(c) \in DOMAIN transactions <=> c \in DOMAIN auditTrail
  /\ \A c \in DOMAIN auditTrail : /\ status[c] \in {"committed", "done", "failed"}
                                  /\ job[c].op = "adjust"

\* c has yet to mail the member what its commit came to.
ToAnnounce(c) == status[c] = "committed" /\ job[c].op \in {"deposit", "review"}
Announces(c)  == IF job[c].op = "deposit" THEN SessionRef(job[c].session)
                                          ELSE WithdrawalRef(job[c].request)

\* It is so, it has not been announced, and no other call will announce it.
AnnouncementsOK ==
  \A c \in Call : ToAnnounce(c) =>
    /\ job[c].op = "deposit" => Credited(job[c].session)
    /\ job[c].op = "review" => /\ job[c].request \in DOMAIN withdrawals
                               /\ withdrawals[job[c].request].state = job[c].verdict
    /\ \A x \in mails : x.about # Announces(c)
    /\ \A d \in Call : ToAnnounce(d) /\ Announces(d) = Announces(c) => d = c

\* A mail tells the outcome of a deposit or a request that is decided.
MailsOK ==
  /\ \A x, y \in mails : x.about = y.about => x = y
  /\ \A x \in mails :
       \/ \E s \in Session : x.about = SessionRef(s) /\ x.says = "paid" /\ Credited(s)
       \/ \E w \in DOMAIN withdrawals :
            /\ x.about = WithdrawalRef(w)
            /\ withdrawals[w].state = x.says /\ x.says # "pending"

\* No approval, debit or race of the two takes a wallet below zero.
NonNegative == \A m \in DOMAIN balance : balance[m] >= 0

IInv == /\ TypeOK
        /\ writeSet = [c \in Call |-> writeSet[c]]
        /\ JobsOK /\ PlansOK /\ SnapshotFresh
        /\ RecordsOK /\ AnnouncementsOK /\ MailsOK
        /\ NonNegative
        /\ OnlyPaidIsCredited /\ AcknowledgedMeansCredited
        /\ AtMostOnePending /\ PaidIffApproved
===============================================================================
