----------------------------- MODULE PlatformProofs -----------------------------
(***************************************************************************)
(* Wallets for any number of members, sessions, deliveries, requests and   *)
(* amounts: its inductive invariant, and the promises about deposits,      *)
(* withdrawal requests, adjustments and mails that follow from it.         *)
(*                                                                         *)
(* Then that Platform implements Account: Wallets and Trading keep one     *)
(* account of each member, for any number of calls, stocks and shares too. *)
(* Both services bring their invariants along; what is left is that each   *)
(* keeps its own through a step of the other, and what such a step posts.  *)
(***************************************************************************)
EXTENDS Platform, TLAPS

(***************************************************************************)
(* Wallets.                                                                *)
(***************************************************************************)
\* What each kind of call names.
LEMMA JobFields ==
  ASSUME NEW j \in Job
  PROVE  /\ j # None /\ j.op \in {"deposit", "withdraw", "review", "adjust"}
         /\ j.op = "deposit" => j.session \in Session
         /\ j.op = "withdraw" => j.member \in Member /\ j.amount \in Amount
         /\ j.op = "review" => j.request \in Call /\ j.verdict \in {"approved", "rejected"}
         /\ j.op = "adjust" => /\ j.member \in Member /\ j.amount \in Amount
                               /\ j.direction \in {"credit", "debit"}
BY NoneIsNothing DEF Job

\* What an open transaction works with.
LEMMA OpenCallOK ==
  ASSUME TypeOK, JobsOK, NEW c \in Call, status[c] = "open"
  PROVE  /\ job[c] \in Job /\ job[c].op \in {"deposit", "review", "adjust"}
         /\ plan[c] \in Plan /\ plan[c].member \in Member
         /\ plan[c].delta \in Int /\ plan[c].after \in Int
<1>1. job[c] \in Job /\ plan[c] \in Plan
  BY DEF TypeOK
<1>2. job[c].op # "withdraw"
  BY DEF JobsOK
<1> QED
  BY <1>1, <1>2, JobFields DEF Plan

\* What c's open transaction found is not disturbed by a step that leaves alone the
\* documents it writes.  docs: the documents the step writes.
LEMMA FreshIsLocal ==
  ASSUME TypeOK, JobsOK, PlansOK, NEW c \in Call, status[c] = "open", Fresh(c),
         NEW docs, writeSet[c] \cap docs = {},
         job'[c] = job[c], plan'[c] = plan[c],
         \A ref \in DOMAIN transactions' \ DOMAIN transactions : RefDoc(ref) \in docs,
         \A w \in Call : IsPending(w) => IsPending(w)' \/ RequestDoc(w) \in docs,
         \A m \in Member : BalanceOf(m)' = BalanceOf(m) \/ WalletDoc(m) \in docs
  PROVE  Fresh(c)'
<1>1. /\ job[c] \in Job /\ job[c].op \in {"deposit", "review", "adjust"}
      /\ plan[c].member \in Member
  BY OpenCallOK
<1>2. ASSUME job[c].op = "deposit"  PROVE ~Credited(job[c].session)'
  <2>1. RefDoc(SessionRef(job[c].session)) \notin docs
    BY <1>2 DEF PlansOK, PlanOK, DepositFootprint
  <2> QED
    BY <1>2, <2>1 DEF Fresh, Credited
<1>3. ASSUME job[c].op = "review"  PROVE IsPending(job[c].request)'
  <2>1. job[c].request \in Call /\ job[c].verdict \in {"approved", "rejected"}
    BY <1>1, <1>3, JobFields
  <2>2. RequestDoc(job[c].request) \notin docs
    BY <1>3, <2>1 DEF PlansOK, PlanOK, ApproveFootprint, RejectFootprint
  <2> QED
    BY <1>3, <2>1, <2>2 DEF Fresh
<1>4. ASSUME MovesMoney(c)  PROVE BalanceOf(plan[c].member)' = BalanceOf(plan[c].member)
  <2>1. job[c].op = "review" => job[c].verdict = "approved"
    BY <1>1, <1>4, JobFields DEF MovesMoney
  <2>2. WalletDoc(plan[c].member) \notin docs
    BY <1>1, <2>1 DEF PlansOK, PlanOK, DepositFootprint, ApproveFootprint, AdjustFootprint
  <2> QED
    BY <1>1, <2>2
<1>5. MovesMoney(c)' <=> MovesMoney(c)
  BY DEF MovesMoney
<1>6. ASSUME MovesMoney(c)
      PROVE  (plan[c].after = BalanceOf(plan[c].member) + plan[c].delta /\ plan[c].after >= 0)'
  BY <1>4, <1>6 DEF Fresh, BalanceOf
<1> QED
  BY <1>2, <1>3, <1>5, <1>6 DEF Fresh, Credited, IsPending
-------------------------------------------------------------------------------
LEMMA InitIInv == Init => IInv
<1> SUFFICES ASSUME Init PROVE IInv
  OBVIOUS
<1> USE DEF Init
<1>1. \A c \in Call : status[c] = "idle" /\ job[c] = None /\ plan[c] = None
  OBVIOUS
<1>2. /\ DOMAIN balance = {} /\ DOMAIN transactions = {} /\ DOMAIN withdrawals = {}
      /\ DOMAIN auditTrail = {}
  BY DEF EmptyCollection
<1>3. /\ \A s \in Session : checkout[s].state = "none"
      /\ checkout \in [Session -> [state: {"none", "open", "paid", "acknowledged"},
                                   member: Member \cup {None}, amount: Amount \cup {0}]]
  OBVIOUS
<1>4. writeSet = [c \in Call |-> writeSet[c]] /\ mails = {} /\ deposited = {}
  BY DEF SessionsInit
<1>5. TypeOK
  <2>1. /\ balance \in [DOMAIN balance -> Int]
        /\ transactions \in [DOMAIN transactions -> WalletTransaction]
        /\ withdrawals \in [DOMAIN withdrawals -> WithdrawalRequest]
        /\ auditTrail \in [DOMAIN auditTrail -> AuditTrail]
    BY DEF EmptyCollection
  <2>2. /\ status \in [Call -> {"idle", "received", "checked", "clear", "open",
                                "committed", "done", "refused", "failed"}]
        /\ job \in [Call -> Job \cup {None}] /\ plan \in [Call -> Plan \cup {None}]
    OBVIOUS
  <2> QED
    BY <1>1, <1>2, <1>3, <1>4, <2>1, <2>2 DEF TypeOK
<1> HIDE DEF Init
<1>6. JobsOK /\ PlansOK /\ SnapshotFresh /\ AnnouncementsOK
  BY <1>1 DEF JobsOK, PlansOK, SnapshotFresh, AnnouncementsOK, ToAnnounce
<1>7. RecordsOK /\ MailsOK /\ NonNegative
  BY <1>2, <1>4 DEF RecordsOK, MailsOK, NonNegative
<1>8. OnlyPaidIsCredited /\ AcknowledgedMeansCredited /\ AtMostOnePending /\ PaidIffApproved
  BY <1>2, <1>3 DEF OnlyPaidIsCredited, AcknowledgedMeansCredited, AtMostOnePending,
     PaidIffApproved, Credited
<1> QED
  BY <1>4, <1>5, <1>6, <1>7, <1>8 DEF IInv

\* A step of one call that moves no money, sends no mail and commits nothing.
LEMMA QuietStep ==
  ASSUME IInv, TypeOK', NEW c \in Call, UNCHANGED <<checkout, money, mails>>,
         writeSet' = [d \in Call |-> writeSet'[d]],
         status[c] # "done", status'[c] # "committed",
         status'[c] = "open" => PlanOK(c)' /\ Fresh(c)',
         status'[c] # "idle" =>
           /\ c \in Delivery <=> job'[c].op = "deposit"
           /\ job'[c].op = "deposit" => Completed(job'[c].session)
           /\ status'[c] \in {"checked", "clear"} => job'[c].op = "withdraw"
           /\ status'[c] = "open" => job'[c].op # "withdraw",
         c \in DOMAIN auditTrail =>
           status'[c] \in {"committed", "done", "failed"} /\ job'[c].op = "adjust",
         \A d \in Call \ {c} : /\ status'[d] = status[d] /\ job'[d] = job[d]
                               /\ plan'[d] = plan[d] /\ writeSet'[d] = writeSet[d]
                               /\ d \in stale => d \in stale'
  PROVE  IInv'
<1>1. JobsOK'
  BY DEF IInv, JobsOK, Completed
<1>2. PlansOK'
  BY DEF IInv, PlansOK, PlanOK, money
<1>3. SnapshotFresh'
  <2> SUFFICES ASSUME NEW d \in Call \ {c}, status'[d] = "open", d \notin stale'
               PROVE  Fresh(d)'
    BY DEF SnapshotFresh
  <2>1. /\ status[d] = "open" /\ Fresh(d)
        /\ job'[d] = job[d] /\ plan'[d] = plan[d]
    BY DEF IInv, SnapshotFresh
  <2>2. /\ writeSet[d] \cap {} = {}
        /\ \A ref \in DOMAIN transactions' \ DOMAIN transactions : RefDoc(ref) \in {}
        /\ \A w \in Call : IsPending(w) => IsPending(w)' \/ RequestDoc(w) \in {}
        /\ \A m \in Member : BalanceOf(m)' = BalanceOf(m) \/ WalletDoc(m) \in {}
    BY DEF money, BalanceOf, IsPending
  <2> QED
    BY <2>1, <2>2, FreshIsLocal DEF IInv
<1>4. RecordsOK'
  BY DEF IInv, RecordsOK, TypeOK, money
<1>5. AnnouncementsOK'
  <2>1. \A d \in Call : ToAnnounce(d)' => ToAnnounce(d) /\ Announces(d)' = Announces(d)
                                          /\ job'[d] = job[d]
    BY DEF ToAnnounce, Announces
  <2> QED
    BY <2>1 DEF IInv, AnnouncementsOK, Credited, money
<1>6. MailsOK' /\ NonNegative'
  BY DEF IInv, MailsOK, NonNegative, Credited, money
<1>7. /\ OnlyPaidIsCredited' /\ AcknowledgedMeansCredited'
      /\ AtMostOnePending' /\ PaidIffApproved'
  BY DEF IInv, OnlyPaidIsCredited, AcknowledgedMeansCredited, AtMostOnePending,
     PaidIffApproved, Credited, money
<1> QED
  BY <1>1, <1>2, <1>3, <1>4, <1>5, <1>6, <1>7 DEF IInv

\* The typing of a step that touches nothing but one call.
LEMMA CallTypes ==
  ASSUME TypeOK, UNCHANGED <<checkout, money, mails>>, NEW c \in Call,
         NEW st \in {"idle", "received", "checked", "clear", "open", "committed",
                     "done", "refused", "failed"},
         NEW j \in Job \cup {None}, NEW p \in Plan \cup {None},
         status' = [status EXCEPT ![c] = st],
         job' = [job EXCEPT ![c] = j], plan' = [plan EXCEPT ![c] = p],
         j = None <=> st = "idle", p = None <=> st # "open"
  PROVE  TypeOK' /\ status'[c] = st /\ job'[c] = j /\ plan'[c] = p
<1>1. status'[c] = st /\ job'[c] = j /\ plan'[c] = p
  BY DEF TypeOK
<1>2. \A d \in Call \ {c} : status'[d] = status[d] /\ job'[d] = job[d] /\ plan'[d] = plan[d]
  BY DEF TypeOK
<1>3. /\ status' \in [Call -> {"idle", "received", "checked", "clear", "open",
                               "committed", "done", "refused", "failed"}]
      /\ job' \in [Call -> Job \cup {None}] /\ plan' \in [Call -> Plan \cup {None}]
  BY DEF TypeOK
<1>4. \A d \in Call : /\ job'[d] = None <=> status'[d] = "idle"
                      /\ plan'[d] = None <=> status'[d] # "open"
  BY <1>1, <1>2 DEF TypeOK
<1> QED
  BY <1>1, <1>3, <1>4 DEF TypeOK, money

LEMMA DeliverKeepsIInv ==
  ASSUME IInv, NEW c \in Delivery, NEW s \in Session, Deliver(c, s)  PROVE IInv'
<1> DEFINE j == [op |-> "deposit", session |-> s]
<1>1. /\ c \in Call /\ status[c] = "idle" /\ Completed(s)
      /\ status' = [status EXCEPT ![c] = "received"] /\ job' = [job EXCEPT ![c] = j]
      /\ UNCHANGED <<checkout, money, plan, mails, sessionVars>>
  BY DeliveriesAreCalls DEF Deliver, Goto
<1>2. j \in Job /\ j # None /\ j.op = "deposit" /\ j.session = s
  BY NoneIsNothing DEF Job
<1> HIDE DEF j
<1>3. plan[c] = None /\ plan' = [plan EXCEPT ![c] = None]
  BY <1>1 DEF IInv, TypeOK
<1>4. TypeOK' /\ status'[c] = "received" /\ job'[c] = j
  BY <1>1, <1>2, <1>3, CallTypes DEF IInv
<1>5. \A d \in Call \ {c} : status'[d] = status[d] /\ job'[d] = job[d]
  BY <1>1 DEF IInv, TypeOK
<1>6. c \notin DOMAIN auditTrail
  BY <1>1 DEF IInv, RecordsOK
<1> QED
  BY <1>1, <1>2, <1>4, <1>5, <1>6, QuietStep DEF IInv, sessionVars, Completed

LEMMA SubmitKeepsIInv ==
  ASSUME IInv, NEW c \in Call, Submit(c)  PROVE IInv'
<1>1. PICK j \in Job : j.op # "deposit" /\ job' = [job EXCEPT ![c] = j]
  BY DEF Submit
<1>2. /\ c \notin Delivery /\ status[c] = "idle"
      /\ status' = [status EXCEPT ![c] = "received"]
      /\ UNCHANGED <<checkout, money, plan, mails, sessionVars>>
  BY DEF Submit, Goto
<1>3. plan[c] = None /\ plan' = [plan EXCEPT ![c] = None] /\ j # None
  BY <1>2, NoneIsNothing DEF IInv, TypeOK
<1>4. TypeOK' /\ status'[c] = "received" /\ job'[c] = j
  BY <1>1, <1>2, <1>3, CallTypes DEF IInv
<1>5. \A d \in Call \ {c} : status'[d] = status[d] /\ job'[d] = job[d]
  BY <1>1, <1>2 DEF IInv, TypeOK
<1>6. c \notin DOMAIN auditTrail
  BY <1>2 DEF IInv, RecordsOK
<1> QED
  BY <1>1, <1>2, <1>4, <1>5, <1>6, QuietStep DEF IInv, sessionVars

\* Refused, or gone a step further without touching anything: the call keeps its job.
LEMMA StepAheadKeepsIInv ==
  ASSUME IInv, NEW c \in Call,
         NEW st \in {"checked", "clear", "done", "refused"},
         status[c] \notin {"idle", "open", "done"},
         st \in {"checked", "clear"} => job[c].op = "withdraw",
         c \in DOMAIN auditTrail => st = "done",
         status' = [status EXCEPT ![c] = st],
         UNCHANGED <<checkout, money, job, plan, mails, sessionVars>>
  PROVE  IInv'
<1>1. TypeOK' /\ status'[c] = st
  <2>1. /\ status' \in [Call -> {"idle", "received", "checked", "clear", "open",
                                "committed", "done", "refused", "failed"}]
        /\ status'[c] = st
        /\ \A d \in Call : /\ status'[d] = "idle" <=> status[d] = "idle"
                           /\ status'[d] = "open" <=> status[d] = "open"
    BY DEF IInv, TypeOK
  <2> QED
    BY <2>1 DEF IInv, TypeOK, money
<1>2. \A d \in Call \ {c} : status'[d] = status[d]
  BY DEF IInv, TypeOK
<1>3. /\ c \in Delivery <=> job'[c].op = "deposit"
      /\ job'[c].op = "deposit" => Completed(job'[c].session)
  BY DEF IInv, JobsOK, Completed
<1>4. c \in DOMAIN auditTrail => job'[c].op = "adjust"
  BY DEF IInv, RecordsOK
<1> QED
  BY <1>1, <1>2, <1>3, <1>4, QuietStep DEF IInv, sessionVars, Completed

\* The transaction is gone without a trace, and the driver runs the callback again.
LEMMA ConflictKeepsIInv ==
  ASSUME IInv, NEW c \in Call, Conflict(c)  PROVE IInv'
<1>1. /\ status[c] = "open" /\ status' = [status EXCEPT ![c] = "received"]
      /\ plan' = [plan EXCEPT ![c] = None]
      /\ writeSet' = [writeSet EXCEPT ![c] = {}] /\ stale' = stale \ {c}
      /\ UNCHANGED <<checkout, money, job, mails>>
  BY DEF Conflict, Goto, AbortTxn
<1>2. job[c] \in Job /\ job[c] # None /\ job' = [job EXCEPT ![c] = job[c]]
  BY <1>1, NoneIsNothing DEF IInv, TypeOK
<1>3. TypeOK' /\ status'[c] = "received"
  BY <1>1, <1>2, CallTypes DEF IInv
<1>4. \A d \in Call \ {c} : /\ status'[d] = status[d] /\ plan'[d] = plan[d]
                            /\ writeSet'[d] = writeSet[d]
  BY <1>1 DEF IInv, TypeOK
<1>5. /\ c \in Delivery <=> job'[c].op = "deposit"
      /\ job'[c].op = "deposit" => Completed(job'[c].session)
  BY <1>1 DEF IInv, JobsOK, Completed
<1>6. c \notin DOMAIN auditTrail
  BY <1>1 DEF IInv, RecordsOK
<1>7. writeSet' = [d \in Call |-> writeSet'[d]]
  BY <1>1 DEF IInv
<1> QED
  BY <1>1, <1>3, <1>4, <1>5, <1>6, <1>7, QuietStep DEF Completed

\* The database, the network or the process gives up on c.
LEMMA FailKeepsIInv ==
  ASSUME IInv, NEW c \in Call, Fail(c)  PROVE IInv'
<1>1. /\ InFlight(c) /\ plan' = [plan EXCEPT ![c] = None]
      /\ writeSet' = [writeSet EXCEPT ![c] = {}] /\ stale' = stale \ {c}
      /\ UNCHANGED <<checkout, money, mails>>
  BY DEF Fail, AbortTxn
<1>2. /\ job[c] \in Job /\ job[c] # None /\ job = [job EXCEPT ![c] = job[c]]
      /\ status[c] \notin {"idle", "done"}
  BY <1>1, NoneIsNothing DEF IInv, TypeOK, InFlight
<1>3. /\ writeSet' = [d \in Call |-> writeSet'[d]]
      /\ \A d \in Call \ {c} : plan'[d] = plan[d] /\ writeSet'[d] = writeSet[d]
  BY <1>1 DEF IInv, TypeOK
<1>4. CASE c \in Delivery
  <2>1. status' = [status EXCEPT ![c] = "idle"] /\ job' = [job EXCEPT ![c] = None]
    BY <1>4 DEF Fail, Goto
  <2>2. TypeOK' /\ status'[c] = "idle"
    BY <1>1, <2>1, CallTypes DEF IInv
  <2>3. \A d \in Call \ {c} : status'[d] = status[d] /\ job'[d] = job[d]
    BY <2>1 DEF IInv, TypeOK
  <2>4. c \notin DOMAIN auditTrail
    BY <1>2, <1>4 DEF IInv, RecordsOK, JobsOK
  <2> QED
    BY <1>1, <1>2, <1>3, <2>2, <2>3, <2>4, QuietStep
<1>5. CASE c \notin Delivery
  <2>1. status' = [status EXCEPT ![c] = "failed"] /\ job' = job
    BY <1>5 DEF Fail, Goto
  <2>2. TypeOK' /\ status'[c] = "failed"
    BY <1>1, <1>2, <2>1, CallTypes DEF IInv
  <2>3. \A d \in Call \ {c} : status'[d] = status[d]
    BY <2>1 DEF IInv, TypeOK
  <2>4. job[c].op # "deposit" /\ (c \in DOMAIN auditTrail => job[c].op = "adjust")
    BY <1>2, <1>5 DEF IInv, JobsOK, RecordsOK
  <2> QED
    BY <1>1, <1>2, <1>3, <1>5, <2>1, <2>2, <2>3, <2>4, QuietStep
<1> QED
  BY <1>4, <1>5
-------------------------------------------------------------------------------
\* Stripe's side: a session opened or paid.
LEMMA CheckoutKeepsIInv ==
  ASSUME IInv, TypeOK', NEW s \in Session, UNCHANGED <<money, calls, sessionVars>>,
         checkout[s].state \in {"none", "open"}, checkout'[s].state \in {"open", "paid"},
         \A t \in Session \ {s} : checkout'[t] = checkout[t]
  PROVE  IInv'
<1>1. ~Completed(s) /\ ~Credited(s)
  BY DEF IInv, OnlyPaidIsCredited, Completed
<1>2. \A c \in Call : job[c].op = "deposit" /\ status[c] # "idle" =>
        job[c].session \in Session \ {s}
  BY <1>1, JobFields DEF IInv, TypeOK, JobsOK
<1>3. JobsOK'
  BY <1>2 DEF IInv, JobsOK, Completed, calls
<1>4. PlansOK'
  BY <1>2 DEF IInv, PlansOK, PlanOK, calls, money, sessionVars
<1>5. SnapshotFresh'
  BY DEF IInv, SnapshotFresh, Fresh, MovesMoney, Credited, IsPending, BalanceOf, calls, money,
     sessionVars
<1>6. RecordsOK' /\ AnnouncementsOK' /\ MailsOK' /\ NonNegative'
  BY DEF IInv, RecordsOK, AnnouncementsOK, ToAnnounce, Announces, MailsOK, NonNegative,
     Credited, calls, money
<1>7. OnlyPaidIsCredited' /\ AcknowledgedMeansCredited'
  BY <1>1 DEF IInv, OnlyPaidIsCredited, AcknowledgedMeansCredited, Credited, money
<1>8. AtMostOnePending' /\ PaidIffApproved'
  BY DEF IInv, AtMostOnePending, PaidIffApproved, money
<1>9. (writeSet = [c \in Call |-> writeSet[c]])'
  BY DEF IInv, sessionVars
<1> QED
  BY <1>3, <1>4, <1>5, <1>6, <1>7, <1>8, <1>9 DEF IInv

LEMMA OpenCheckoutKeepsIInv ==
  ASSUME IInv, NEW s \in Session, OpenCheckout(s)  PROVE IInv'
<1>1. PICK m \in Member, a \in Amount :
        checkout' = [checkout EXCEPT ![s] = [state |-> "open", member |-> m, amount |-> a]]
  BY DEF OpenCheckout, MayDeposit
<1>2. checkout[s].state = "none" /\ UNCHANGED <<money, calls, sessionVars>>
  BY DEF OpenCheckout
<1>3. TypeOK'
  <2>1. /\ checkout' \in [Session -> [state: {"none", "open", "paid", "acknowledged"},
                                      member: Member \cup {None}, amount: Amount \cup {0}]]
        /\ \A t \in Session : checkout'[t].state # "none" =>
             checkout'[t].member \in Member /\ checkout'[t].amount \in Amount
    BY <1>1 DEF IInv, TypeOK
  <2> QED
    BY <1>2, <2>1 DEF IInv, TypeOK, calls, money
<1> QED
  BY <1>1, <1>2, <1>3, CheckoutKeepsIInv DEF IInv, TypeOK

LEMMA PayKeepsIInv ==
  ASSUME IInv, NEW s \in Session, Pay(s)  PROVE IInv'
<1>1. /\ checkout[s].state = "open" /\ checkout' = [checkout EXCEPT ![s].state = "paid"]
      /\ UNCHANGED <<money, calls, sessionVars>>
  BY DEF Pay
<1>2. TypeOK'
  <2>1. /\ checkout' \in [Session -> [state: {"none", "open", "paid", "acknowledged"},
                                      member: Member \cup {None}, amount: Amount \cup {0}]]
        /\ \A t \in Session : checkout'[t].state # "none" =>
             checkout'[t].member \in Member /\ checkout'[t].amount \in Amount
    BY <1>1 DEF IInv, TypeOK
  <2> QED
    BY <1>1, <2>1 DEF IInv, TypeOK, calls, money
<1> QED
  BY <1>1, <1>2, CheckoutKeepsIInv DEF IInv, TypeOK
-------------------------------------------------------------------------------
\* The callback goes through on today's data: member m's balance will change by x,
\* and docs are the documents of the job.
LEMMA OpenKeepsIInv ==
  ASSUME IInv, NEW c \in Call, NEW m \in Member, NEW x \in Int, NEW docs,
         status[c] = "received", job[c].op # "withdraw", Open(c, m, x, docs),
         job[c].op = "deposit" =>
           /\ ~Credited(job[c].session) /\ docs = DepositFootprint(m, job[c].session)
           /\ m = checkout[job[c].session].member /\ x = checkout[job[c].session].amount,
         job[c].op = "review" =>
           /\ IsPending(job[c].request) /\ m = withdrawals[job[c].request].member
           /\ job[c].verdict = "approved" =>
                docs = ApproveFootprint(m, job[c].request)
                /\ x = -withdrawals[job[c].request].amount
           /\ job[c].verdict = "rejected" => docs = RejectFootprint(job[c].request),
         job[c].op = "adjust" =>
           /\ docs = AdjustFootprint(m, c) /\ m = job[c].member
           /\ x = IF job[c].direction = "credit" THEN job[c].amount ELSE -job[c].amount,
         MovesMoney(c) => BalanceOf(m) + x >= 0
  PROVE  IInv'
<1> DEFINE p == [member |-> m, delta |-> x, after |-> BalanceOf(m) + x]
<1>1. /\ status' = [status EXCEPT ![c] = "open"] /\ plan' = [plan EXCEPT ![c] = p]
      /\ writeSet' = [writeSet EXCEPT ![c] = docs] /\ stale' = stale \ {c}
      /\ UNCHANGED <<checkout, money, job, mails>>
  BY DEF Open, Goto, OpenTxn
<1>2. p \in Plan /\ p # None
  <2>1. BalanceOf(m) \in Int
    BY DEF IInv, TypeOK, BalanceOf
  <2> QED
    BY <2>1, NoneIsNothing DEF Plan
<1>3. p.member = m /\ p.delta = x /\ p.after = BalanceOf(m) + x
  OBVIOUS
<1> HIDE DEF p
<1>4. status'[c] = "open" /\ plan'[c] = p /\ job[c] # None
  BY <1>1 DEF IInv, TypeOK
<1>5. TypeOK'
  <2>1. /\ status' \in [Call -> {"idle", "received", "checked", "clear", "open",
                                "committed", "done", "refused", "failed"}]
        /\ plan' \in [Call -> Plan \cup {None}]
    BY <1>1, <1>2 DEF IInv, TypeOK
  <2>2. \A d \in Call : /\ status'[d] = "idle" <=> status[d] = "idle"
                        /\ plan'[d] = None <=> status'[d] # "open"
    BY <1>1, <1>2, <1>4 DEF IInv, TypeOK
  <2> QED
    BY <1>1, <2>1, <2>2 DEF IInv, TypeOK, money
<1>6. \A d \in Call \ {c} : /\ status'[d] = status[d] /\ plan'[d] = plan[d]
                            /\ writeSet'[d] = writeSet[d]
  BY <1>1 DEF IInv, TypeOK
<1>7. writeSet' = [d \in Call |-> writeSet'[d]] /\ writeSet'[c] = docs
  BY <1>1 DEF IInv
<1>8. PlanOK(c)'
  BY <1>1, <1>3, <1>4, <1>7 DEF PlanOK, IsPending, money
<1>9. Fresh(c)'
  BY <1>1, <1>3, <1>4 DEF Fresh, MovesMoney, Credited, IsPending, BalanceOf, money
<1>10. /\ c \in Delivery <=> job'[c].op = "deposit"
       /\ job'[c].op = "deposit" => Completed(job'[c].session)
       /\ job'[c].op # "withdraw"
  BY <1>1 DEF IInv, JobsOK, Completed
<1>11. c \notin DOMAIN auditTrail
  BY DEF IInv, RecordsOK
<1> QED
  BY <1>1, <1>4, <1>5, <1>6, <1>7, <1>8, <1>9, <1>10, <1>11, QuietStep DEF Completed

\* A refused call has not written anything.
LEMMA RefuseKeepsIInv ==
  ASSUME IInv, NEW c \in Call, status[c] = "received", Refuse(c)  PROVE IInv'
<1>1. c \notin DOMAIN auditTrail
  BY DEF IInv, RecordsOK
<1> QED
  BY <1>1, StepAheadKeepsIInv DEF Refuse, Goto

LEMMA BeginDepositKeepsIInv ==
  ASSUME IInv, NEW c \in Call, BeginDeposit(c)  PROVE IInv'
<1> DEFINE s == job[c].session
<1>1. /\ status[c] = "received" /\ job[c].op = "deposit" /\ ~Credited(s)
      /\ Open(c, checkout[s].member, checkout[s].amount,
              DepositFootprint(checkout[s].member, s))
  BY DEF BeginDeposit
<1>2. job[c] \in Job /\ s \in Session /\ Completed(s)
  BY <1>1, JobFields, NoneIsNothing DEF IInv, TypeOK, JobsOK
<1>3. /\ checkout[s].member \in Member
      /\ checkout[s].amount \in Nat /\ checkout[s].amount \in Int
  BY <1>2, AmountsArePositive DEF IInv, TypeOK, Completed
<1>4. BalanceOf(checkout[s].member) + checkout[s].amount >= 0
  BY <1>3 DEF IInv, TypeOK, NonNegative, BalanceOf
<1> QED
  BY <1>1, <1>3, <1>4, OpenKeepsIInv

\* The amount of a request is a positive number.
LEMMA RequestFields ==
  ASSUME TypeOK, NEW w \in DOMAIN withdrawals
  PROVE  /\ w \in Call /\ withdrawals[w].member \in Member
         /\ withdrawals[w].amount \in Amount /\ withdrawals[w].amount \in Nat
         /\ withdrawals[w].state \in {"pending", "approved", "rejected"}
BY AmountsArePositive DEF TypeOK, WithdrawalRequest

LEMMA BeginApproveKeepsIInv ==
  ASSUME IInv, NEW c \in Call, BeginApprove(c)  PROVE IInv'
<1> DEFINE w == job[c].request
           m == withdrawals[w].member
           a == withdrawals[w].amount
<1>1. status[c] = "received" /\ job[c].op = "review" /\ job[c].verdict = "approved"
  BY DEF BeginApprove, ReviewOf
<1>2. CASE IsPending(w) /\ CanPay(m, a)
  <2>1. Open(c, m, -a, ApproveFootprint(m, w))
    BY <1>2 DEF BeginApprove
  <2>2. m \in Member /\ a \in Nat /\ -a \in Int
    BY <1>2, RequestFields DEF IInv, IsPending
  <2>3. BalanceOf(m) + (-a) >= 0
    BY <1>2, <2>2 DEF CanPay, BalanceOf, IInv, TypeOK
  <2> QED
    BY <1>1, <1>2, <2>1, <2>2, <2>3, OpenKeepsIInv
<1>3. CASE ~(IsPending(w) /\ CanPay(m, a))
  BY <1>1, <1>3, RefuseKeepsIInv DEF BeginApprove
<1> QED
  BY <1>2, <1>3

LEMMA BeginRejectKeepsIInv ==
  ASSUME IInv, NEW c \in Call, BeginReject(c)  PROVE IInv'
<1> DEFINE w == job[c].request
           m == withdrawals[w].member
<1>1. status[c] = "received" /\ job[c].op = "review" /\ job[c].verdict = "rejected"
  BY DEF BeginReject, ReviewOf
<1>2. CASE IsPending(w)
  <2>1. Open(c, m, 0, RejectFootprint(w)) /\ m \in Member
    BY <1>2, RequestFields DEF BeginReject, IInv, IsPending
  <2> QED
    BY <1>1, <1>2, <2>1, OpenKeepsIInv DEF MovesMoney
<1>3. CASE ~IsPending(w)
  BY <1>1, <1>3, RefuseKeepsIInv DEF BeginReject
<1> QED
  BY <1>2, <1>3

LEMMA BeginAdjustKeepsIInv ==
  ASSUME IInv, NEW c \in Call, BeginAdjust(c)  PROVE IInv'
<1> DEFINE m == job[c].member
           a == job[c].amount
<1>1. status[c] = "received" /\ job[c].op = "adjust"
  BY DEF BeginAdjust
<1>2. /\ m \in Member /\ a \in Nat /\ -a \in Int
      /\ job[c].direction \in {"credit", "debit"}
  BY <1>1, JobFields, AmountsArePositive DEF IInv, TypeOK
<1>3. CASE job[c].direction = "credit"
  <2>1. Open(c, m, a, AdjustFootprint(m, c))
    BY <1>3 DEF BeginAdjust
  <2>2. BalanceOf(m) + a >= 0
    BY <1>2 DEF BalanceOf, IInv, TypeOK, NonNegative
  <2> QED
    BY <1>1, <1>2, <1>3, <2>1, <2>2, OpenKeepsIInv
<1>4. CASE job[c].direction # "credit" /\ CanPay(m, a)
  <2>1. Open(c, m, -a, AdjustFootprint(m, c))
    BY <1>4 DEF BeginAdjust
  <2>2. BalanceOf(m) + (-a) >= 0
    BY <1>2, <1>4 DEF CanPay, BalanceOf, IInv, TypeOK
  <2> QED
    BY <1>1, <1>2, <1>4, <2>1, <2>2, OpenKeepsIInv
<1>5. CASE job[c].direction # "credit" /\ ~CanPay(m, a)
  BY <1>1, <1>5, RefuseKeepsIInv DEF BeginAdjust
<1> QED
  BY <1>3, <1>4, <1>5
-------------------------------------------------------------------------------
\* A reference tells which record it is of.
LEMMA ReferencesDiffer ==
  /\ \A x, y : /\ SessionRef(x) = SessionRef(y) => x = y
               /\ WithdrawalRef(x) = WithdrawalRef(y) => x = y
               /\ ManualRef(x) = ManualRef(y) => x = y
               /\ SessionRef(x) # WithdrawalRef(y) /\ SessionRef(x) # ManualRef(y)
               /\ WithdrawalRef(x) # ManualRef(y)
  /\ \A s \in Session : SessionRef(s) \in Reference
  /\ \A w \in Call : WithdrawalRef(w) \in Reference /\ ManualRef(w) \in Reference
BY DEF SessionRef, WithdrawalRef, ManualRef, Reference

\* requestWithdrawal() inserts its request.
LEMMA CreateRequestKeepsIInv ==
  ASSUME IInv, NEW c \in Call, CreateRequest(c)  PROVE IInv'
<1> DEFINE m == job[c].member
           doc == [member |-> m, amount |-> job[c].amount, state |-> "pending"]
<1>1. /\ status[c] = "clear" /\ job[c].op = "withdraw"
      /\ UNCHANGED <<checkout, balance, deposited, transactions, auditTrail, job, plan, mails>>
      /\ UNCHANGED sessionVars
  BY DEF CreateRequest, WithdrawStep
<1>2. m \in Member /\ doc \in WithdrawalRequest /\ doc.member = m /\ doc.state = "pending"
  BY <1>1, JobFields DEF IInv, TypeOK, WithdrawalRequest
<1> HIDE DEF doc
<1>3. c \notin DOMAIN withdrawals /\ c \notin DOMAIN auditTrail
  BY <1>1 DEF IInv, RecordsOK
<1>4. CASE Pending(m) = {} /\ status' = [status EXCEPT ![c] = "done"]
           /\ withdrawals' = With(withdrawals, c, doc)
  <2>1. /\ DOMAIN withdrawals' = DOMAIN withdrawals \cup {c} /\ withdrawals'[c] = doc
        /\ \A w \in DOMAIN withdrawals : w # c /\ withdrawals'[w] = withdrawals[w]
    BY <1>3, <1>4 DEF With
  <2>2. /\ status'[c] = "done" /\ \A d \in Call \ {c} : status'[d] = status[d]
    BY <1>4 DEF IInv, TypeOK
  <2>3. TypeOK'
    <3>1. /\ DOMAIN withdrawals' \subseteq Call
          /\ withdrawals' \in [DOMAIN withdrawals' -> WithdrawalRequest]
      BY <1>2, <1>4, <2>1 DEF IInv, TypeOK, With
    <3>2. /\ status' \in [Call -> {"idle", "received", "checked", "clear", "open",
                                  "committed", "done", "refused", "failed"}]
          /\ \A d \in Call : /\ status'[d] = "idle" <=> status[d] = "idle"
                             /\ status'[d] = "open" <=> status[d] = "open"
      BY <1>1, <1>4 DEF IInv, TypeOK
    <3>3. \A d \in Call : /\ job'[d] = None <=> status'[d] = "idle"
                          /\ plan'[d] = None <=> status'[d] # "open"
      BY <1>1, <3>2 DEF IInv, TypeOK
    <3>4. TypeOK
      BY DEF IInv
    <3> QED
      BY <1>1, <3>1, <3>2, <3>3, <3>4 DEF TypeOK
  <2>4. JobsOK'
    BY <1>1, <2>2 DEF IInv, JobsOK, Completed
  <2>5. PlansOK'
    BY <1>1, <2>1, <2>2 DEF IInv, PlansOK, PlanOK, sessionVars
  <2>6. SnapshotFresh'
    <3> SUFFICES ASSUME NEW d \in Call, status'[d] = "open", d \notin stale'
                 PROVE  Fresh(d)'
      BY DEF SnapshotFresh
    <3>1. status[d] = "open" /\ Fresh(d) /\ job'[d] = job[d] /\ plan'[d] = plan[d]
      BY <1>1, <2>2 DEF IInv, SnapshotFresh, sessionVars
    <3>2. /\ writeSet[d] \cap {} = {}
          /\ \A ref \in DOMAIN transactions' \ DOMAIN transactions : RefDoc(ref) \in {}
          /\ \A w \in Call : IsPending(w) => IsPending(w)' \/ RequestDoc(w) \in {}
          /\ \A n \in Member : BalanceOf(n)' = BalanceOf(n) \/ WalletDoc(n) \in {}
      BY <1>1, <2>1 DEF BalanceOf, IsPending
    <3> QED
      BY <3>1, <3>2, FreshIsLocal DEF IInv
  <2>7. RecordsOK'
    BY <1>1, <1>3, <2>1, <2>2 DEF IInv, RecordsOK, TypeOK
  <2>8. AnnouncementsOK'
    <3>1. \A d \in Call : ToAnnounce(d)' => ToAnnounce(d) /\ Announces(d)' = Announces(d)
      BY <1>1, <2>2 DEF ToAnnounce, Announces
    <3> QED
      BY <1>1, <2>1, <3>1 DEF IInv, AnnouncementsOK, Credited
  <2>9. MailsOK' /\ NonNegative'
    BY <1>1, <2>1 DEF IInv, MailsOK, NonNegative, Credited
  <2>10. OnlyPaidIsCredited' /\ AcknowledgedMeansCredited'
    BY <1>1 DEF IInv, OnlyPaidIsCredited, AcknowledgedMeansCredited, Credited
  <2>11. AtMostOnePending'
    BY <1>2, <1>4, <2>1 DEF IInv, AtMostOnePending, Pending
  <2>12. PaidIffApproved'
    BY <1>1, <1>2, <1>3, <2>1 DEF IInv, PaidIffApproved, RecordsOK
  <2>13. (writeSet = [d \in Call |-> writeSet[d]])'
    BY <1>1 DEF IInv, sessionVars
  <2> QED
    BY <2>3, <2>4, <2>5, <2>6, <2>7, <2>8, <2>9, <2>10, <2>11, <2>12, <2>13 DEF IInv
<1>5. CASE UNCHANGED withdrawals /\ status' = [status EXCEPT ![c] = "refused"]
  BY <1>1, <1>3, <1>5, StepAheadKeepsIInv DEF money
<1> QED
  BY <1>4, <1>5 DEF CreateRequest, Goto, doc
-------------------------------------------------------------------------------
\* A commit writes the documents of its footprint and nothing else, and decides
\* only what is pending: what the others know, have said and have to say stays so.
LEMMA CommitStep ==
  ASSUME IInv, NEW c \in Call, status[c] = "open", CommitTxn(c),
         status' = [status EXCEPT ![c] = "committed"],
         plan' = [plan EXCEPT ![c] = None], UNCHANGED <<checkout, job, mails>>,
         \A ref \in DOMAIN transactions :
           ref \in DOMAIN transactions' /\ transactions'[ref] = transactions[ref],
         \A ref \in DOMAIN transactions' \ DOMAIN transactions : RefDoc(ref) \in writeSet[c],
         \A m \in Member : BalanceOf(m)' = BalanceOf(m) \/ WalletDoc(m) \in writeSet[c],
         DOMAIN withdrawals' = DOMAIN withdrawals,
         \A w \in DOMAIN withdrawals :
           /\ withdrawals'[w].member = withdrawals[w].member
           /\ withdrawals'[w].amount = withdrawals[w].amount
           /\ \/ withdrawals'[w].state = withdrawals[w].state
              \/ /\ withdrawals[w].state = "pending" /\ withdrawals'[w].state # "pending"
                 /\ RequestDoc(w) \in writeSet[c],
         job[c].op = "deposit" => Credited(job[c].session)',
         job[c].op = "review" => withdrawals'[job[c].request].state = job[c].verdict
  PROVE  /\ (writeSet = [d \in Call |-> writeSet[d]])'
         /\ JobsOK' /\ PlansOK' /\ SnapshotFresh' /\ AnnouncementsOK' /\ MailsOK'
         /\ AcknowledgedMeansCredited' /\ AtMostOnePending'
<1>1. /\ c \notin stale /\ writeSet' = [writeSet EXCEPT ![c] = {}]
      /\ stale' = stale \cup Outdated(c, writeSet[c])
  BY DEF CommitTxn
<1>2. /\ status'[c] = "committed" /\ writeSet' = [d \in Call |-> writeSet'[d]]
      /\ \A d \in Call \ {c} : /\ status'[d] = status[d] /\ plan'[d] = plan[d]
                               /\ writeSet'[d] = writeSet[d]
  BY <1>1 DEF IInv, TypeOK
<1>3. Fresh(c) /\ job[c] \in Job /\ job[c].op \in {"deposit", "review", "adjust"}
  BY <1>1, OpenCallOK DEF IInv, SnapshotFresh
<1>4. \A s \in Session : Credited(s) => Credited(s)'
  BY DEF Credited
<1>5. JobsOK'
  BY <1>2, <1>3 DEF IInv, JobsOK, Completed
<1>6. PlansOK'
  BY <1>2 DEF IInv, PlansOK, PlanOK
<1>7. SnapshotFresh'
  <2> SUFFICES ASSUME NEW d \in Call \ {c}, status[d] = "open", d \notin stale'
               PROVE  Fresh(d)'
    BY <1>2 DEF SnapshotFresh
  <2>1. Fresh(d) /\ writeSet[d] \cap writeSet[c] = {}
    BY <1>1 DEF IInv, SnapshotFresh, Outdated
  <2>2. \A w \in Call : IsPending(w) => IsPending(w)' \/ RequestDoc(w) \in writeSet[c]
    BY DEF IsPending
  <2> QED
    BY <1>2, <2>1, <2>2, FreshIsLocal DEF IInv
<1>8. MailsOK'
  BY <1>4 DEF IInv, MailsOK
<1>9. AnnouncementsOK'
  <2>1. \A d \in Call \ {c} : ToAnnounce(d)' <=> ToAnnounce(d)
    BY <1>2 DEF ToAnnounce
  <2>2. \A d \in Call : Announces(d)' = Announces(d)
    BY DEF Announces
  <2>3. ASSUME NEW d \in Call \ {c}, ToAnnounce(d)
        PROVE  /\ job[d].op = "deposit" => Credited(job[d].session)'
               /\ job[d].op = "review" => /\ job[d].request \in DOMAIN withdrawals'
                                          /\ withdrawals'[job[d].request].state = job[d].verdict
    <3>1. job[d] \in Job
      BY <2>3 DEF ToAnnounce, IInv, TypeOK
    <3> QED
      BY <2>3, <3>1, <1>4, JobFields DEF IInv, AnnouncementsOK
  <2>4. ASSUME ToAnnounce(c)', NEW d \in Call \ {c}, ToAnnounce(d)
        PROVE  Announces(d) # Announces(c)
    <3>1. job[d] \in Job
      BY <2>4 DEF ToAnnounce, IInv, TypeOK
    <3> QED
      BY <1>3, <2>4, <3>1, ReferencesDiffer, JobFields
         DEF ToAnnounce, Announces, IInv, AnnouncementsOK, Fresh, IsPending
  <2>5. ASSUME ToAnnounce(c)', NEW x \in mails  PROVE x.about # Announces(c)
    BY <1>3, <2>5, ReferencesDiffer, JobFields
       DEF ToAnnounce, Announces, IInv, MailsOK, Fresh, IsPending
  <2>6. ToAnnounce(c)' => (job[c].op = "review" => job[c].request \in DOMAIN withdrawals')
    BY <1>3 DEF Fresh, IsPending
  <2> SUFFICES ASSUME NEW d \in Call, ToAnnounce(d)'
               PROVE  /\ job[d].op = "deposit" => Credited(job[d].session)'
                      /\ job[d].op = "review" =>
                           /\ job[d].request \in DOMAIN withdrawals'
                           /\ withdrawals'[job[d].request].state = job[d].verdict
                      /\ \A x \in mails : x.about # Announces(d)
                      /\ \A e \in Call : ToAnnounce(e)' /\ Announces(e) = Announces(d) => e = d
    BY <2>2 DEF AnnouncementsOK
  <2>7. CASE d = c
    BY <2>1, <2>4, <2>5, <2>6, <2>7
  <2>8. CASE d # c
    <3>1. ToAnnounce(d)
      BY <2>1, <2>8
    <3>2. /\ \A x \in mails : x.about # Announces(d)
          /\ \A e \in Call : ToAnnounce(e) /\ Announces(e) = Announces(d) => e = d
      BY <3>1 DEF IInv, AnnouncementsOK
    <3> QED
      BY <2>1, <2>3, <2>4, <2>8, <3>1, <3>2
  <2> QED
    BY <2>7, <2>8
<1>10. AcknowledgedMeansCredited' /\ AtMostOnePending'
  BY <1>4 DEF IInv, AcknowledgedMeansCredited, AtMostOnePending
<1> QED
  BY <1>2, <1>5, <1>6, <1>7, <1>8, <1>9, <1>10

\* With() adds or replaces one document.
LEMMA WithOne ==
  ASSUME NEW f, NEW x, NEW y
  PROVE  /\ DOMAIN With(f, x, y) = DOMAIN f \cup {x} /\ With(f, x, y)[x] = y
         /\ \A z \in DOMAIN f : z # x => With(f, x, y)[z] = f[z]
BY DEF With

\* A commit that moves money: the wallet and the record of the movement.
LEMMA MoneyMoves ==
  ASSUME IInv, NEW c \in Call, status[c] = "open", CommitTxn(c), MovesMoney(c),
         NEW ref \in Reference, NEW rec \in WalletTransaction, NEW b \in BOOLEAN,
         ref \notin DOMAIN transactions,
         RefDoc(ref) \in writeSet[c], WalletDoc(plan[c].member) \in writeSet[c],
         WriteWallet(c, b), transactions' = With(transactions, ref, rec)
  PROVE  /\ deposited' \subseteq DOMAIN balance' /\ DOMAIN balance' \subseteq Member
         /\ balance' \in [DOMAIN balance' -> Int]
         /\ DOMAIN transactions' \subseteq Reference
         /\ transactions' \in [DOMAIN transactions' -> WalletTransaction]
         /\ NonNegative'
         /\ balance'[plan[c].member] = BalanceOf(plan[c].member) + plan[c].delta
         /\ DOMAIN transactions' = DOMAIN transactions \cup {ref} /\ transactions'[ref] = rec
         /\ \A r \in DOMAIN transactions :
              r \in DOMAIN transactions' /\ transactions'[r] = transactions[r]
         /\ \A r \in DOMAIN transactions' \ DOMAIN transactions : RefDoc(r) \in writeSet[c]
         /\ \A m \in Member : BalanceOf(m)' = BalanceOf(m) \/ WalletDoc(m) \in writeSet[c]
<1> DEFINE m == plan[c].member
           after == plan[c].after
<1>1. m \in Member /\ after \in Int
  BY OpenCallOK DEF IInv
<1>2. after = BalanceOf(m) + plan[c].delta /\ after >= 0
  BY DEF CommitTxn, IInv, SnapshotFresh, Fresh
<1>3. /\ DOMAIN balance' = DOMAIN balance \cup {m} /\ balance'[m] = after
      /\ \A n \in DOMAIN balance : n # m => balance'[n] = balance[n]
      /\ balance' = [n \in DOMAIN balance' |-> balance'[n]]
  BY DEF WriteWallet, With
<1>4. deposited' \subseteq deposited \cup {m}
  BY DEF WriteWallet
<1>5. /\ DOMAIN transactions' = DOMAIN transactions \cup {ref} /\ transactions'[ref] = rec
      /\ \A r \in DOMAIN transactions : transactions'[r] = transactions[r]
      /\ transactions' = [r \in DOMAIN transactions' |-> transactions'[r]]
  BY DEF With
<1> HIDE DEF after
<1>6. /\ DOMAIN balance \subseteq Member /\ \A n \in DOMAIN balance : balance[n] \in Int
      /\ deposited \subseteq DOMAIN balance
      /\ DOMAIN transactions \subseteq Reference
      /\ \A r \in DOMAIN transactions : transactions[r] \in WalletTransaction
  BY DEF IInv, TypeOK
<1>7. /\ deposited' \subseteq DOMAIN balance' /\ DOMAIN balance' \subseteq Member
      /\ balance' \in [DOMAIN balance' -> Int]
  BY <1>1, <1>3, <1>4, <1>6
<1>8. /\ DOMAIN transactions' \subseteq Reference
      /\ transactions' \in [DOMAIN transactions' -> WalletTransaction]
  BY <1>5, <1>6
<1>9. NonNegative'
  BY <1>2, <1>3 DEF IInv, NonNegative
<1>10. \A n \in Member : BalanceOf(n)' = BalanceOf(n) \/ WalletDoc(n) \in writeSet[c]
  <2> SUFFICES ASSUME NEW n \in Member, n # m  PROVE BalanceOf(n)' = BalanceOf(n)
    OBVIOUS
  <2> QED
    BY <1>3 DEF BalanceOf
<1> QED
  BY <1>2, <1>3, <1>5, <1>7, <1>8, <1>9, <1>10

\* The calls' side of the typing of a commit.
LEMMA CommitTypes ==
  ASSUME TypeOK, NEW c \in Call, Commit(c)
  PROVE  /\ status' = [status EXCEPT ![c] = "committed"] /\ status[c] = "open"
         /\ plan' = [plan EXCEPT ![c] = None] /\ CommitTxn(c)
         /\ UNCHANGED <<checkout, job, mails>>
         /\ status' \in [Call -> {"idle", "received", "checked", "clear", "open",
                                  "committed", "done", "refused", "failed"}]
         /\ plan' \in [Call -> Plan \cup {None}]
         /\ \A d \in Call : /\ job'[d] = None <=> status'[d] = "idle"
                            /\ plan'[d] = None <=> status'[d] # "open"
         /\ status'[c] = "committed"
         /\ \A d \in Call \ {c} : status'[d] = status[d]
BY DEF TypeOK, Commit, Goto

LEMMA CommitDepositKeepsIInv ==
  ASSUME IInv, NEW c \in Call, CommitDeposit(c)  PROVE IInv'
<1> DEFINE s == job[c].session
           ref == SessionRef(s)
           rec == [member |-> plan[c].member, type |-> "deposit", amount |-> plan[c].delta]
<1>1. /\ Commit(c) /\ job[c].op = "deposit" /\ WriteWallet(c, TRUE)
      /\ transactions' = With(transactions, ref, rec)
      /\ UNCHANGED <<withdrawals, auditTrail>>
  BY DEF CommitDeposit, Record
<1>2. /\ status[c] = "open" /\ CommitTxn(c) /\ status'[c] = "committed"
      /\ \A d \in Call \ {c} : status'[d] = status[d]
      /\ UNCHANGED <<checkout, job, mails>>
  BY <1>1, CommitTypes DEF IInv
<1>3. s \in Session /\ Completed(s) /\ plan[c].member \in Member
  BY <1>1, <1>2, OpenCallOK, JobFields DEF IInv, JobsOK
<1>4. /\ writeSet[c] = DepositFootprint(plan[c].member, s)
      /\ plan[c].member = checkout[s].member /\ plan[c].delta = checkout[s].amount
  BY <1>1, <1>2 DEF IInv, PlansOK, PlanOK
<1>5. ~Credited(s) /\ MovesMoney(c)
  BY <1>1, <1>2 DEF CommitTxn, IInv, SnapshotFresh, Fresh, MovesMoney
<1>6. rec \in WalletTransaction
  <2>1. checkout[s].amount \in Amount
    BY <1>3 DEF IInv, TypeOK, Completed
  <2> QED
    BY <1>3, <1>4, <2>1 DEF WalletTransaction
<1>7. ref \in Reference /\ RefDoc(ref) \in writeSet[c] /\ WalletDoc(plan[c].member) \in writeSet[c]
  BY <1>3, <1>4, ReferencesDiffer DEF DepositFootprint
<1>8. rec = [member |-> checkout[s].member, type |-> "deposit", amount |-> checkout[s].amount]
  BY <1>4
<1> HIDE DEF rec, ref
<1>9. /\ deposited' \subseteq DOMAIN balance' /\ DOMAIN balance' \subseteq Member
      /\ balance' \in [DOMAIN balance' -> Int]
      /\ DOMAIN transactions' \subseteq Reference
      /\ transactions' \in [DOMAIN transactions' -> WalletTransaction]
      /\ NonNegative'
      /\ DOMAIN transactions' = DOMAIN transactions \cup {ref} /\ transactions'[ref] = rec
      /\ \A r \in DOMAIN transactions :
           r \in DOMAIN transactions' /\ transactions'[r] = transactions[r]
      /\ \A r \in DOMAIN transactions' \ DOMAIN transactions : RefDoc(r) \in writeSet[c]
      /\ \A m \in Member : BalanceOf(m)' = BalanceOf(m) \/ WalletDoc(m) \in writeSet[c]
  <2>1. ref \notin DOMAIN transactions
    BY <1>5 DEF Credited, ref
  <2> QED
    BY <1>1, <1>2, <1>5, <1>6, <1>7, <2>1, MoneyMoves
<1>10. TypeOK'
  BY <1>1, <1>2, <1>9, CommitTypes DEF IInv, TypeOK
<1>11. /\ (writeSet = [d \in Call |-> writeSet[d]])'
       /\ JobsOK' /\ PlansOK' /\ SnapshotFresh' /\ AnnouncementsOK' /\ MailsOK'
       /\ AcknowledgedMeansCredited' /\ AtMostOnePending'
  <2>1. Credited(s)' /\ job'[c] = job[c]
    BY <1>2, <1>9 DEF Credited, ref
  <2>2. /\ status' = [status EXCEPT ![c] = "committed"] /\ plan' = [plan EXCEPT ![c] = None]
    BY <1>1, CommitTypes DEF IInv
  <2> QED
    BY <1>1, <1>2, <1>9, <2>1, <2>2, CommitStep
<1>12. RecordsOK'
  <2>1. \A w \in Call : WithdrawalRef(w) # ref /\ ManualRef(w) # ref
    BY ReferencesDiffer DEF ref
  <2>2. c \notin DOMAIN withdrawals /\ c \notin DOMAIN auditTrail
    BY <1>2 DEF IInv, RecordsOK
  <2> QED
    BY <1>1, <1>2, <1>9, <2>1, <2>2 DEF IInv, RecordsOK, TypeOK
<1>13. OnlyPaidIsCredited'
  <2> SUFFICES ASSUME NEW t \in Session, SessionRef(t) \in DOMAIN transactions'
               PROVE  /\ checkout[t].state \in {"paid", "acknowledged"}
                      /\ transactions'[SessionRef(t)] =
                           [member |-> checkout[t].member, type |-> "deposit",
                            amount |-> checkout[t].amount]
    BY <1>2 DEF OnlyPaidIsCredited, Credited
  <2>1. CASE t = s
    BY <1>3, <1>8, <1>9, <2>1 DEF Completed, ref
  <2>2. CASE t # s
    BY <1>9, <2>2, ReferencesDiffer DEF ref, IInv, OnlyPaidIsCredited, Credited
  <2> QED
    BY <2>1, <2>2
<1>14. PaidIffApproved'
  <2>1. \A w \in Call : WithdrawalRef(w) # ref
    BY ReferencesDiffer DEF ref
  <2> QED
    BY <1>1, <1>9, <2>1 DEF IInv, PaidIffApproved, TypeOK
<1> QED
  BY <1>9, <1>10, <1>11, <1>12, <1>13, <1>14 DEF IInv

\* A decision changes the state of one pending request.
LEMMA DecideOne ==
  ASSUME TypeOK, NEW w, IsPending(w), NEW v \in {"approved", "rejected"}, Decide(w, v)
  PROVE  /\ DOMAIN withdrawals' = DOMAIN withdrawals
         /\ withdrawals' \in [DOMAIN withdrawals' -> WithdrawalRequest]
         /\ withdrawals'[w].state = v
         /\ withdrawals'[w].member = withdrawals[w].member
         /\ withdrawals'[w].amount = withdrawals[w].amount
         /\ \A u \in DOMAIN withdrawals : u # w => withdrawals'[u] = withdrawals[u]
BY DEF Decide, IsPending, TypeOK, WithdrawalRequest

LEMMA CommitApproveKeepsIInv ==
  ASSUME IInv, NEW c \in Call, CommitApprove(c)  PROVE IInv'
<1> DEFINE w == job[c].request
           ref == WithdrawalRef(w)
           rec == [member |-> plan[c].member, type |-> "withdrawal", amount |-> -plan[c].delta]
<1>1. /\ Commit(c) /\ job[c].op = "review" /\ job[c].verdict = "approved"
      /\ WriteWallet(c, FALSE) /\ transactions' = With(transactions, ref, rec)
      /\ Decide(w, "approved") /\ UNCHANGED auditTrail
  BY DEF CommitApprove, ReviewOf, Record
<1>2. /\ status[c] = "open" /\ CommitTxn(c) /\ status'[c] = "committed"
      /\ \A d \in Call \ {c} : status'[d] = status[d]
      /\ UNCHANGED <<checkout, job, mails>>
  BY <1>1, CommitTypes DEF IInv
<1>3. IsPending(w) /\ MovesMoney(c)
  BY <1>1, <1>2 DEF CommitTxn, IInv, SnapshotFresh, Fresh, MovesMoney
<1>4. /\ writeSet[c] = ApproveFootprint(plan[c].member, w)
      /\ plan[c].member = withdrawals[w].member /\ plan[c].delta = -withdrawals[w].amount
  BY <1>1, <1>2 DEF IInv, PlansOK, PlanOK
<1>5. /\ w \in Call /\ w \in DOMAIN withdrawals /\ plan[c].member \in Member
      /\ withdrawals[w].amount \in Amount /\ -plan[c].delta = withdrawals[w].amount
  <2>1. w \in DOMAIN withdrawals
    BY <1>3 DEF IsPending
  <2> QED
    BY <1>4, <2>1, RequestFields DEF IInv
<1>6. rec \in WalletTransaction /\ rec = [member |-> withdrawals[w].member,
                                          type |-> "withdrawal", amount |-> withdrawals[w].amount]
  BY <1>4, <1>5 DEF WalletTransaction
<1>7. /\ ref \in Reference /\ RefDoc(ref) \in writeSet[c] /\ RequestDoc(w) \in writeSet[c]
      /\ WalletDoc(plan[c].member) \in writeSet[c]
  BY <1>4, <1>5, ReferencesDiffer DEF ApproveFootprint
<1>8. ref \notin DOMAIN transactions
  BY <1>3 DEF IInv, PaidIffApproved, IsPending
<1> HIDE DEF rec, ref
<1>9. /\ deposited' \subseteq DOMAIN balance' /\ DOMAIN balance' \subseteq Member
      /\ balance' \in [DOMAIN balance' -> Int]
      /\ DOMAIN transactions' \subseteq Reference
      /\ transactions' \in [DOMAIN transactions' -> WalletTransaction]
      /\ NonNegative'
      /\ DOMAIN transactions' = DOMAIN transactions \cup {ref} /\ transactions'[ref] = rec
      /\ \A r \in DOMAIN transactions :
           r \in DOMAIN transactions' /\ transactions'[r] = transactions[r]
      /\ \A r \in DOMAIN transactions' \ DOMAIN transactions : RefDoc(r) \in writeSet[c]
      /\ \A m \in Member : BalanceOf(m)' = BalanceOf(m) \/ WalletDoc(m) \in writeSet[c]
  <2>1. rec \in WalletTransaction
    BY <1>6
  <2> QED
    BY <1>1, <1>2, <1>3, <1>7, <1>8, <2>1, MoneyMoves
<1>10. /\ DOMAIN withdrawals' = DOMAIN withdrawals
       /\ withdrawals' \in [DOMAIN withdrawals' -> WithdrawalRequest]
       /\ withdrawals'[w].state = "approved"
       /\ withdrawals'[w].member = withdrawals[w].member
       /\ withdrawals'[w].amount = withdrawals[w].amount
       /\ \A u \in DOMAIN withdrawals : u # w => withdrawals'[u] = withdrawals[u]
  BY <1>1, <1>3, DecideOne DEF IInv
<1>11. TypeOK'
  BY <1>1, <1>2, <1>9, <1>10, CommitTypes DEF IInv, TypeOK
<1>12. /\ (writeSet = [d \in Call |-> writeSet[d]])'
       /\ JobsOK' /\ PlansOK' /\ SnapshotFresh' /\ AnnouncementsOK' /\ MailsOK'
       /\ AcknowledgedMeansCredited' /\ AtMostOnePending'
  <2>1. \A u \in DOMAIN withdrawals :
          /\ withdrawals'[u].member = withdrawals[u].member
          /\ withdrawals'[u].amount = withdrawals[u].amount
          /\ \/ withdrawals'[u].state = withdrawals[u].state
             \/ /\ withdrawals[u].state = "pending" /\ withdrawals'[u].state # "pending"
                /\ RequestDoc(u) \in writeSet[c]
    BY <1>3, <1>7, <1>10 DEF IsPending
  <2>2. /\ status' = [status EXCEPT ![c] = "committed"] /\ plan' = [plan EXCEPT ![c] = None]
    BY <1>1, CommitTypes DEF IInv
  <2> QED
    BY <1>1, <1>2, <1>9, <1>10, <2>1, <2>2, CommitStep
<1>13. RecordsOK'
  <2>1. \A u \in Call : /\ ManualRef(u) # ref
                        /\ WithdrawalRef(u) = ref => u = w
    BY ReferencesDiffer DEF ref
  <2>2. c \notin DOMAIN withdrawals /\ c \notin DOMAIN auditTrail
    BY <1>2 DEF IInv, RecordsOK
  <2> QED
    BY <1>1, <1>2, <1>5, <1>9, <1>10, <2>1, <2>2 DEF IInv, RecordsOK, TypeOK
<1>14. OnlyPaidIsCredited'
  <2>1. \A t \in Session : SessionRef(t) # ref
    BY ReferencesDiffer DEF ref
  <2> QED
    BY <1>2, <1>9, <2>1 DEF IInv, OnlyPaidIsCredited, Credited
<1>15. PaidIffApproved'
  <2> SUFFICES ASSUME NEW u \in DOMAIN withdrawals
               PROVE  IF withdrawals'[u].state = "approved"
                      THEN WithdrawalRef(u) \in DOMAIN transactions'
                           /\ transactions'[WithdrawalRef(u)] =
                                [member |-> withdrawals'[u].member,
                                 type |-> "withdrawal", amount |-> withdrawals'[u].amount]
                      ELSE WithdrawalRef(u) \notin DOMAIN transactions'
    BY <1>10 DEF PaidIffApproved
  <2>1. CASE u = w
    BY <1>6, <1>9, <1>10, <2>1 DEF ref
  <2>2. CASE u # w
    <3>1. WithdrawalRef(u) # ref
      BY <2>2, ReferencesDiffer DEF ref
    <3> QED
      BY <1>9, <1>10, <2>2, <3>1 DEF IInv, PaidIffApproved
  <2> QED
    BY <2>1, <2>2
<1> QED
  BY <1>9, <1>11, <1>12, <1>13, <1>14, <1>15 DEF IInv

LEMMA CommitRejectKeepsIInv ==
  ASSUME IInv, NEW c \in Call, CommitReject(c)  PROVE IInv'
<1> DEFINE w == job[c].request
<1>1. /\ Commit(c) /\ job[c].op = "review" /\ job[c].verdict = "rejected"
      /\ Decide(w, "rejected")
      /\ UNCHANGED <<balance, deposited, transactions, auditTrail>>
  BY DEF CommitReject, ReviewOf
<1>2. /\ status[c] = "open" /\ CommitTxn(c) /\ status'[c] = "committed"
      /\ \A d \in Call \ {c} : status'[d] = status[d]
      /\ UNCHANGED <<checkout, job, mails>>
  BY <1>1, CommitTypes DEF IInv
<1>3. IsPending(w)
  BY <1>1, <1>2 DEF CommitTxn, IInv, SnapshotFresh, Fresh
<1>4. w \in DOMAIN withdrawals /\ RequestDoc(w) \in writeSet[c]
  BY <1>1, <1>2, <1>3 DEF IInv, PlansOK, PlanOK, RejectFootprint, IsPending
<1>5. /\ DOMAIN withdrawals' = DOMAIN withdrawals
      /\ withdrawals' \in [DOMAIN withdrawals' -> WithdrawalRequest]
      /\ withdrawals'[w].state = "rejected"
      /\ withdrawals'[w].member = withdrawals[w].member
      /\ withdrawals'[w].amount = withdrawals[w].amount
      /\ \A u \in DOMAIN withdrawals : u # w => withdrawals'[u] = withdrawals[u]
  BY <1>1, <1>3, DecideOne DEF IInv
<1>6. TypeOK'
  BY <1>1, <1>2, <1>5, CommitTypes DEF IInv, TypeOK
<1>7. /\ (writeSet = [d \in Call |-> writeSet[d]])'
      /\ JobsOK' /\ PlansOK' /\ SnapshotFresh' /\ AnnouncementsOK' /\ MailsOK'
      /\ AcknowledgedMeansCredited' /\ AtMostOnePending'
  <2>1. \A u \in DOMAIN withdrawals :
          /\ withdrawals'[u].member = withdrawals[u].member
          /\ withdrawals'[u].amount = withdrawals[u].amount
          /\ \/ withdrawals'[u].state = withdrawals[u].state
             \/ /\ withdrawals[u].state = "pending" /\ withdrawals'[u].state # "pending"
                /\ RequestDoc(u) \in writeSet[c]
    BY <1>3, <1>4, <1>5 DEF IsPending
  <2>2. /\ status' = [status EXCEPT ![c] = "committed"] /\ plan' = [plan EXCEPT ![c] = None]
    BY <1>1, CommitTypes DEF IInv
  <2>3. \A m \in Member : BalanceOf(m)' = BalanceOf(m)
    BY <1>1 DEF BalanceOf
  <2> QED
    BY <1>1, <1>2, <1>5, <2>1, <2>2, <2>3, CommitStep
<1>8. RecordsOK'
  <2>1. c \notin DOMAIN withdrawals /\ c \notin DOMAIN auditTrail
    BY <1>2 DEF IInv, RecordsOK
  <2> QED
    BY <1>1, <1>2, <1>5, <2>1 DEF IInv, RecordsOK, TypeOK
<1>9. OnlyPaidIsCredited' /\ NonNegative'
  BY <1>1, <1>2 DEF IInv, OnlyPaidIsCredited, NonNegative, Credited
<1>10. PaidIffApproved'
  <2>1. WithdrawalRef(w) \notin DOMAIN transactions
    BY <1>3 DEF IInv, PaidIffApproved, IsPending
  <2>2. \A u \in DOMAIN withdrawals : u # w => withdrawals'[u] = withdrawals[u]
    BY <1>5
  <2> QED
    BY <1>1, <1>5, <2>1, <2>2 DEF IInv, PaidIffApproved
<1> QED
  BY <1>6, <1>7, <1>8, <1>9, <1>10 DEF IInv

LEMMA CommitAdjustKeepsIInv ==
  ASSUME IInv, NEW c \in Call, CommitAdjust(c)
  PROVE  /\ IInv'
         /\ DOMAIN transactions' = DOMAIN transactions \cup {ManualRef(c)}
         /\ c \notin DOMAIN auditTrail /\ DOMAIN auditTrail' = DOMAIN auditTrail \cup {c}
         /\ auditTrail'[c].before = BalanceOf(auditTrail'[c].member)
         /\ auditTrail'[c].after = balance'[auditTrail'[c].member]
         /\ auditTrail'[c].after - auditTrail'[c].before = Signed(transactions'[ManualRef(c)])
<1> DEFINE j == job[c]
           ref == ManualRef(c)
           type == IF j.direction = "credit" THEN "manual_credit" ELSE "manual_debit"
           rec == [member |-> plan[c].member, type |-> type, amount |-> j.amount]
           trail == [member |-> j.member, direction |-> j.direction, amount |-> j.amount,
                     before |-> plan[c].after - plan[c].delta, after |-> plan[c].after]
<1>1. /\ Commit(c) /\ j.op = "adjust" /\ WriteWallet(c, FALSE)
      /\ transactions' = With(transactions, ref, rec)
      /\ auditTrail' = With(auditTrail, c, trail) /\ UNCHANGED withdrawals
  BY DEF CommitAdjust, Record
<1>2. /\ status[c] = "open" /\ CommitTxn(c) /\ status'[c] = "committed"
      /\ \A d \in Call \ {c} : status'[d] = status[d]
      /\ UNCHANGED <<checkout, job, mails>>
  BY <1>1, CommitTypes DEF IInv
<1>3. /\ MovesMoney(c) /\ plan[c].after = BalanceOf(plan[c].member) + plan[c].delta
  BY <1>1, <1>2 DEF CommitTxn, IInv, SnapshotFresh, Fresh, MovesMoney
<1>4. /\ writeSet[c] = AdjustFootprint(plan[c].member, c) /\ plan[c].member = j.member
      /\ plan[c].delta = IF j.direction = "credit" THEN j.amount ELSE -j.amount
  BY <1>1, <1>2 DEF IInv, PlansOK, PlanOK
<1>5. /\ j.member \in Member /\ j.amount \in Amount /\ j.amount \in Int
      /\ j.direction \in {"credit", "debit"}
      /\ plan[c].after \in Int /\ plan[c].delta \in Int
  BY <1>1, <1>2, OpenCallOK, JobFields, AmountsArePositive DEF IInv
<1>6. BalanceOf(plan[c].member) \in Int
  BY DEF IInv, TypeOK, BalanceOf
<1>7. rec \in WalletTransaction /\ Signed(rec) = plan[c].delta
  BY <1>4, <1>5 DEF WalletTransaction, Signed
<1>8. /\ trail \in AuditTrail /\ trail.member = plan[c].member
      /\ trail.before = BalanceOf(plan[c].member)
      /\ trail.after = plan[c].after /\ trail.after - trail.before = plan[c].delta
  BY <1>3, <1>4, <1>5, <1>6 DEF AuditTrail
<1>9. /\ ref \in Reference /\ RefDoc(ref) \in writeSet[c]
      /\ WalletDoc(plan[c].member) \in writeSet[c]
  BY <1>4, ReferencesDiffer DEF AdjustFootprint
<1>10. c \notin DOMAIN withdrawals /\ c \notin DOMAIN auditTrail /\ ref \notin DOMAIN transactions
  BY <1>2 DEF IInv, RecordsOK
<1> HIDE DEF rec, ref, trail
<1>11. /\ deposited' \subseteq DOMAIN balance' /\ DOMAIN balance' \subseteq Member
       /\ balance' \in [DOMAIN balance' -> Int]
       /\ DOMAIN transactions' \subseteq Reference
       /\ transactions' \in [DOMAIN transactions' -> WalletTransaction]
       /\ NonNegative'
       /\ balance'[plan[c].member] = BalanceOf(plan[c].member) + plan[c].delta
       /\ DOMAIN transactions' = DOMAIN transactions \cup {ref} /\ transactions'[ref] = rec
       /\ \A r \in DOMAIN transactions :
            r \in DOMAIN transactions' /\ transactions'[r] = transactions[r]
       /\ \A r \in DOMAIN transactions' \ DOMAIN transactions : RefDoc(r) \in writeSet[c]
       /\ \A m \in Member : BalanceOf(m)' = BalanceOf(m) \/ WalletDoc(m) \in writeSet[c]
  BY <1>1, <1>2, <1>3, <1>7, <1>9, <1>10, MoneyMoves
<1>12. /\ DOMAIN auditTrail' = DOMAIN auditTrail \cup {c} /\ auditTrail'[c] = trail
       /\ auditTrail' \in [DOMAIN auditTrail' -> AuditTrail]
       /\ DOMAIN auditTrail' \subseteq Call
  <2>1. \A d \in DOMAIN auditTrail : d \in Call /\ auditTrail[d] \in AuditTrail
    BY DEF IInv, TypeOK
  <2> QED
    BY <1>1, <1>8, <2>1 DEF With
<1>13. TypeOK'
  BY <1>1, <1>2, <1>11, <1>12, CommitTypes DEF IInv, TypeOK
<1>14. /\ (writeSet = [d \in Call |-> writeSet[d]])'
       /\ JobsOK' /\ PlansOK' /\ SnapshotFresh' /\ AnnouncementsOK' /\ MailsOK'
       /\ AcknowledgedMeansCredited' /\ AtMostOnePending'
  <2>1. /\ status' = [status EXCEPT ![c] = "committed"] /\ plan' = [plan EXCEPT ![c] = None]
    BY <1>1, CommitTypes DEF IInv
  <2> QED
    BY <1>1, <1>2, <1>11, <2>1, CommitStep
<1>15. RecordsOK'
  <2>1. \A u \in Call : /\ WithdrawalRef(u) # ref
                        /\ ManualRef(u) = ref <=> u = c
    BY ReferencesDiffer DEF ref
  <2> QED
    BY <1>1, <1>2, <1>10, <1>11, <1>12, <2>1 DEF IInv, RecordsOK, TypeOK
<1>16. OnlyPaidIsCredited'
  <2>1. \A t \in Session : SessionRef(t) # ref
    BY ReferencesDiffer DEF ref
  <2> QED
    BY <1>2, <1>11, <2>1 DEF IInv, OnlyPaidIsCredited, Credited
<1>17. PaidIffApproved'
  <2>1. \A w \in Call : WithdrawalRef(w) # ref
    BY ReferencesDiffer DEF ref
  <2> QED
    BY <1>1, <1>11, <2>1 DEF IInv, PaidIffApproved, TypeOK
<1>18. IInv'
  BY <1>11, <1>13, <1>14, <1>15, <1>16, <1>17 DEF IInv
<1> QED
  BY <1>3, <1>7, <1>8, <1>10, <1>11, <1>12, <1>18 DEF ref
-------------------------------------------------------------------------------
\* The mail of a call that has committed is the first about its reference, and the
\* last: nobody else has anything to say about it.
LEMMA MailOnce ==
  ASSUME IInv, NEW c \in Call, ToAnnounce(c), status'[c] # "committed", UNCHANGED money,
         Mail(c, Announces(c), IF job[c].op = "deposit" THEN "paid" ELSE job[c].verdict),
         \A d \in Call \ {c} : status'[d] = status[d] /\ job'[d] = job[d]
  PROVE  /\ MailsOK' /\ AnnouncementsOK'
         /\ mails' \subseteq [by : Call, about : Reference, says : {"paid", "approved", "rejected"}]
<1> DEFINE says == IF job[c].op = "deposit" THEN "paid" ELSE job[c].verdict
           x == [by |-> c, about |-> Announces(c), says |-> says]
<1>1. job[c] \in Job /\ job[c].op \in {"deposit", "review"}
  BY NoneIsNothing DEF ToAnnounce, IInv, TypeOK
<1>2. \/ /\ job[c].op = "deposit" /\ job[c].session \in Session
         /\ Announces(c) = SessionRef(job[c].session) /\ says = "paid"
         /\ Credited(job[c].session)
      \/ /\ job[c].op = "review" /\ job[c].request \in DOMAIN withdrawals
         /\ Announces(c) = WithdrawalRef(job[c].request)
         /\ says \in {"approved", "rejected"}
         /\ withdrawals[job[c].request].state = says
  BY <1>1, JobFields DEF IInv, AnnouncementsOK, Announces
<1>3. \A y \in mails : y.about # Announces(c)
  BY DEF IInv, AnnouncementsOK
<1>4. mails' \subseteq mails \cup {x}
  BY DEF Mail
<1>5. x.about = Announces(c) /\ x.says = says
  OBVIOUS
<1>6. x \in [by : Call, about : Reference, says : {"paid", "approved", "rejected"}]
  BY <1>2, ReferencesDiffer DEF IInv, TypeOK
<1> HIDE DEF x, says
<1>7. MailsOK'
  <2>1. \A y, z \in mails' : y.about = z.about => y = z
    BY <1>3, <1>4, <1>5 DEF IInv, MailsOK
  <2>2. \A y \in mails' :
          \/ \E s \in Session : y.about = SessionRef(s) /\ y.says = "paid" /\ Credited(s)
          \/ \E w \in DOMAIN withdrawals :
               /\ y.about = WithdrawalRef(w)
               /\ withdrawals[w].state = y.says /\ y.says # "pending"
    BY <1>2, <1>4, <1>5 DEF IInv, MailsOK
  <2> QED
    BY <2>1, <2>2 DEF MailsOK, Credited, money
<1>8. AnnouncementsOK'
  <2>1. \A d \in Call : ToAnnounce(d)' => d # c /\ ToAnnounce(d) /\ Announces(d)' = Announces(d)
                                          /\ job'[d] = job[d]
    BY DEF ToAnnounce, Announces
  <2>2. \A d \in Call : ToAnnounce(d) /\ d # c => Announces(d) # Announces(c)
    BY DEF IInv, AnnouncementsOK
  <2>3. \A d \in Call : ToAnnounce(d) /\ d # c => \A y \in mails' : y.about # Announces(d)
    BY <1>4, <1>5, <2>2 DEF IInv, AnnouncementsOK
  <2> QED
    BY <2>1, <2>3 DEF IInv, AnnouncementsOK, Credited, money
<1> QED
  BY <1>4, <1>6, <1>7, <1>8 DEF IInv, TypeOK

\* Stripe gets its 2xx for a session that is credited, with a mail before that or
\* without one.
LEMMA AcknowledgeKeepsIInv ==
  ASSUME IInv, NEW c \in Call, status[c] \in {"received", "committed"},
         job[c].op = "deposit", Credited(job[c].session), Acknowledge(c, job[c].session),
         UNCHANGED <<money, plan, sessionVars>>, MailsOK', AnnouncementsOK',
         mails' \subseteq [by : Call, about : Reference, says : {"paid", "approved", "rejected"}]
  PROVE  IInv'
<1> DEFINE s == job[c].session
<1>1. /\ checkout' = [checkout EXCEPT ![s].state = "acknowledged"]
      /\ status' = [status EXCEPT ![c] = "idle"] /\ job' = [job EXCEPT ![c] = None]
  BY DEF Acknowledge, Goto
<1>2. s \in Session /\ Completed(s) /\ c \in Delivery
  BY JobFields, NoneIsNothing DEF IInv, TypeOK, JobsOK
<1>3. /\ status'[c] = "idle" /\ job'[c] = None
      /\ \A d \in Call \ {c} : status'[d] = status[d] /\ job'[d] = job[d]
  BY <1>1 DEF IInv, TypeOK
<1>4. /\ checkout' \in [Session -> [state: {"none", "open", "paid", "acknowledged"},
                                    member: Member \cup {None}, amount: Amount \cup {0}]]
      /\ checkout'[s].state = "acknowledged"
      /\ \A t \in Session : /\ checkout'[t].member = checkout[t].member
                            /\ checkout'[t].amount = checkout[t].amount
                            /\ t # s => checkout'[t] = checkout[t]
  BY <1>1, <1>2 DEF IInv, TypeOK
<1>5. \A t \in Session : Completed(t) => Completed(t)'
  BY <1>4 DEF Completed
<1>6. TypeOK'
  <2>1. \A t \in Session : checkout'[t].state # "none" =>
          checkout'[t].member \in Member /\ checkout'[t].amount \in Amount
    BY <1>2, <1>4 DEF IInv, TypeOK, Completed
  <2>2. /\ status' \in [Call -> {"idle", "received", "checked", "clear", "open",
                                "committed", "done", "refused", "failed"}]
        /\ job' \in [Call -> Job \cup {None}] /\ plan' \in [Call -> Plan \cup {None}]
    BY <1>1 DEF IInv, TypeOK
  <2>3. \A d \in Call : /\ job'[d] = None <=> status'[d] = "idle"
                        /\ plan'[d] = None <=> status'[d] # "open"
    BY <1>3 DEF IInv, TypeOK
  <2> QED
    BY <1>4, <2>1, <2>2, <2>3 DEF IInv, TypeOK, money
<1>7. JobsOK'
  <2>1. \A d \in Call : job[d].op = "deposit" /\ status[d] # "idle" => job[d].session \in Session
    BY JobFields DEF IInv, TypeOK
  <2>2. \A d \in Call : job[d].op = "deposit" /\ status[d] # "idle" =>
          checkout'[job[d].session].state \in {"paid", "acknowledged"}
    BY <1>4, <2>1 DEF IInv, JobsOK, Completed
  <2> QED
    BY <1>3, <2>2 DEF IInv, JobsOK, Completed
<1>8. PlansOK'
  <2> SUFFICES ASSUME NEW d \in Call, status'[d] = "open"  PROVE PlanOK(d)'
    BY DEF PlansOK
  <2>1. d # c /\ PlanOK(d) /\ job'[d] = job[d] /\ plan'[d] = plan[d] /\ writeSet'[d] = writeSet[d]
    BY <1>3 DEF IInv, PlansOK, sessionVars
  <2>2. job[d].op = "deposit" => job[d].session \in Session
    BY <1>3, <2>1, OpenCallOK, JobFields DEF IInv
  <2> QED
    BY <1>4, <2>1, <2>2 DEF PlanOK, money
<1>9. SnapshotFresh'
  <2> SUFFICES ASSUME NEW d \in Call, status'[d] = "open", d \notin stale'  PROVE Fresh(d)'
    BY DEF SnapshotFresh
  <2>1. d # c /\ Fresh(d) /\ job'[d] = job[d] /\ plan'[d] = plan[d]
    BY <1>3 DEF IInv, SnapshotFresh, sessionVars
  <2> QED
    BY <2>1 DEF Fresh, MovesMoney, Credited, IsPending, BalanceOf, money
<1>10. RecordsOK'
  <2>1. c \notin DOMAIN withdrawals /\ c \notin DOMAIN auditTrail
    BY DEF IInv, RecordsOK
  <2> QED
    BY <1>3, <2>1 DEF IInv, RecordsOK, TypeOK, money
<1>11. OnlyPaidIsCredited'
  BY <1>4 DEF IInv, OnlyPaidIsCredited, Credited, money
<1>12. AcknowledgedMeansCredited'
  BY <1>4 DEF IInv, AcknowledgedMeansCredited, Credited, money
<1>13. NonNegative' /\ AtMostOnePending' /\ PaidIffApproved'
  BY DEF IInv, NonNegative, AtMostOnePending, PaidIffApproved, money
<1>14. (writeSet = [d \in Call |-> writeSet[d]])'
  BY DEF IInv, sessionVars
<1> QED
  BY <1>6, <1>7, <1>8, <1>9, <1>10, <1>11, <1>12, <1>13, <1>14 DEF IInv

LEMMA AlreadyCreditedKeepsIInv ==
  ASSUME IInv, NEW c \in Call, AlreadyCredited(c)  PROVE IInv'
<1>1. /\ status[c] = "received" /\ job[c].op = "deposit" /\ Credited(job[c].session)
      /\ Acknowledge(c, job[c].session) /\ UNCHANGED <<money, plan, mails, sessionVars>>
  BY DEF AlreadyCredited
<1>2. MailsOK'
  BY <1>1 DEF IInv, MailsOK, Credited, money
<1>3. AnnouncementsOK'
  <2>1. \A d \in Call : ToAnnounce(d)' => ToAnnounce(d) /\ Announces(d)' = Announces(d)
                                          /\ job'[d] = job[d]
    BY <1>1 DEF ToAnnounce, Announces, Acknowledge, Goto, IInv, TypeOK
  <2> QED
    BY <1>1, <2>1 DEF IInv, AnnouncementsOK, Credited, money
<1> QED
  BY <1>1, <1>2, <1>3, AcknowledgeKeepsIInv DEF IInv, TypeOK

LEMMA AnswerDepositKeepsIInv ==
  ASSUME IInv, NEW c \in Call, AnswerDeposit(c)  PROVE IInv'
<1>1. /\ status[c] = "committed" /\ job[c].op = "deposit"
      /\ Mail(c, SessionRef(job[c].session), "paid")
      /\ Acknowledge(c, job[c].session) /\ UNCHANGED <<money, plan, sessionVars>>
  BY DEF AnswerDeposit
<1>2. /\ ToAnnounce(c) /\ Announces(c) = SessionRef(job[c].session)
      /\ Credited(job[c].session)
  BY <1>1 DEF ToAnnounce, Announces, IInv, AnnouncementsOK
<1>3. /\ status'[c] = "idle"
      /\ \A d \in Call \ {c} : status'[d] = status[d] /\ job'[d] = job[d]
  BY <1>1 DEF Acknowledge, Goto, IInv, TypeOK
<1>4. /\ MailsOK' /\ AnnouncementsOK'
      /\ mails' \subseteq [by : Call, about : Reference, says : {"paid", "approved", "rejected"}]
  BY <1>1, <1>2, <1>3, MailOnce
<1> QED
  BY <1>1, <1>2, <1>4, AcknowledgeKeepsIInv

LEMMA AnswerReviewKeepsIInv ==
  ASSUME IInv, NEW c \in Call, AnswerReview(c)  PROVE IInv'
<1>1. /\ status[c] = "committed" /\ job[c].op = "review"
      /\ Mail(c, WithdrawalRef(job[c].request), job[c].verdict)
      /\ status' = [status EXCEPT ![c] = "done"]
      /\ UNCHANGED <<checkout, money, job, plan, sessionVars>>
  BY DEF AnswerReview, Goto
<1>2. ToAnnounce(c) /\ Announces(c) = WithdrawalRef(job[c].request)
  BY <1>1 DEF ToAnnounce, Announces
<1>3. status'[c] = "done" /\ \A d \in Call \ {c} : status'[d] = status[d] /\ job'[d] = job[d]
  BY <1>1 DEF IInv, TypeOK
<1>4. /\ MailsOK' /\ AnnouncementsOK'
      /\ mails' \subseteq [by : Call, about : Reference, says : {"paid", "approved", "rejected"}]
  BY <1>1, <1>2, <1>3, MailOnce
<1>5. TypeOK'
  <2>1. /\ status' \in [Call -> {"idle", "received", "checked", "clear", "open",
                                "committed", "done", "refused", "failed"}]
        /\ \A d \in Call : /\ status'[d] = "idle" <=> status[d] = "idle"
                           /\ status'[d] = "open" <=> status[d] = "open"
    BY <1>1, <1>3 DEF IInv, TypeOK
  <2> QED
    BY <1>1, <1>4, <2>1 DEF IInv, TypeOK, money
<1>6. JobsOK' /\ PlansOK'
  BY <1>1, <1>3 DEF IInv, JobsOK, Completed, PlansOK, PlanOK, money, sessionVars
<1>7. SnapshotFresh'
  BY <1>1, <1>3 DEF IInv, SnapshotFresh, Fresh, MovesMoney, Credited, IsPending, BalanceOf,
     money, sessionVars
<1>8. RecordsOK'
  BY <1>1, <1>3 DEF IInv, RecordsOK, TypeOK, money
<1>9. /\ OnlyPaidIsCredited' /\ AcknowledgedMeansCredited' /\ NonNegative'
      /\ AtMostOnePending' /\ PaidIffApproved'
  BY <1>1 DEF IInv, OnlyPaidIsCredited, AcknowledgedMeansCredited, NonNegative,
     AtMostOnePending, PaidIffApproved, Credited, money
<1>10. (writeSet = [d \in Call |-> writeSet[d]])'
  BY <1>1 DEF IInv, sessionVars
<1> QED
  BY <1>4, <1>5, <1>6, <1>7, <1>8, <1>9, <1>10 DEF IInv
-------------------------------------------------------------------------------
\* Every step of a call.
LEMMA CallStepKeepsIInv ==
  ASSUME IInv, NEW c \in Call, CallStep(c)  PROVE IInv'
<1>1. ASSUME ReadWallet(c)  PROVE IInv'
  <2>1. PICK st \in {"checked", "refused"} : status' = [status EXCEPT ![c] = st]
    BY <1>1 DEF ReadWallet, Goto
  <2>2. /\ status[c] = "received" /\ job[c].op = "withdraw" /\ c \notin DOMAIN auditTrail
        /\ UNCHANGED <<checkout, money, job, plan, mails, sessionVars>>
    BY <1>1 DEF ReadWallet, WithdrawStep, IInv, RecordsOK
  <2> QED
    BY <2>1, <2>2, StepAheadKeepsIInv
<1>2. ASSUME CheckPending(c)  PROVE IInv'
  <2>1. PICK st \in {"clear", "refused"} : status' = [status EXCEPT ![c] = st]
    BY <1>2 DEF CheckPending, Goto
  <2>2. /\ status[c] = "checked" /\ job[c].op = "withdraw" /\ c \notin DOMAIN auditTrail
        /\ UNCHANGED <<checkout, money, job, plan, mails, sessionVars>>
    BY <1>2 DEF CheckPending, WithdrawStep, IInv, RecordsOK
  <2> QED
    BY <2>1, <2>2, StepAheadKeepsIInv
<1>3. ASSUME AnswerAdjust(c)  PROVE IInv'
  BY <1>3, StepAheadKeepsIInv DEF AnswerAdjust, Goto
<1>4. ASSUME DepositStep(c)  PROVE IInv'
  BY <1>4, BeginDepositKeepsIInv, AlreadyCreditedKeepsIInv, CommitDepositKeepsIInv,
     AnswerDepositKeepsIInv DEF DepositStep
<1>5. ASSUME WithdrawalStep(c)  PROVE IInv'
  BY <1>1, <1>2, <1>5, CreateRequestKeepsIInv DEF WithdrawalStep
<1>6. ASSUME ReviewStep(c)  PROVE IInv'
  BY <1>6, BeginApproveKeepsIInv, BeginRejectKeepsIInv, CommitApproveKeepsIInv,
     CommitRejectKeepsIInv, AnswerReviewKeepsIInv DEF ReviewStep
<1>7. ASSUME AdjustStep(c)  PROVE IInv'
  BY <1>3, <1>7, BeginAdjustKeepsIInv, CommitAdjustKeepsIInv DEF AdjustStep
<1> QED
  BY <1>4, <1>5, <1>6, <1>7, ConflictKeepsIInv DEF CallStep

LEMMA NextKeepsIInv == IInv /\ [Next]_vars => IInv'
<1> SUFFICES ASSUME IInv, [Next]_vars PROVE IInv'
  OBVIOUS
<1>1. CASE UNCHANGED vars
  <2>1. UNCHANGED <<checkout, balance, deposited, transactions, withdrawals, auditTrail>>
    BY <1>1 DEF vars, money
  <2>2. UNCHANGED <<status, job, plan, mails, writeSet, stale>>
    BY <1>1 DEF vars, calls, sessionVars
  <2>3. TypeOK' /\ JobsOK' /\ PlansOK'
    BY <2>1, <2>2 DEF IInv, TypeOK, JobsOK, PlansOK, PlanOK, Completed
  <2>4. SnapshotFresh' /\ RecordsOK'
    BY <2>1, <2>2 DEF IInv, SnapshotFresh, Fresh, MovesMoney, RecordsOK, Credited, IsPending,
       BalanceOf
  <2>5. AnnouncementsOK' /\ MailsOK' /\ NonNegative'
    BY <2>1, <2>2 DEF IInv, AnnouncementsOK, ToAnnounce, Announces, MailsOK, NonNegative,
       Credited
  <2>6. /\ OnlyPaidIsCredited' /\ AcknowledgedMeansCredited'
        /\ AtMostOnePending' /\ PaidIffApproved'
    BY <2>1, <2>2 DEF IInv, OnlyPaidIsCredited, AcknowledgedMeansCredited, AtMostOnePending,
       PaidIffApproved, Credited
  <2> QED
    BY <2>2, <2>3, <2>4, <2>5, <2>6 DEF IInv
<1>2. ASSUME NEW s \in Session, OpenCheckout(s)  PROVE IInv'
  BY <1>2, OpenCheckoutKeepsIInv
<1>3. ASSUME NEW s \in Session, Pay(s)  PROVE IInv'
  BY <1>3, PayKeepsIInv
<1>4. ASSUME NEW s \in Session, NEW c \in Delivery, Deliver(c, s)  PROVE IInv'
  BY <1>4, DeliverKeepsIInv
<1>5. ASSUME NEW c \in Call, Submit(c)  PROVE IInv'
  BY <1>5, SubmitKeepsIInv
<1>6. ASSUME NEW c \in Call, CallStep(c)  PROVE IInv'
  BY <1>6, CallStepKeepsIInv
<1>7. ASSUME NEW c \in Call, Fail(c)  PROVE IInv'
  BY <1>7, FailKeepsIInv
<1> QED
  BY <1>1, <1>2, <1>3, <1>4, <1>5, <1>6, <1>7 DEF Next

\* The inductive invariant holds of every run of wallets.service.ts: above all, a
\* callback that can still commit works on a balance, a request or a session that
\* nobody has changed since it was read.
THEOREM WalletsInvariant == Spec => []IInv
<1> QED
  BY InitIInv, NextKeepsIInv, PTL DEF Spec

\* Documents keep to their schemas, and a call has a job and a plan when it should.
THEOREM TypeCorrect == Spec => []TypeOK
<1>1. IInv => TypeOK
  BY DEF IInv
<1> QED
  BY <1>1, WalletsInvariant, PTL

\* The webhook credits a session once it is paid, with the amount and to the member
\* Stripe has on record, whichever of its deliveries gets there.
THEOREM CreditsArePayments == Spec => []OnlyPaidIsCredited
<1>1. IInv => OnlyPaidIsCredited
  BY DEF IInv
<1> QED
  BY <1>1, WalletsInvariant, PTL

\* A 2xx to Stripe is never the last word on a session that was not credited.
THEOREM NoPaymentIsLost == Spec => []AcknowledgedMeansCredited
<1>1. IInv => AcknowledgedMeansCredited
  BY DEF IInv
<1> QED
  BY <1>1, WalletsInvariant, PTL

\* However many withdrawal requests a member sends at once, one is pending.
THEOREM RequestsAreExclusive == Spec => []AtMostOnePending
<1>1. IInv => AtMostOnePending
  BY DEF IInv
<1> QED
  BY <1>1, WalletsInvariant, PTL

\* Competing reviews of one request pay it out once if it ends up approved, and
\* never if it does not.
THEOREM ReviewsPayOnce == Spec => []PaidIffApproved
<1>1. IInv => PaidIffApproved
  BY DEF IInv
<1> QED
  BY <1>1, WalletsInvariant, PTL

\* Members are mailed the outcome of a deposit or a request at most once, and never
\* anything but the outcome.
THEOREM MailsTellTheOutcome == Spec => []ToldTheOutcomeOnce
<1>1. IInv => ToldTheOutcomeOnce
  <2> SUFFICES ASSUME IInv, NEW x \in mails
               PROVE  /\ \A y \in mails : x.about = y.about => x = y
                      /\ x.about[1] = "session" => x.says = "paid" /\ Credited(x.about[2])
                      /\ x.about[1] = "withdrawal_request" =>
                           withdrawals[x.about[2]].state = x.says
    BY DEF ToldTheOutcomeOnce
  <2>1. \A y \in mails : x.about = y.about => x = y
    BY DEF IInv, MailsOK
  <2>2. ASSUME NEW s \in Session, x.about = SessionRef(s), x.says = "paid", Credited(s)
        PROVE  /\ x.about[1] = "session" => x.says = "paid" /\ Credited(x.about[2])
               /\ x.about[1] = "withdrawal_request" =>
                    withdrawals[x.about[2]].state = x.says
    BY <2>2 DEF SessionRef
  <2>3. ASSUME NEW w \in DOMAIN withdrawals, x.about = WithdrawalRef(w),
               withdrawals[w].state = x.says
        PROVE  /\ x.about[1] = "session" => x.says = "paid" /\ Credited(x.about[2])
               /\ x.about[1] = "withdrawal_request" =>
                    withdrawals[x.about[2]].state = x.says
    BY <2>3 DEF WithdrawalRef
  <2> QED
    BY <2>1, <2>2, <2>3 DEF IInv, MailsOK
<1> QED
  BY <1>1, WalletsInvariant, PTL

\* Only the commit of an adjustment touches the audit trail or makes a manual record.
LEMMA OthersAdjustNothing ==
  ASSUME [Next]_vars, \A d \in Call : ~CommitAdjust(d)
  PROVE  /\ auditTrail' = auditTrail
         /\ \A c \in Call : ManualRef(c) \in DOMAIN transactions' => ManualRef(c) \in DOMAIN transactions
<1>1. CASE UNCHANGED vars
  BY <1>1 DEF vars, money
<1>2. ASSUME NEW d \in Call, CommitDeposit(d) \/ CommitApprove(d)
      PROVE  /\ auditTrail' = auditTrail
             /\ \A c \in Call : ManualRef(c) \in DOMAIN transactions' =>
                                  ManualRef(c) \in DOMAIN transactions
  <2>1. auditTrail' = auditTrail
    BY <1>2 DEF CommitDeposit, CommitApprove
  <2>2. ASSUME CommitDeposit(d)
        PROVE  DOMAIN transactions' = DOMAIN transactions \cup {SessionRef(job[d].session)}
    BY <2>2, WithOne DEF CommitDeposit, Record
  <2>3. ASSUME CommitApprove(d)
        PROVE  DOMAIN transactions' = DOMAIN transactions \cup {WithdrawalRef(job[d].request)}
    BY <2>3, WithOne DEF CommitApprove, Record
  <2> QED
    BY <1>2, <2>1, <2>2, <2>3, ReferencesDiffer
<1>3. ASSUME NEW d \in Call,
             \/ BeginDeposit(d) \/ BeginApprove(d) \/ BeginReject(d) \/ BeginAdjust(d)
      PROVE  UNCHANGED money
  BY <1>3 DEF BeginDeposit, BeginApprove, BeginReject, BeginAdjust, Open, Refuse
<1>4. ASSUME NEW d \in Call,
             \/ AlreadyCredited(d) \/ AnswerDeposit(d) \/ AnswerReview(d) \/ AnswerAdjust(d)
             \/ ReadWallet(d) \/ CheckPending(d) \/ Conflict(d) \/ Submit(d) \/ Fail(d)
      PROVE  UNCHANGED money
  BY <1>4 DEF AlreadyCredited, AnswerDeposit, AnswerReview, AnswerAdjust, ReadWallet,
     CheckPending, Conflict, Submit, Fail
<1>5. ASSUME NEW d \in Call, CreateRequest(d) \/ CommitReject(d)
      PROVE  UNCHANGED <<transactions, auditTrail>>
  BY <1>5 DEF CreateRequest, CommitReject
<1>6. ASSUME NEW s \in Session, \/ OpenCheckout(s) \/ Pay(s)
                                \/ \E d \in Delivery : Deliver(d, s)
      PROVE  UNCHANGED money
  BY <1>6 DEF OpenCheckout, Pay, Deliver
<1> QED
  BY <1>1, <1>2, <1>3, <1>4, <1>5, <1>6 DEF Next, CallStep, DepositStep, WithdrawalStep,
     ReviewStep, AdjustStep, money

\* A manual adjustment moves the wallet, the ledger and the audit trail in one step,
\* and the balances on the trail are those it really moved between.
THEOREM TrailsAreTrue == Spec => AdjustmentsAudited
<1> DEFINE Audited(c) ==
             (ManualRef(c) \in DOMAIN transactions' \ DOMAIN transactions)
               <=> (c \in DOMAIN auditTrail' \ DOMAIN auditTrail
                    /\ auditTrail'[c].before = BalanceOf(auditTrail'[c].member)
                    /\ auditTrail'[c].after = balance'[auditTrail'[c].member]
                    /\ auditTrail'[c].after - auditTrail'[c].before
                         = Signed(transactions'[ManualRef(c)]))
<1>1. IInv /\ [Next]_vars => [\A c \in Call : Audited(c)]_vars
  <2> SUFFICES ASSUME IInv, [Next]_vars, NEW c \in Call  PROVE Audited(c)
    OBVIOUS
  <2>1. ASSUME NEW d \in Call, CommitAdjust(d)  PROVE Audited(c)
    <3>1. /\ DOMAIN transactions' = DOMAIN transactions \cup {ManualRef(d)}
          /\ d \notin DOMAIN auditTrail /\ DOMAIN auditTrail' = DOMAIN auditTrail \cup {d}
          /\ auditTrail'[d].before = BalanceOf(auditTrail'[d].member)
          /\ auditTrail'[d].after = balance'[auditTrail'[d].member]
          /\ auditTrail'[d].after - auditTrail'[d].before
               = Signed(transactions'[ManualRef(d)])
      BY <2>1, CommitAdjustKeepsIInv
    <3>2. ManualRef(d) \notin DOMAIN transactions
      BY <3>1 DEF IInv, RecordsOK
    <3>3. CASE c = d
      BY <3>1, <3>2, <3>3
    <3>4. CASE c # d
      BY <3>1, <3>4, ReferencesDiffer
    <3> QED
      BY <3>3, <3>4
  <2>2. ASSUME \A d \in Call : ~CommitAdjust(d)  PROVE Audited(c)
    BY <2>2, OthersAdjustNothing
  <2> QED
    BY <2>1, <2>2
<1> QED
  BY <1>1, WalletsInvariant, PTL DEF Spec, AdjustmentsAudited
-------------------------------------------------------------------------------
(***************************************************************************)
(* Another service on the same wallets.                                    *)
(***************************************************************************)
\* A step of a service that leaves the other collections alone and writes docs
\* disturbs nothing here: it outdates the open transactions of those wallets.
LEMMA OtherServiceKeepsWallets ==
  ASSUME IInv, UNCHANGED <<checkout, deposited, transactions, withdrawals, auditTrail, calls>>,
         NEW docs, writeSet' = [d \in Call |-> writeSet'[d]],
         \A d \in Call : status[d] = "open" =>
           writeSet'[d] = writeSet[d] /\ (d \notin stale' => d \notin stale /\ writeSet[d] \cap docs = {}),
         DOMAIN balance' = DOMAIN balance, balance' \in [DOMAIN balance -> Int],
         \A m \in DOMAIN balance : balance'[m] >= 0,
         \A m \in DOMAIN balance : balance'[m] = balance[m] \/ WalletDoc(m) \in docs
  PROVE  IInv'
<1>1. TypeOK'
  <2>1. deposited' \subseteq DOMAIN balance' /\ DOMAIN balance' \subseteq Member
        /\ balance' \in [DOMAIN balance' -> Int]
    BY DEF IInv, TypeOK
  <2> QED
    BY <2>1 DEF IInv, TypeOK, calls
<1>2. JobsOK' /\ PlansOK'
  BY DEF IInv, JobsOK, PlansOK, PlanOK, Completed, calls
<1>3. SnapshotFresh'
  <2> SUFFICES ASSUME NEW d \in Call, status'[d] = "open", d \notin stale'
               PROVE  Fresh(d)'
    BY DEF SnapshotFresh
  <2>1. status[d] = "open" /\ Fresh(d) /\ writeSet[d] \cap docs = {}
    BY DEF IInv, SnapshotFresh, calls
  <2>2. job'[d] = job[d] /\ plan'[d] = plan[d]
    BY DEF calls
  <2>3. \A ref \in DOMAIN transactions' \ DOMAIN transactions : RefDoc(ref) \in docs
    OBVIOUS
  <2>4. \A w \in Call : IsPending(w) => IsPending(w)' \/ RequestDoc(w) \in docs
    BY DEF IsPending
  <2>5. \A m \in Member : BalanceOf(m)' = BalanceOf(m) \/ WalletDoc(m) \in docs
    BY DEF BalanceOf
  <2> QED
    BY <2>1, <2>2, <2>3, <2>4, <2>5, FreshIsLocal DEF IInv
<1>4. RecordsOK' /\ AnnouncementsOK' /\ MailsOK'
  BY DEF IInv, RecordsOK, AnnouncementsOK, MailsOK, ToAnnounce, Announces, Credited, calls
<1>5. NonNegative'
  BY DEF NonNegative
<1>6. OnlyPaidIsCredited' /\ AcknowledgedMeansCredited' /\ AtMostOnePending' /\ PaidIffApproved'
  BY DEF IInv, OnlyPaidIsCredited, AcknowledgedMeansCredited, AtMostOnePending,
     PaidIffApproved, Credited
<1> QED
  BY <1>1, <1>2, <1>3, <1>4, <1>5, <1>6 DEF IInv
-------------------------------------------------------------------------------
(***************************************************************************)
(* Platform.                                                               *)
(***************************************************************************)
\* The same trading service as T, with what is proved about it.
TP == INSTANCE TradingProofs WITH status <- tradeStatus, request <- tradeRequest,
                                  plan <- tradePlan, InitialBalance <- EmptyCollection,
                                  NoRequest <- None, NoPlan <- None

LEMMA NothingToStartWith ==
  /\ DOMAIN EmptyCollection \subseteq Member
  /\ EmptyCollection \in [DOMAIN EmptyCollection -> Nat]
BY DEF EmptyCollection

LEMMA SameFresh == ASSUME NEW c PROVE T!Fresh(c) <=> TP!Fresh(c)
BY DEF T!Fresh, TP!Fresh, T!OwnOpenOrder, TP!OwnOpenOrder, T!Cost, TP!Cost

LEMMA SameInvariant == T!TradesOK <=> TP!TradesOK
<1>1. T!SchemasOK <=> TP!SchemasOK
  BY DEF T!SchemasOK, TP!SchemasOK, T!BuyOrder, TP!BuyOrder, T!SellOrder, TP!SellOrder,
     T!Request, TP!Request, T!Plan, TP!Plan, T!Share, TP!Share, T!All, TP!All,
     T!Answered, TP!Answered, T!Refusal, TP!Refusal
<1>2. T!PlansOK <=> TP!PlansOK
  BY DEF T!PlansOK, TP!PlansOK, T!BuyFootprint, TP!BuyFootprint, T!SellFootprint, TP!SellFootprint,
     T!UserDoc, TP!UserDoc, T!StockDoc, TP!StockDoc, T!WalletDoc, TP!WalletDoc,
     T!OrderDoc, TP!OrderDoc
<1>3. T!SnapshotFresh <=> TP!SnapshotFresh
  BY SameFresh DEF T!SnapshotFresh, TP!SnapshotFresh
<1>4. /\ T!OrderIdsOK <=> TP!OrderIdsOK
      /\ T!NonNegative <=> TP!NonNegative
      /\ T!ClosedMeansSoldOut <=> TP!ClosedMeansSoldOut
  BY DEF T!OrderIdsOK, TP!OrderIdsOK, T!NonNegative, TP!NonNegative,
     T!ClosedMeansSoldOut, TP!ClosedMeansSoldOut
<1> QED
  BY <1>1, <1>2, <1>3, <1>4 DEF T!TradesOK, TP!TradesOK

LEMMA SameInit == T!Init <=> TP!Init
BY DEF T!Init, TP!Init, T!SessionsInit, TP!SessionsInit, T!EmptyCollection, TP!EmptyCollection

LEMMA SameReceive == ASSUME NEW c PROVE T!Receive(c) <=> TP!Receive(c)
BY DEF T!Receive, TP!Receive, T!Request, TP!Request, T!Share, TP!Share, T!All, TP!All,
   T!books, TP!books, T!sessionVars, TP!sessionVars

LEMMA SameRefuse == ASSUME NEW c PROVE T!Refuse(c) <=> TP!Refuse(c)
BY DEF T!Refuse, TP!Refuse, T!Outcomes, TP!Outcomes, T!BuyOutcomes, TP!BuyOutcomes,
   T!SellOutcomes, TP!SellOutcomes, T!OwnOpenOrder, TP!OwnOpenOrder, T!Cost, TP!Cost,
   T!SharesToSell, TP!SharesToSell, T!All, TP!All, T!books, TP!books,
   T!sessionVars, TP!sessionVars

LEMMA SameOpen ==
  ASSUME NEW c
  PROVE  (T!OpenBuy(c) <=> TP!OpenBuy(c)) /\ (T!OpenSell(c) <=> TP!OpenSell(c))
<1>1. T!OpenBuy(c) <=> TP!OpenBuy(c)
  BY DEF T!OpenBuy, TP!OpenBuy, T!BuyOutcomes, TP!BuyOutcomes, T!Cost, TP!Cost,
     T!OpenTxn, TP!OpenTxn, T!BuyFootprint, TP!BuyFootprint, T!books, TP!books,
     T!UserDoc, TP!UserDoc, T!StockDoc, TP!StockDoc, T!WalletDoc, TP!WalletDoc
<1>2. T!OpenSell(c) <=> TP!OpenSell(c)
  BY DEF T!OpenSell, TP!OpenSell, T!SellOutcomes, TP!SellOutcomes, T!OwnOpenOrder, TP!OwnOpenOrder,
     T!Cost, TP!Cost, T!SharesToSell, TP!SharesToSell, T!SellPlan, TP!SellPlan, T!All, TP!All,
     T!OpenTxn, TP!OpenTxn, T!SellFootprint, TP!SellFootprint, T!books, TP!books,
     T!UserDoc, TP!UserDoc, T!StockDoc, TP!StockDoc, T!WalletDoc, TP!WalletDoc,
     T!OrderDoc, TP!OrderDoc
<1> QED
  BY <1>1, <1>2

LEMMA SameCommit ==
  ASSUME NEW c
  PROVE  (T!CommitBuy(c) <=> TP!CommitBuy(c)) /\ (T!CommitSell(c) <=> TP!CommitSell(c))
BY DEF T!CommitBuy, TP!CommitBuy, T!CommitSell, TP!CommitSell, T!AfterSale, TP!AfterSale,
   T!Cost, TP!Cost, T!With, TP!With, T!CommitTxn, TP!CommitTxn, T!Outdated, TP!Outdated

LEMMA SameAbort ==
  ASSUME NEW c
  PROVE  (T!Conflict(c) <=> TP!Conflict(c)) /\ (T!Fail(c) <=> TP!Fail(c))
BY DEF T!Conflict, TP!Conflict, T!Fail, TP!Fail, T!AbortTxn, TP!AbortTxn, T!books, TP!books

\* Trading keeps its invariant on the platform too.
LEMMA TradingStepKeepsTrades ==
  ASSUME T!TradesOK, NEW c \in Call, T!Receive(c) \/ T!CallStep(c) \/ T!Fail(c)
  PROVE  T!TradesOK'
<1>1. TP!Next
  BY SameReceive, SameRefuse, SameOpen, SameCommit, SameAbort
     DEF T!CallStep, TP!CallStep, TP!Next
<1>2. TP!TradesOK /\ [TP!Next]_(TP!vars) => TP!TradesOK'
  BY TP!NextKeepsTrades, TradingConstants, NothingToStartWith
<1>3. (T!TradesOK <=> TP!TradesOK) /\ (T!TradesOK <=> TP!TradesOK)'
  BY SameInvariant, PTL
<1> QED
  BY <1>1, <1>2, <1>3
-------------------------------------------------------------------------------
\* Trading keeps the invariant of Wallets: a trade writes the wallet it moves.
LEMMA QuietTradeKeepsWallets ==
  ASSUME IInv, NEW c \in Call, status[c] = "idle", UNCHANGED <<walletVars, balance>>,
         writeSet' = [d \in Call |-> writeSet'[d]],
         \A d \in Call \ {c} : writeSet'[d] = writeSet[d] /\ (d \in stale' <=> d \in stale)
  PROVE  IInv'
<1>1. \A d \in Call : status[d] = "open" =>
        writeSet'[d] = writeSet[d] /\ (d \notin stale' => d \notin stale /\ writeSet[d] \cap {} = {})
  OBVIOUS
<1>2. /\ DOMAIN balance' = DOMAIN balance /\ balance' \in [DOMAIN balance -> Int]
      /\ \A m \in DOMAIN balance : balance'[m] >= 0
  BY DEF IInv, TypeOK, NonNegative
<1>3. UNCHANGED <<checkout, deposited, transactions, withdrawals, auditTrail, calls>>
  BY DEF walletVars
<1> QED
  BY <1>1, <1>2, <1>3, OtherServiceKeepsWallets

LEMMA CommitTradeKeepsWallets ==
  ASSUME IInv, T!TradesOK, T!TradesOK', NEW c \in Call, status[c] = "idle",
         T!CommitBuy(c) \/ T!CommitSell(c), UNCHANGED walletVars
  PROVE  IInv'
<1>1. /\ tradeStatus[c] = "open" /\ T!CommitTxn(c)
      /\ \A m \in DOMAIN balance : m # tradeRequest[c].member => balance'[m] = balance[m]
      /\ DOMAIN balance' = DOMAIN balance
  BY DEF T!CommitBuy, T!CommitSell
<1>2. /\ tradeRequest[c] \in T!Request /\ writeSet = [d \in Call |-> writeSet[d]]
  BY <1>1 DEF T!TradesOK, T!SchemasOK
<1>3. WalletDoc(tradeRequest[c].member) \in writeSet[c]
  BY <1>1, <1>2 DEF T!TradesOK, T!PlansOK, T!BuyFootprint, T!SellFootprint, T!Request,
     T!WalletDoc, WalletDoc
<1>4. /\ balance' \in [DOMAIN balance -> Int]
      /\ \A m \in DOMAIN balance : balance'[m] >= 0
  BY <1>1 DEF T!TradesOK, T!SchemasOK, T!NonNegative
<1>5. /\ writeSet' = [d \in Call |-> writeSet'[d]]
      /\ \A d \in Call : status[d] = "open" =>
           writeSet'[d] = writeSet[d] /\ (d \notin stale' => d \notin stale /\ writeSet[d] \cap writeSet[c] = {})
  BY <1>1, <1>2 DEF T!CommitTxn, T!Outdated
<1>6. \A m \in DOMAIN balance : balance'[m] = balance[m] \/ WalletDoc(m) \in writeSet[c]
  BY <1>1, <1>3
<1>7. UNCHANGED <<checkout, deposited, transactions, withdrawals, auditTrail, calls>>
  BY DEF walletVars
<1> QED
  BY <1>1, <1>4, <1>5, <1>6, <1>7, OtherServiceKeepsWallets

LEMMA TradingStepKeepsWallets ==
  ASSUME IInv, T!TradesOK, T!TradesOK', NEW c \in Call, status[c] = "idle",
         T!Receive(c) \/ T!CallStep(c) \/ T!Fail(c), UNCHANGED walletVars
  PROVE  IInv'
<1>1. writeSet = [d \in Call |-> writeSet[d]]
  BY DEF IInv
<1>2. CASE T!Receive(c) \/ T!Refuse(c)
  <2>1. UNCHANGED <<balance, writeSet, stale>>
    BY <1>2 DEF T!Receive, T!Refuse, T!books, T!sessionVars
  <2> QED
    BY <1>1, <2>1, QuietTradeKeepsWallets
<1>3. CASE T!OpenBuy(c) \/ T!OpenSell(c)
  <2>1. UNCHANGED balance /\ \E docs : T!OpenTxn(c, docs)
    BY <1>3 DEF T!OpenBuy, T!OpenSell, T!books
  <2> QED
    BY <1>1, <2>1, QuietTradeKeepsWallets DEF T!OpenTxn
<1>4. CASE T!Conflict(c) \/ T!Fail(c)
  <2>1. UNCHANGED balance /\ T!AbortTxn(c)
    BY <1>4 DEF T!Conflict, T!Fail, T!books
  <2> QED
    BY <1>1, <2>1, QuietTradeKeepsWallets DEF T!AbortTxn
<1>5. CASE T!CommitBuy(c) \/ T!CommitSell(c)
  BY <1>5, CommitTradeKeepsWallets
<1> QED
  BY <1>2, <1>3, <1>4, <1>5 DEF T!CallStep
-------------------------------------------------------------------------------
\* And Wallets keeps the invariant of Trading.
LEMMA OnWalletsTradesSurvive ==
  ASSUME T!TradesOK, IInv', UNCHANGED tradingVars, NEW docs,
         \A d \in Call : tradeStatus[d] = "open" =>
           writeSet'[d] = writeSet[d] /\ (d \notin stale' => d \notin stale /\ writeSet[d] \cap docs = {}),
         DOMAIN balance \subseteq DOMAIN balance',
         \A m \in DOMAIN balance : balance'[m] = balance[m] \/ WalletDoc(m) \in docs
  PROVE  T!TradesOK'
<1>1. (T!TradesOK <=> TP!TradesOK) /\ (T!TradesOK <=> TP!TradesOK)'
  BY SameInvariant, PTL
<1>2. UNCHANGED <<isActive, stock, buyOrders, sellOrders, TP!calls>>
  BY DEF tradingVars, TP!calls
<1>3. /\ DOMAIN balance' \subseteq Member /\ balance' \in [DOMAIN balance' -> Int]
      /\ \A m \in DOMAIN balance' : balance'[m] >= 0
      /\ writeSet' = [d \in Call |-> writeSet'[d]]
  BY DEF IInv, TypeOK, NonNegative
<1>4. \A m \in DOMAIN balance : balance'[m] = balance[m] \/ TP!WalletDoc(m) \in docs
  BY DEF TP!WalletDoc, WalletDoc
<1>5. TP!TradesOK
  BY <1>1
<1>6. TP!TradesOK'
  BY <1>2, <1>3, <1>4, <1>5, TP!OtherServiceKeepsTrades, TradingConstants, NothingToStartWith
<1> QED
  BY <1>1, <1>6

LEMMA QuietWalletStepKeepsTrades ==
  ASSUME T!TradesOK, IInv', UNCHANGED <<tradingVars, balance>>, NEW c, tradeStatus[c] # "open",
         \A d \in Call \ {c} : writeSet'[d] = writeSet[d] /\ (d \in stale' <=> d \in stale)
  PROVE  T!TradesOK'
<1>1. \A d \in Call : tradeStatus[d] = "open" =>
        writeSet'[d] = writeSet[d] /\ (d \notin stale' => d \notin stale /\ writeSet[d] \cap {} = {})
  OBVIOUS
<1> QED
  BY <1>1, OnWalletsTradesSurvive

LEMMA CommitWalletKeepsTrades ==
  ASSUME IInv, T!TradesOK, IInv', UNCHANGED tradingVars, NEW c \in Call, tradeStatus[c] # "open",
         status[c] = "open", CommitTxn(c),
         \/ UNCHANGED balance
         \/ MovesMoney(c) /\ balance' = With(balance, plan[c].member, plan[c].after)
  PROVE  T!TradesOK'
<1>1. \A d \in Call : tradeStatus[d] = "open" =>
        writeSet'[d] = writeSet[d] /\ (d \notin stale' => d \notin stale /\ writeSet[d] \cap writeSet[c] = {})
  BY DEF CommitTxn, Outdated, IInv
<1>2. CASE UNCHANGED balance
  BY <1>1, <1>2, OnWalletsTradesSurvive
<1>3. CASE MovesMoney(c) /\ balance' = With(balance, plan[c].member, plan[c].after)
  <2>1. job[c].op \in {"deposit", "review", "adjust"} /\ PlanOK(c)
        /\ (job[c].op = "review" => job[c].verdict = "approved")
    BY <1>3, OpenCallOK, JobFields DEF IInv, PlansOK, MovesMoney
  <2>2. WalletDoc(plan[c].member) \in writeSet[c]
    BY <2>1 DEF PlanOK, DepositFootprint, ApproveFootprint, AdjustFootprint
  <2>3. /\ DOMAIN balance \subseteq DOMAIN balance'
        /\ \A m \in DOMAIN balance : balance'[m] = balance[m] \/ WalletDoc(m) \in writeSet[c]
    BY <1>3, <2>2 DEF With
  <2> QED
    BY <1>1, <2>3, OnWalletsTradesSurvive
<1> QED
  BY <1>2, <1>3

LEMMA WalletCallStepKeepsTrades ==
  ASSUME IInv, T!TradesOK, IInv', UNCHANGED tradingVars, NEW c \in Call, tradeStatus[c] # "open",
         CallStep(c) \/ Fail(c)
  PROVE  T!TradesOK'
<1>1. writeSet = [d \in Call |-> writeSet[d]]
  BY DEF IInv
<1>2. CASE DepositStep(c)
  <2>1. CASE BeginDeposit(c)
    BY <1>1, <2>1, QuietWalletStepKeepsTrades DEF BeginDeposit, Open, OpenTxn, money
  <2>2. CASE CommitDeposit(c)
    <3>1. status[c] = "open" /\ CommitTxn(c) /\ MovesMoney(c)
          /\ balance' = With(balance, plan[c].member, plan[c].after)
      BY <2>2 DEF CommitDeposit, Commit, WriteWallet, MovesMoney
    <3> QED
      BY <3>1, CommitWalletKeepsTrades
  <2>3. CASE AlreadyCredited(c) \/ AnswerDeposit(c)
    BY <1>1, <2>3, QuietWalletStepKeepsTrades DEF AlreadyCredited, AnswerDeposit, money, sessionVars
  <2> QED
    BY <1>2, <2>1, <2>2, <2>3 DEF DepositStep
<1>3. CASE WithdrawalStep(c)
  <2>1. UNCHANGED <<balance, writeSet, stale>>
    BY <1>3 DEF WithdrawalStep, ReadWallet, CheckPending, CreateRequest, money, sessionVars
  <2> QED
    BY <1>1, <2>1, QuietWalletStepKeepsTrades
<1>4. CASE ReviewStep(c)
  <2>1. CASE BeginApprove(c) \/ BeginReject(c)
    <3>1. UNCHANGED balance /\ (UNCHANGED sessionVars \/ \E docs : OpenTxn(c, docs))
      BY <2>1 DEF BeginApprove, BeginReject, Open, Refuse, money
    <3> QED
      BY <1>1, <3>1, QuietWalletStepKeepsTrades DEF OpenTxn, sessionVars
  <2>2. CASE CommitApprove(c)
    <3>1. status[c] = "open" /\ CommitTxn(c) /\ MovesMoney(c)
          /\ balance' = With(balance, plan[c].member, plan[c].after)
      BY <2>2 DEF CommitApprove, Commit, WriteWallet, MovesMoney, ReviewOf
    <3> QED
      BY <3>1, CommitWalletKeepsTrades
  <2>3. CASE CommitReject(c)
    <3>1. status[c] = "open" /\ CommitTxn(c) /\ UNCHANGED balance
      BY <2>3 DEF CommitReject, Commit
    <3> QED
      BY <3>1, CommitWalletKeepsTrades
  <2>4. CASE AnswerReview(c)
    BY <1>1, <2>4, QuietWalletStepKeepsTrades DEF AnswerReview, money, sessionVars
  <2> QED
    BY <1>4, <2>1, <2>2, <2>3, <2>4 DEF ReviewStep
<1>5. CASE AdjustStep(c)
  <2>1. CASE BeginAdjust(c)
    <3>1. UNCHANGED balance /\ (UNCHANGED sessionVars \/ \E docs : OpenTxn(c, docs))
      BY <2>1 DEF BeginAdjust, Open, Refuse, money
    <3> QED
      BY <1>1, <3>1, QuietWalletStepKeepsTrades DEF OpenTxn, sessionVars
  <2>2. CASE CommitAdjust(c)
    <3>1. status[c] = "open" /\ CommitTxn(c) /\ MovesMoney(c)
          /\ balance' = With(balance, plan[c].member, plan[c].after)
      BY <2>2 DEF CommitAdjust, Commit, WriteWallet, MovesMoney
    <3> QED
      BY <3>1, CommitWalletKeepsTrades
  <2>3. CASE AnswerAdjust(c)
    BY <1>1, <2>3, QuietWalletStepKeepsTrades DEF AnswerAdjust, money, sessionVars
  <2> QED
    BY <1>5, <2>1, <2>2, <2>3 DEF AdjustStep
<1>6. CASE Conflict(c) \/ Fail(c)
  BY <1>1, <1>6, QuietWalletStepKeepsTrades DEF Conflict, Fail, AbortTxn, money
<1> QED
  BY <1>2, <1>3, <1>4, <1>5, <1>6 DEF CallStep
-------------------------------------------------------------------------------
\* The steps of a call move no other call.
LEMMA OneCallMoves ==
  ASSUME TypeOK, NEW c \in Call, CallStep(c) \/ Fail(c)
  PROVE  status[c] # "idle" /\ \A d \in Call \ {c} : status'[d] = status[d]
<1>1. status = [d \in Call |-> status[d]]
  BY DEF TypeOK
<1>2. CASE DepositStep(c)
  BY <1>1, <1>2 DEF DepositStep, BeginDeposit, AlreadyCredited, CommitDeposit, AnswerDeposit,
     Open, Commit, Acknowledge, Goto
<1>3. CASE WithdrawalStep(c)
  <2>1. PICK st : status' = [status EXCEPT ![c] = st]
    BY <1>3 DEF WithdrawalStep, ReadWallet, CheckPending, CreateRequest, Goto
  <2>2. status[c] # "idle"
    BY <1>3 DEF WithdrawalStep, ReadWallet, CheckPending, CreateRequest, WithdrawStep
  <2> QED
    BY <1>1, <2>1, <2>2
<1>4. CASE ReviewStep(c)
  BY <1>1, <1>4 DEF ReviewStep, BeginApprove, BeginReject, CommitApprove, CommitReject,
     AnswerReview, ReviewOf, Open, Refuse, Commit, Goto
<1>5. CASE AdjustStep(c)
  BY <1>1, <1>5 DEF AdjustStep, BeginAdjust, CommitAdjust, AnswerAdjust, Open, Refuse, Commit, Goto
<1>6. CASE Conflict(c) \/ Fail(c)
  BY <1>1, <1>6 DEF Conflict, Fail, InFlight, Goto
<1> QED
  BY <1>2, <1>3, <1>4, <1>5, <1>6 DEF CallStep

LEMMA WalletStepKeepsPlatform ==
  ASSUME PlatformInv, WalletStep  PROVE PlatformInv'
<1>1. IInv /\ T!TradesOK /\ SlotsOK /\ UNCHANGED tradingVars
  BY DEF PlatformInv, WalletStep
<1>2. IInv'
  BY <1>1, NextKeepsIInv DEF WalletStep, Next
<1>3. CASE \E s \in Session : OpenCheckout(s) \/ Pay(s)
  <2>1. UNCHANGED <<balance, writeSet, stale, status>>
    BY <1>3 DEF OpenCheckout, Pay, money, calls, sessionVars
  <2>2. \A d \in Call : tradeStatus[d] = "open" =>
          writeSet'[d] = writeSet[d] /\ (d \notin stale' => d \notin stale /\ writeSet[d] \cap {} = {})
    BY <2>1
  <2>3. T!TradesOK'
    BY <1>1, <1>2, <2>1, <2>2, OnWalletsTradesSurvive
  <2> QED
    BY <1>1, <1>2, <2>1, <2>3 DEF PlatformInv, SlotsOK, tradingVars
<1>4. CASE \E c \in Call : tradeStatus[c] = "new" /\ (Submit(c) \/ \E s \in Session : Deliver(c, s))
  <2>1. PICK c \in Call : tradeStatus[c] = "new" /\ (Submit(c) \/ \E s \in Session : Deliver(c, s))
    BY <1>4
  <2>2. UNCHANGED <<balance, writeSet, stale>> /\ status' = [status EXCEPT ![c] = "received"]
    BY <2>1 DEF Submit, Deliver, Goto, money, sessionVars
  <2>3. T!TradesOK'
    BY <1>1, <1>2, <2>1, <2>2, QuietWalletStepKeepsTrades
  <2>4. SlotsOK'
    BY <1>1, <2>1, <2>2 DEF SlotsOK, IInv, TypeOK, tradingVars
  <2> QED
    BY <1>2, <2>3, <2>4 DEF PlatformInv
<1>5. CASE \E c \in Call : CallStep(c) \/ Fail(c)
  <2>1. PICK c \in Call : CallStep(c) \/ Fail(c)
    BY <1>5
  <2>2. status[c] # "idle" /\ \A d \in Call \ {c} : status'[d] = status[d]
    BY <1>1, <2>1, OneCallMoves DEF IInv
  <2>3. tradeStatus[c] = "new"
    BY <1>1, <2>2 DEF SlotsOK
  <2>4. T!TradesOK'
    BY <1>1, <1>2, <2>1, <2>3, WalletCallStepKeepsTrades
  <2>5. SlotsOK'
    BY <1>1, <2>2, <2>3 DEF SlotsOK, tradingVars
  <2> QED
    BY <1>2, <2>4, <2>5 DEF PlatformInv
<1>6. \A c \in Delivery : tradeStatus[c] = "new" /\ c \in Call
  BY <1>1, DeliveriesAreCalls DEF SlotsOK
<1> QED
  BY <1>3, <1>4, <1>5, <1>6 DEF WalletStep

LEMMA TradingStepKeepsPlatform ==
  ASSUME PlatformInv, TradingStep  PROVE PlatformInv'
<1>1. IInv /\ T!TradesOK /\ SlotsOK /\ UNCHANGED walletVars
  BY DEF PlatformInv, TradingStep
<1>2. PICK c \in Call \ Delivery : \/ status[c] = "idle" /\ T!Receive(c)
                                   \/ T!CallStep(c) \/ T!Fail(c)
  BY DEF TradingStep
<1>3. status[c] = "idle"
  <2>1. CASE T!Refuse(c) \/ T!OpenBuy(c) \/ T!OpenSell(c) \/ T!CommitBuy(c) \/ T!CommitSell(c)
             \/ T!Conflict(c) \/ T!Fail(c)
    <3>1. tradeStatus[c] # "new"
      BY <2>1 DEF T!Refuse, T!OpenBuy, T!OpenSell, T!CommitBuy, T!CommitSell, T!Conflict, T!Fail
    <3> QED
      BY <1>1, <3>1 DEF SlotsOK
  <2> QED
    BY <1>2, <2>1 DEF T!CallStep
<1>4. T!TradesOK'
  BY <1>1, <1>2, TradingStepKeepsTrades
<1>5. IInv'
  BY <1>1, <1>2, <1>3, <1>4, TradingStepKeepsWallets
<1>6. tradeStatus = [d \in Call |-> tradeStatus[d]]
  BY <1>1 DEF T!TradesOK, T!SchemasOK
<1>7. \A d \in Call \ {c} : tradeStatus'[d] = tradeStatus[d]
  BY <1>2, <1>6 DEF T!CallStep, T!Receive, T!Refuse, T!OpenBuy, T!OpenSell, T!CommitBuy,
     T!CommitSell, T!Conflict, T!Fail
<1>8. SlotsOK'
  BY <1>1, <1>2, <1>3, <1>7 DEF SlotsOK, walletVars, calls
<1> QED
  BY <1>4, <1>5, <1>8 DEF PlatformInv

LEMMA InitPlatformInv == PlatformInit => PlatformInv
<1> SUFFICES ASSUME PlatformInit PROVE PlatformInv
  OBVIOUS
<1>1. IInv
  BY InitIInv DEF PlatformInit
<1>2. TP!IInv
  BY SameInit, TP!InitIInv, TradingConstants, NothingToStartWith DEF PlatformInit
<1>3. T!TradesOK
  BY <1>2, SameInvariant DEF TP!IInv
<1>4. SlotsOK
  BY DEF PlatformInit, T!Init, SlotsOK
<1> QED
  BY <1>1, <1>3, <1>4 DEF PlatformInv

LEMMA NextKeepsPlatformInv ==
  PlatformInv /\ [PlatformNext]_platformVars => PlatformInv'
<1> SUFFICES ASSUME PlatformInv, [PlatformNext]_platformVars PROVE PlatformInv'
  OBVIOUS
<1>1. CASE UNCHANGED platformVars
  <2>1. UNCHANGED vars /\ UNCHANGED tradingVars
    BY <1>1 DEF platformVars, walletVars, vars, money, calls
  <2>2. IInv'
    BY <2>1, NextKeepsIInv DEF PlatformInv
  <2>3. UNCHANGED <<balance, writeSet, stale, status>>
    BY <2>1 DEF vars, money, calls, sessionVars
  <2>4. \A d \in Call : tradeStatus[d] = "open" =>
          writeSet'[d] = writeSet[d] /\ (d \notin stale' => d \notin stale /\ writeSet[d] \cap {} = {})
    BY <2>3
  <2>5. T!TradesOK'
    BY <2>1, <2>2, <2>3, <2>4, OnWalletsTradesSurvive DEF PlatformInv
  <2> QED
    BY <2>1, <2>2, <2>3, <2>5 DEF PlatformInv, SlotsOK, tradingVars
<1> QED
  BY <1>1, WalletStepKeepsPlatform, TradingStepKeepsPlatform DEF PlatformNext

\* The two services keep each other's invariant: on wallets that both write,
\* the conflict on the wallet document is all they need.
THEOREM PlatformInvariant == PlatformSpec => []PlatformInv
BY InitPlatformInv, NextKeepsPlatformInv, PTL DEF PlatformSpec
-------------------------------------------------------------------------------
(***************************************************************************)
(* What a step posts to the account.                                       *)
(***************************************************************************)
\* A new entry of one of the collections is a new entry of the account.
LEMMA LedgerEntryIsPosted ==
  ASSUME NEW f, NEW g, NEW x, NEW e, x \notin DOMAIN g
  PROVE  Together(With(f, x, e), g) = With(Together(f, g), x, e)
BY DEF Together, With

LEMMA TradeEntryIsPosted ==
  ASSUME NEW f, NEW g, NEW x, NEW e, x \notin DOMAIN f
  PROVE  Together(f, With(g, x, e)) = With(Together(f, g), x, e)
BY DEF Together, With

LEMMA TradeRefsDiffer ==
  ASSUME NEW x, NEW y
  PROVE  /\ BuyRef(x) = BuyRef(y) => x = y
         /\ SellRef(x) = SellRef(y) => x = y
         /\ BuyRef(x) # SellRef(y)
         /\ BuyRef(x) \notin Reference /\ SellRef(x) \notin Reference
BY DEF BuyRef, SellRef, Reference

\* The entries of the orders, one by one.
LEMMA TradeEntryOf ==
  /\ TradeEntries = [ref \in DOMAIN TradeEntries |-> TradeEntries[ref]]
  /\ DOMAIN TradeEntries = {BuyRef(o) : o \in DOMAIN buyOrders} \cup {SellRef(o) : o \in DOMAIN sellOrders}
  /\ \A o \in DOMAIN buyOrders : TradeEntries[BuyRef(o)] = BuyEntry(buyOrders[o])
  /\ \A o \in DOMAIN sellOrders :
       TradeEntries[SellRef(o)] = SaleEntry(sellOrders[o], buyOrders[sellOrders[o].order])
BY DEF TradeEntries, BuyRef, SellRef

LEMMA TradeEntryOfNext ==
  /\ TradeEntries' = [ref \in DOMAIN TradeEntries' |-> TradeEntries'[ref]]
  /\ DOMAIN TradeEntries' = {BuyRef(o) : o \in DOMAIN buyOrders'} \cup {SellRef(o) : o \in DOMAIN sellOrders'}
  /\ \A o \in DOMAIN buyOrders' : TradeEntries'[BuyRef(o)] = BuyEntry(buyOrders'[o])
  /\ \A o \in DOMAIN sellOrders' :
       TradeEntries'[SellRef(o)] = SaleEntry(sellOrders'[o], buyOrders'[sellOrders'[o].order])
BY DEF TradeEntries, BuyRef, SellRef, BuyEntry, SaleEntry

\* A posted entry is a step of the account.
LEMMA PostIsAccountStep ==
  ASSUME NEW ref \in Reference \cup {"buy_order", "sell_order"} \X Call, NEW m \in Member,
         NEW d \in Moves \cup {-x : x \in Moves}, ref \notin DOMAIN Entries,
         BalanceOf(m)' = BalanceOf(m) + d, BalanceOf(m) + d >= 0,
         \A x \in Member \ {m} : BalanceOf(x)' = BalanceOf(x),
         Entries' = With(Entries, ref, [member |-> m, delta |-> d])
  PROVE  PlatformAccounts!Next
<1> DEFINE b == [x \in Member |-> BalanceOf(x)]
<1>1. b' = [b EXCEPT ![m] = @ + d]
  OBVIOUS
<1>2. b[m] + d >= 0
  OBVIOUS
<1>3. Entries' = PlatformAccounts!With(Entries, ref, [member |-> m, delta |-> d])
  BY DEF With, PlatformAccounts!With
<1>4. PlatformAccounts!Post(ref, m, d)
  BY <1>1, <1>2, <1>3 DEF PlatformAccounts!Post
<1> QED
  BY <1>4 DEF PlatformAccounts!Next

LEMMA RecordIsEntry ==
  ASSUME NEW ref, NEW rec, transactions' = With(transactions, ref, rec)
  PROVE  LedgerEntries' = With(LedgerEntries, ref, [member |-> rec.member, delta |-> Signed(rec)])
<1>1. /\ DOMAIN transactions' = DOMAIN transactions \cup {ref} /\ transactions'[ref] = rec
      /\ \A x \in DOMAIN transactions : x # ref => transactions'[x] = transactions[x]
  BY DEF With
<1>2. /\ LedgerEntries = [x \in DOMAIN transactions |-> LedgerEntries[x]]
      /\ \A x \in DOMAIN transactions : LedgerEntries[x] =
           [member |-> transactions[x].member, delta |-> Signed(transactions[x])]
  BY DEF LedgerEntries
<1>3. /\ LedgerEntries' = [x \in DOMAIN transactions' |-> LedgerEntries'[x]]
      /\ \A x \in DOMAIN transactions' : LedgerEntries'[x] =
           [member |-> transactions'[x].member, delta |-> Signed(transactions'[x])]
  BY DEF LedgerEntries, Signed
<1>4. LedgerEntries'[ref] = [member |-> rec.member, delta |-> Signed(rec)]
  BY <1>1, <1>3
<1>5. \A x \in DOMAIN transactions : x # ref => LedgerEntries'[x] = LedgerEntries[x]
  BY <1>1, <1>2, <1>3
<1> QED
  BY <1>1, <1>2, <1>3, <1>4, <1>5 DEF With

\* A commit that moves money posts its record.
LEMMA RecordIsPosted ==
  ASSUME PlatformInv, UNCHANGED tradingVars, NEW c \in Call, status[c] = "open", c \notin stale,
         MovesMoney(c), WriteWallet(c, TRUE) \/ WriteWallet(c, FALSE),
         NEW ref \in Reference, ref \notin DOMAIN transactions, NEW rec,
         rec.member = plan[c].member, Signed(rec) = plan[c].delta,
         plan[c].delta \in Amount \cup {-a : a \in Amount},
         transactions' = With(transactions, ref, rec)
  PROVE  PlatformAccounts!Next
<1>1. PICK m \in Member, d \in Amount \cup {-a : a \in Amount} :
        m = plan[c].member /\ d = plan[c].delta
  BY OpenCallOK DEF PlatformInv, IInv
<1>2. plan[c].after = BalanceOf(m) + d /\ BalanceOf(m) + d >= 0
  BY <1>1 DEF PlatformInv, IInv, SnapshotFresh, Fresh
<1>3. balance' = With(balance, m, plan[c].after)
  BY <1>1 DEF WriteWallet
<1>4. /\ DOMAIN balance' = DOMAIN balance \cup {m} /\ balance'[m] = plan[c].after
      /\ \A x \in DOMAIN balance : x # m => balance'[x] = balance[x]
  BY <1>3 DEF With
<1>5. /\ BalanceOf(m)' = BalanceOf(m) + d
      /\ \A x \in Member \ {m} : BalanceOf(x)' = BalanceOf(x)
  BY <1>2, <1>4 DEF BalanceOf
<1>6. TradeEntries' = TradeEntries /\ ref \notin DOMAIN TradeEntries
  BY TradeEntryOf, TradeRefsDiffer DEF tradingVars, TradeEntries
<1>7. LedgerEntries' = With(LedgerEntries, ref, [member |-> m, delta |-> d])
  BY <1>1, RecordIsEntry
<1>8. ref \notin DOMAIN Entries /\ Entries' = With(Entries, ref, [member |-> m, delta |-> d])
  <2>1. Entries' = Together(LedgerEntries', TradeEntries')
    BY DEF Entries, Together
  <2>2. Together(With(LedgerEntries, ref, [member |-> m, delta |-> d]), TradeEntries)
          = With(Entries, ref, [member |-> m, delta |-> d])
    BY <1>6, LedgerEntryIsPosted DEF Entries
  <2>3. ref \notin DOMAIN Entries
    BY <1>6 DEF Entries, Together, LedgerEntries
  <2> QED
    BY <1>6, <1>7, <2>1, <2>2, <2>3
<1>9. d \in Moves \cup {-x : x \in Moves}
  BY DEF Moves
<1> QED
  BY <1>2, <1>5, <1>8, <1>9, PostIsAccountStep

\* The three commits of Wallets that move money.
LEMMA CommitDepositPosts ==
  ASSUME PlatformInv, UNCHANGED tradingVars, NEW c \in Call, CommitDeposit(c)
  PROVE  PlatformAccounts!Next
<1> DEFINE s == job[c].session
           ref == SessionRef(s)
           rec == [member |-> plan[c].member, type |-> "deposit", amount |-> plan[c].delta]
<1>1. /\ status[c] = "open" /\ c \notin stale /\ job[c].op = "deposit" /\ MovesMoney(c)
      /\ WriteWallet(c, TRUE) /\ transactions' = With(transactions, ref, rec)
  BY DEF CommitDeposit, Commit, CommitTxn, Record, MovesMoney
<1>2. /\ job[c] \in Job /\ PlanOK(c) /\ Completed(s) /\ ref \notin DOMAIN transactions
  BY <1>1, OpenCallOK DEF PlatformInv, IInv, PlansOK, JobsOK, SnapshotFresh, Fresh, Credited
<1>3. s \in Session /\ ref \in Reference
  BY <1>1, <1>2, JobFields, ReferencesDiffer
<1>4. plan[c].delta \in Amount
  BY <1>1, <1>2, <1>3 DEF PlanOK, Completed, PlatformInv, IInv, TypeOK
<1>5. rec.member = plan[c].member /\ Signed(rec) = plan[c].delta
  BY DEF Signed
<1> HIDE DEF s, ref, rec
<1> QED
  BY <1>1, <1>2, <1>3, <1>4, <1>5, RecordIsPosted

LEMMA CommitApprovePosts ==
  ASSUME PlatformInv, UNCHANGED tradingVars, NEW c \in Call, CommitApprove(c)
  PROVE  PlatformAccounts!Next
<1> DEFINE w == job[c].request
           ref == WithdrawalRef(w)
           rec == [member |-> plan[c].member, type |-> "withdrawal", amount |-> -plan[c].delta]
<1>1. /\ status[c] = "open" /\ c \notin stale /\ job[c].op = "review"
      /\ job[c].verdict = "approved" /\ MovesMoney(c)
      /\ WriteWallet(c, FALSE) /\ transactions' = With(transactions, ref, rec)
  BY DEF CommitApprove, ReviewOf, Commit, CommitTxn, Record, MovesMoney
<1>2. /\ job[c] \in Job /\ PlanOK(c) /\ IsPending(w) /\ plan[c].delta \in Int
  BY <1>1, OpenCallOK DEF PlatformInv, IInv, PlansOK, SnapshotFresh, Fresh
<1>3. w \in DOMAIN withdrawals /\ withdrawals[w].state = "pending"
  BY <1>2 DEF IsPending
<1>4. ref \in Reference /\ ref \notin DOMAIN transactions
  BY <1>3, RequestFields, ReferencesDiffer DEF PlatformInv, IInv, PaidIffApproved
<1>5. plan[c].delta \in {-a : a \in Amount}
  BY <1>1, <1>2, <1>3, RequestFields DEF PlanOK, PlatformInv, IInv
<1>6. rec.member = plan[c].member /\ Signed(rec) = plan[c].delta
  BY <1>2 DEF Signed
<1> HIDE DEF w, ref, rec
<1> QED
  BY <1>1, <1>4, <1>5, <1>6, RecordIsPosted

LEMMA CommitAdjustPosts ==
  ASSUME PlatformInv, UNCHANGED tradingVars, NEW c \in Call, CommitAdjust(c)
  PROVE  PlatformAccounts!Next
<1> DEFINE j == job[c]
           ref == ManualRef(c)
           rec == [member |-> plan[c].member,
                   type |-> IF j.direction = "credit" THEN "manual_credit" ELSE "manual_debit",
                   amount |-> j.amount]
<1>1. /\ status[c] = "open" /\ c \notin stale /\ j.op = "adjust" /\ MovesMoney(c)
      /\ WriteWallet(c, FALSE) /\ transactions' = With(transactions, ref, rec)
  BY DEF CommitAdjust, Commit, CommitTxn, Record, MovesMoney
<1>2. /\ j \in Job /\ PlanOK(c)
  BY <1>1, OpenCallOK DEF PlatformInv, IInv, PlansOK
<1>3. j.amount \in Amount /\ j.amount \in Int /\ j.direction \in {"credit", "debit"}
  <2>1. job[c].amount \in Amount /\ job[c].direction \in {"credit", "debit"}
    BY <1>1, <1>2, JobFields
  <2>2. \A a \in Amount : a \in Int
    BY AmountsArePositive
  <2> QED
    BY <2>1, <2>2
<1>4. ref \in Reference /\ ref \notin DOMAIN transactions
  BY <1>1, ReferencesDiffer DEF PlatformInv, IInv, RecordsOK
<1>5. plan[c].delta = IF j.direction = "credit" THEN j.amount ELSE -j.amount
  BY <1>1, <1>2 DEF PlanOK
<1>6. rec.member = plan[c].member /\ Signed(rec) = plan[c].delta
  BY <1>3, <1>5 DEF Signed
<1>7. plan[c].delta \in Amount \cup {-a : a \in Amount}
  BY <1>3, <1>5
<1> HIDE DEF j, ref, rec
<1> QED
  BY <1>1, <1>4, <1>6, <1>7, RecordIsPosted

\* A trade that commits posts its order.
LEMMA TradeIsPosted ==
  ASSUME PlatformInv, UNCHANGED walletVars, NEW o \in Call, NEW ref \in {BuyRef(o), SellRef(o)},
         NEW m \in Member, NEW d \in Moves \cup {-x : x \in Moves}, ref \notin DOMAIN TradeEntries,
         TradeEntries' = With(TradeEntries, ref, [member |-> m, delta |-> d]),
         m \in DOMAIN balance, balance[m] \in Int, balance' = [balance EXCEPT ![m] = @ + d],
         balance'[m] >= 0
  PROVE  PlatformAccounts!Next
<1>1. ref \in {"buy_order", "sell_order"} \X Call
  BY DEF BuyRef, SellRef
<1>2. LedgerEntries' = LedgerEntries
  BY DEF LedgerEntries, Signed, walletVars
<1>3. ref \notin DOMAIN LedgerEntries
  BY TradeRefsDiffer DEF PlatformInv, IInv, TypeOK, LedgerEntries
<1>4. Entries' = With(Entries, ref, [member |-> m, delta |-> d])
  <2>1. Entries' = Together(LedgerEntries', TradeEntries')
    BY DEF Entries, Together
  <2>2. Together(LedgerEntries, With(TradeEntries, ref, [member |-> m, delta |-> d]))
          = With(Entries, ref, [member |-> m, delta |-> d])
    BY <1>3, TradeEntryIsPosted DEF Entries
  <2> QED
    BY <1>2, <2>1, <2>2
<1>5. ref \notin DOMAIN Entries
  BY <1>3 DEF Entries, Together
<1>6. /\ BalanceOf(m)' = BalanceOf(m) + d /\ BalanceOf(m) + d >= 0
      /\ \A x \in Member \ {m} : BalanceOf(x)' = BalanceOf(x)
  BY DEF BalanceOf
<1> QED
  BY <1>1, <1>4, <1>5, <1>6, PostIsAccountStep

\* A new entry of TradeEntries, the others being as they were.
LEMMA TradeEntryAdded ==
  ASSUME NEW ref, NEW e, ref \notin DOMAIN TradeEntries,
         DOMAIN TradeEntries' = DOMAIN TradeEntries \cup {ref}, TradeEntries'[ref] = e,
         \A x \in DOMAIN TradeEntries : TradeEntries'[x] = TradeEntries[x]
  PROVE  TradeEntries' = With(TradeEntries, ref, e)
BY TradeEntryOfNext DEF With

LEMMA ProceedsAreAmounts == \A x \in Proceeds : x \in Int /\ x >= 0
<1> SUFFICES ASSUME NEW p \in Price, NEW n \in T!Share
             PROVE  Cost(p, n) \in Int /\ Cost(p, n) >= 0
  BY DEF Proceeds
<1>1. p \in Nat /\ n \in Nat
  BY TradingConstants DEF T!Share
<1> QED
  BY <1>1 DEF Cost

LEMMA CommitBuyPosts ==
  ASSUME PlatformInv, UNCHANGED walletVars, NEW c \in Call, T!CommitBuy(c)
  PROVE  PlatformAccounts!Next
<1> DEFINE r == tradeRequest[c]
           p == tradePlan[c]
<1>1. /\ tradeStatus[c] = "open" /\ c \notin stale /\ r.op = "buy"
      /\ balance' = [balance EXCEPT ![r.member] = @ - Cost(p.price, p.shares)]
      /\ buyOrders' = With(buyOrders, c,
                        [owner |-> r.member, stock |-> p.stock, shares |-> p.shares,
                         available |-> p.shares, cost |-> p.price, closed |-> FALSE])
      /\ UNCHANGED sellOrders
  BY DEF T!CommitBuy, T!CommitTxn, T!Cost, Cost, T!With, With
<1>2. r \in T!Request /\ p \in T!Plan /\ T!Fresh(c)
  BY <1>1 DEF PlatformInv, T!TradesOK, T!SchemasOK, T!SnapshotFresh
<1>3. PICK m \in Member, x \in Proceeds : m = r.member /\ x = Cost(p.price, p.shares)
  <2>1. r.member \in Member /\ r.stock \in Stock /\ p.shares \in T!Share
    BY <1>1, <1>2 DEF T!Request, T!Plan
  <2>2. p.stock = r.stock
    BY <1>1 DEF PlatformInv, T!TradesOK, T!PlansOK
  <2>3. p.price = stock[p.stock].price
    BY <1>2 DEF T!Fresh
  <2>4. p.price \in Price
    BY <2>1, <2>2, <2>3 DEF PlatformInv, T!TradesOK, T!SchemasOK
  <2> QED
    BY <2>1, <2>4 DEF Proceeds
<1>4. x \in Int /\ x \in Moves
  BY ProceedsAreAmounts DEF Moves
<1>5. /\ m \in DOMAIN balance /\ balance[m] \in Int /\ balance[m] >= x
  BY <1>1, <1>2, <1>3 DEF T!Fresh, T!Cost, Cost, PlatformInv, T!TradesOK, T!SchemasOK
<1>6. balance' = [balance EXCEPT ![m] = @ - x]
  BY <1>1, <1>3
<1>7. balance' = [balance EXCEPT ![m] = @ + (-x)] /\ balance'[m] >= 0
  <2>1. balance[m] - x = balance[m] + (-x) /\ balance[m] - x >= 0
    BY <1>4, <1>5
  <2> QED
    BY <1>5, <1>6, <2>1
<1>8. c \notin DOMAIN buyOrders
  BY <1>1 DEF PlatformInv, T!TradesOK, T!OrderIdsOK
<1>9. BuyRef(c) \notin DOMAIN TradeEntries
  BY <1>8, TradeEntryOf, TradeRefsDiffer
<1>10. TradeEntries' = With(TradeEntries, BuyRef(c), [member |-> m, delta |-> -x])
  <2>1. /\ DOMAIN buyOrders' = DOMAIN buyOrders \cup {c}
        /\ \A o \in DOMAIN buyOrders : buyOrders'[o] = buyOrders[o]
        /\ buyOrders'[c].owner = m /\ Cost(buyOrders'[c].cost, buyOrders'[c].shares) = x
    BY <1>1, <1>3, <1>8 DEF With
  <2>2. \A o \in DOMAIN sellOrders : sellOrders[o].order \in DOMAIN buyOrders
    BY DEF PlatformInv, T!TradesOK, T!OrderIdsOK
  <2>3. DOMAIN TradeEntries' = DOMAIN TradeEntries \cup {BuyRef(c)}
    BY <1>1, <2>1, TradeEntryOf, TradeEntryOfNext
  <2>4. TradeEntries'[BuyRef(c)] = [member |-> m, delta |-> -x]
    BY <2>1, TradeEntryOfNext DEF BuyEntry
  <2>5. \A o \in DOMAIN buyOrders : TradeEntries'[BuyRef(o)] = TradeEntries[BuyRef(o)]
    BY <2>1, TradeEntryOf, TradeEntryOfNext
  <2>6. \A o \in DOMAIN sellOrders : TradeEntries'[SellRef(o)] = TradeEntries[SellRef(o)]
    <3> SUFFICES ASSUME NEW o \in DOMAIN sellOrders
                 PROVE  TradeEntries'[SellRef(o)] = TradeEntries[SellRef(o)]
      OBVIOUS
    <3>1. sellOrders' = sellOrders
      BY <1>1
    <3>2. buyOrders'[sellOrders[o].order] = buyOrders[sellOrders[o].order]
      BY <2>1, <2>2
    <3> QED
      BY <3>1, <3>2, TradeEntryOf, TradeEntryOfNext
  <2>7. \A ref \in DOMAIN TradeEntries : TradeEntries'[ref] = TradeEntries[ref]
    BY <2>5, <2>6, TradeEntryOf
  <2> QED
    BY <1>9, <2>3, <2>4, <2>7, TradeEntryAdded
<1>11. -x \in Moves \cup {-y : y \in Moves}
  BY <1>4
<1> QED
  BY <1>5, <1>7, <1>9, <1>10, <1>11, TradeIsPosted

LEMMA CommitSellPosts ==
  ASSUME PlatformInv, UNCHANGED walletVars, NEW c \in Call, T!CommitSell(c)
  PROVE  PlatformAccounts!Next
<1> DEFINE r == tradeRequest[c]
           p == tradePlan[c]
           sale == [order |-> r.order, shares |-> p.shares, price |-> p.price]
<1>1. /\ tradeStatus[c] = "open" /\ c \notin stale /\ r.op = "sell"
      /\ balance' = [balance EXCEPT ![r.member] = @ + Cost(p.price, p.shares)]
      /\ buyOrders' = [buyOrders EXCEPT ![r.order] = T!AfterSale(@, p)]
      /\ sellOrders' = With(sellOrders, c, sale)
  BY DEF T!CommitSell, T!CommitTxn, T!Cost, Cost, T!With, With
<1>2. r \in T!Request /\ p \in T!Plan /\ T!Fresh(c)
  BY <1>1 DEF PlatformInv, T!TradesOK, T!SchemasOK, T!SnapshotFresh
<1>3. PICK o \in DOMAIN buyOrders : o = r.order /\ buyOrders[o].owner = r.member /\ p.stock = buyOrders[o].stock
  BY <1>1, <1>2 DEF T!Fresh, T!OwnOpenOrder
<1>4. buyOrders[o] \in T!BuyOrder
  BY DEF PlatformInv, T!TradesOK, T!SchemasOK
<1>5. PICK m \in Member, x \in Proceeds : m = r.member /\ x = Cost(p.price, p.shares)
  <2>1. r.member \in Member /\ p.stock \in Stock /\ p.shares \in T!Share
    BY <1>2, <1>3, <1>4 DEF T!Plan, T!BuyOrder
  <2>2. p.price = stock[p.stock].price
    BY <1>2 DEF T!Fresh
  <2>3. p.price \in Price
    BY <2>1, <2>2 DEF PlatformInv, T!TradesOK, T!SchemasOK
  <2> QED
    BY <2>1, <2>3 DEF Proceeds
<1>6. x \in Int /\ x >= 0 /\ x \in Moves
  BY ProceedsAreAmounts DEF Moves
<1>7. /\ m \in DOMAIN balance /\ balance[m] \in Int /\ balance[m] >= 0
  BY <1>2, <1>5 DEF T!Fresh, PlatformInv, T!TradesOK, T!SchemasOK, T!NonNegative
<1>8. balance' = [balance EXCEPT ![m] = @ + x]
  BY <1>1, <1>5
<1>9. balance'[m] >= 0
  <2>1. balance[m] + x >= 0
    BY <1>6, <1>7
  <2> QED
    BY <1>7, <1>8, <2>1
<1>10. c \notin DOMAIN sellOrders
  BY <1>1 DEF PlatformInv, T!TradesOK, T!OrderIdsOK
<1>11. SellRef(c) \notin DOMAIN TradeEntries
  BY <1>10, TradeEntryOf, TradeRefsDiffer
<1>12. TradeEntries' = With(TradeEntries, SellRef(c), [member |-> m, delta |-> x])
  <2>1. /\ DOMAIN sellOrders' = DOMAIN sellOrders \cup {c}
        /\ \A q \in DOMAIN sellOrders : sellOrders'[q] = sellOrders[q]
        /\ sellOrders'[c] = sale
    BY <1>1, <1>10 DEF With
  <2>2. /\ DOMAIN buyOrders' = DOMAIN buyOrders
        /\ buyOrders'[o] = T!AfterSale(buyOrders[o], p)
        /\ \A q \in DOMAIN buyOrders \ {o} : buyOrders'[q] = buyOrders[q]
    BY <1>1, <1>3
  <2>3. /\ buyOrders'[o].owner = buyOrders[o].owner /\ buyOrders'[o].cost = buyOrders[o].cost
        /\ buyOrders'[o].shares = buyOrders[o].shares
    BY <1>4, <2>2 DEF T!AfterSale, T!BuyOrder
  <2>4. \A q \in DOMAIN buyOrders : /\ BuyEntry(buyOrders'[q]) = BuyEntry(buyOrders[q])
                                    /\ buyOrders'[q].owner = buyOrders[q].owner
    BY <2>2, <2>3 DEF BuyEntry
  <2>5. DOMAIN TradeEntries' = DOMAIN TradeEntries \cup {SellRef(c)}
    BY <2>1, <2>2, TradeEntryOf, TradeEntryOfNext
  <2>6. TradeEntries'[SellRef(c)] = [member |-> m, delta |-> x]
    <3>1. /\ sellOrders'[c].order = o
          /\ Cost(sellOrders'[c].price, sellOrders'[c].shares) = x
      BY <1>3, <1>5, <2>1
    <3>2. buyOrders'[o].owner = m
      BY <1>3, <1>5, <2>3
    <3> QED
      BY <2>1, <3>1, <3>2, TradeEntryOfNext DEF SaleEntry
  <2>7. \A q \in DOMAIN buyOrders : TradeEntries'[BuyRef(q)] = TradeEntries[BuyRef(q)]
    BY <2>2, <2>4, TradeEntryOf, TradeEntryOfNext
  <2>8. \A q \in DOMAIN sellOrders : TradeEntries'[SellRef(q)] = TradeEntries[SellRef(q)]
    <3> SUFFICES ASSUME NEW q \in DOMAIN sellOrders
                 PROVE  TradeEntries'[SellRef(q)] = TradeEntries[SellRef(q)]
      OBVIOUS
    <3>1. sellOrders[q].order \in DOMAIN buyOrders
      BY DEF PlatformInv, T!TradesOK, T!OrderIdsOK
    <3>2. SaleEntry(sellOrders'[q], buyOrders'[sellOrders[q].order])
            = SaleEntry(sellOrders[q], buyOrders[sellOrders[q].order])
      BY <2>1, <2>4, <3>1 DEF SaleEntry
    <3> QED
      BY <2>1, <3>2, TradeEntryOf, TradeEntryOfNext
  <2>9. \A ref \in DOMAIN TradeEntries : TradeEntries'[ref] = TradeEntries[ref]
    BY <2>7, <2>8, TradeEntryOf
  <2> QED
    BY <1>11, <2>5, <2>6, <2>9, TradeEntryAdded
<1> QED
  BY <1>6, <1>7, <1>8, <1>9, <1>11, <1>12, TradeIsPosted
-------------------------------------------------------------------------------
\* Every other step leaves the account as it is.
LEMMA QuietStepIsStutter ==
  ASSUME UNCHANGED <<balance, transactions, buyOrders, sellOrders>>
  PROVE  UNCHANGED <<[m \in Member |-> BalanceOf(m)], Entries>>
<1>1. LedgerEntries' = LedgerEntries
  BY DEF LedgerEntries, Signed
<1>2. TradeEntries' = TradeEntries
  BY DEF TradeEntries, BuyEntry, SaleEntry, BuyRef, SellRef
<1>3. Entries' = Entries
  BY <1>1, <1>2 DEF Entries, Together
<1> QED
  BY <1>3 DEF BalanceOf

LEMMA StepIsAccountStep ==
  PlatformInv /\ [PlatformNext]_platformVars
    => [PlatformAccounts!Next]_<<[m \in Member |-> BalanceOf(m)], Entries>>
<1> SUFFICES ASSUME PlatformInv, [PlatformNext]_platformVars
             PROVE  PlatformAccounts!Next \/ UNCHANGED <<balance, transactions, buyOrders, sellOrders>>
  BY QuietStepIsStutter
<1>1. CASE WalletStep
  <2>1. UNCHANGED tradingVars /\ UNCHANGED <<buyOrders, sellOrders>>
    BY <1>1 DEF WalletStep, tradingVars
  <2>2. CASE \/ \E s \in Session : OpenCheckout(s) \/ Pay(s) \/ \E c \in Delivery : Deliver(c, s)
             \/ \E c \in Call : Submit(c) \/ Fail(c) \/ Conflict(c)
    BY <2>1, <2>2 DEF OpenCheckout, Pay, Deliver, Submit, Fail, Conflict, money
  <2>3. CASE \E c \in Call : DepositStep(c)
    BY <2>1, <2>3, CommitDepositPosts DEF DepositStep, BeginDeposit, AlreadyCredited, AnswerDeposit,
       Open, money
  <2>4. CASE \E c \in Call : WithdrawalStep(c)
    BY <2>1, <2>4 DEF WithdrawalStep, ReadWallet, CheckPending, CreateRequest, money
  <2>5. CASE \E c \in Call : ReviewStep(c)
    BY <2>1, <2>5, CommitApprovePosts DEF ReviewStep, BeginApprove, BeginReject, CommitReject,
       AnswerReview, Open, Refuse, money
  <2>6. CASE \E c \in Call : AdjustStep(c)
    BY <2>1, <2>6, CommitAdjustPosts DEF AdjustStep, BeginAdjust, AnswerAdjust, Open, Refuse, money
  <2> QED
    BY <1>1, <2>2, <2>3, <2>4, <2>5, <2>6 DEF WalletStep, CallStep
<1>2. CASE TradingStep
  <2>1. PICK c \in Call : T!Receive(c) \/ T!CallStep(c) \/ T!Fail(c)
    BY <1>2 DEF TradingStep
  <2>2. UNCHANGED walletVars /\ UNCHANGED transactions
    BY <1>2 DEF TradingStep, walletVars
  <2>3. CASE T!CommitBuy(c)
    BY <2>2, <2>3, CommitBuyPosts
  <2>4. CASE T!CommitSell(c)
    BY <2>2, <2>4, CommitSellPosts
  <2>5. CASE \/ T!Receive(c) \/ T!Fail(c) \/ T!Refuse(c)
             \/ T!OpenBuy(c) \/ T!OpenSell(c) \/ T!Conflict(c)
    BY <2>2, <2>5 DEF T!Receive, T!Fail, T!Refuse, T!OpenBuy, T!OpenSell, T!Conflict, T!books
  <2> QED
    BY <2>1, <2>3, <2>4, <2>5 DEF T!CallStep
<1>3. CASE UNCHANGED platformVars
  BY <1>3 DEF platformVars, walletVars, tradingVars
<1> QED
  BY <1>1, <1>2, <1>3 DEF PlatformNext

LEMMA InitIsAccountInit == PlatformInit => PlatformAccounts!Init
BY DEF PlatformInit, Init, T!Init, T!EmptyCollection, EmptyCollection, PlatformAccounts!Init,
   PlatformAccounts!EmptyCollection, BalanceOf, Entries, Together, LedgerEntries, TradeEntries

\* Whatever deposits, reviews, adjustments, buys and sells overlap on a wallet, the
\* platform is one account: every step of every service posts one entry of its own,
\* with the change of the balance that belongs to it, or changes no account.
THEOREM OneAccount == PlatformSpec => KeepsOneAccount
<1>1. PlatformSpec => []PlatformInv
  BY PlatformInvariant
<1> QED
  BY <1>1, InitIsAccountInit, StepIsAccountStep, PTL
     DEF PlatformSpec, KeepsOneAccount, PlatformAccounts!Spec
===============================================================================
