------------------------------ MODULE StockAlerts ------------------------------
(***************************************************************************)
(* Price events on their way from RabbitMQ to the members' mailboxes:      *)
(* rabbitmq.service.ts as the consumer and stock-alerts.service.ts.        *)
(*                                                                         *)
(* The queue exists from the first time that a process consumes from it:   *)
(* what is published before is lost.  A process that cannot reach the      *)
(* broker when it starts comes up all the same and never consumes; as far  *)
(* as the messages go it is gone, like one that has died.                  *)
(*                                                                         *)
(* The broker gives the consumer several messages at a time and takes back *)
(* those that are not settled when its process dies.  The handler of a     *)
(* message finds the alerts the price has crossed and triggers them one    *)
(* after the other; an error in one of them ends it.  All alerts are for   *)
(* one ticker, the others' are never found.                                *)
(***************************************************************************)
EXTENDS Integers, FiniteSets

CONSTANTS Message,   \* messages on stock-alerts.price-updated
          Alert, Price,
          Prefetch,  \* unsettled messages the consumer may hold
          Failing,   \* what can fail: the handler's queries, the notification of a member
          None

ASSUME StockAlertsAssumption ==
  /\ Price \subseteq Nat /\ Prefetch \in Nat \ {0} /\ None \notin Alert
  /\ Failing \subseteq {"query", "notification"}

VARIABLES consumer,  \* who consumes: nobody has ever, nobody does any more, a process does
          alert,     \* alert[a]: its direction, threshold, status and triggeredPrice
          event,     \* event[m]: the payload of m
          state,     \* state[m]: where m is
          found,     \* found[m]: the alerts its handler has found
          todo,      \* todo[m]: those it has not come to yet
          notifying, \* notifying[m]: the alert it has triggered and is mailing about
          mails      \* mails[a]: how many mails a's member was sent

vars == <<consumer, alert, event, state, found, todo, notifying, mails>>

Direction == {"above", "below"}
Handling  == {m \in Message : state[m] \in {"find", "loop", "notify"}}
Settled   == {m \in Message : state[m] \in {"acked", "dropped"}}

Goto(m, st) == state' = [state EXCEPT ![m] = st]

Init == /\ consumer = "never"
        /\ alert = [a \in Alert |-> [status |-> "none", direction |-> "above",
                                     threshold |-> 0, price |-> 0]]
        /\ event = [m \in Message |-> [previous |-> 0, current |-> 0]]
        /\ state = [m \in Message |-> "none"]
        /\ found = [m \in Message |-> {}]
        /\ todo = [m \in Message |-> {}]
        /\ notifying = [m \in Message |-> None]
        /\ mails = [a \in Alert |-> 0]
-------------------------------------------------------------------------------
Create(a) == /\ alert[a].status = "none"
             /\ \E d \in Direction, p \in Price :
                  alert' = [alert EXCEPT ![a] = [status |-> "active", direction |-> d,
                                                 threshold |-> p, price |-> 0]]
             /\ UNCHANGED <<consumer, event, state, found, todo, notifying, mails>>

Cancel(a) == /\ alert[a].status = "active"
             /\ alert' = [alert EXCEPT ![a].status = "cancelled"]
             /\ UNCHANGED <<consumer, event, state, found, todo, notifying, mails>>

\* A process starts and reaches the broker: it asserts the queue, binds it and
\* consumes from it.
Consume == /\ consumer # "up" /\ consumer' = "up"
           /\ UNCHANGED <<alert, event, state, found, todo, notifying, mails>>

\* StocksService publishes a price change.
Publish(m) == /\ state[m] = "none"
              /\ \E p, q \in Price : p # q /\ event' = [event EXCEPT ![m] =
                                                          [previous |-> p, current |-> q]]
              /\ Goto(m, IF consumer = "never" THEN "unrouted" ELSE "queued")
              /\ UNCHANGED <<consumer, alert, found, todo, notifying, mails>>

Deliver(m) == /\ state[m] = "queued" /\ consumer = "up"
              /\ Cardinality(Handling) < Prefetch
              /\ Goto(m, "find")
              /\ UNCHANGED <<consumer, alert, event, found, todo, notifying, mails>>
-------------------------------------------------------------------------------
\* Faulty: an alert above is found whenever the price ends above it.
CrossesFromAbove(e, a) ==
  IF a.direction = "above" THEN a.threshold <= e.current
                           ELSE a.threshold < e.previous /\ a.threshold >= e.current

\* The filter of findCrossedAlerts().
Crosses(e, a) ==
  IF a.direction = "above" THEN a.threshold > e.previous /\ a.threshold <= e.current
                           ELSE a.threshold < e.previous /\ a.threshold >= e.current

Crossed(m) == {a \in Alert : alert[a].status = "active" /\ Crosses(event[m], alert[a])}

\* Faulty: the handler is not awaited.
FindAndAck(m) ==
  /\ state[m] = "find"
  /\ found' = [found EXCEPT ![m] = Crossed(m)]
  /\ Goto(m, "acked")
  /\ UNCHANGED <<consumer, alert, event, todo, notifying, mails>>

FindCrossedAlerts(m) ==
  /\ state[m] = "find"
  /\ found' = [found EXCEPT ![m] = Crossed(m)]
  /\ todo' = [todo EXCEPT ![m] = Crossed(m)]
  /\ Goto(m, "loop")
  /\ UNCHANGED <<consumer, alert, event, notifying, mails>>

\* Faulty: the update's filter is the alert's id.
TriggerAny(m, a) ==
  /\ state[m] = "loop" /\ a \in todo[m]
  /\ todo' = [todo EXCEPT ![m] = @ \ {a}]
  /\ alert' = [alert EXCEPT ![a] = [@ EXCEPT !.status = "triggered", !.price = event[m].current]]
  /\ notifying' = [notifying EXCEPT ![m] = a]
  /\ Goto(m, "notify")
  /\ UNCHANGED <<consumer, event, found, mails>>

\* Of all who find an alert, one turns it from active to triggered and goes on
\* to notify the member.
TriggerAlert(m, a) ==
  /\ state[m] = "loop" /\ a \in todo[m]
  /\ todo' = [todo EXCEPT ![m] = @ \ {a}]
  /\ IF alert[a].status = "active"
     THEN /\ alert' = [alert EXCEPT ![a] = [@ EXCEPT !.status = "triggered",
                                                     !.price = event[m].current]]
          /\ notifying' = [notifying EXCEPT ![m] = a]
          /\ Goto(m, "notify")
     ELSE UNCHANGED <<consumer, alert, notifying, state>>
  /\ UNCHANGED <<consumer, event, found, mails>>

NotifyMember(m) ==
  /\ state[m] = "notify"
  /\ mails' = [mails EXCEPT ![notifying[m]] = @ + 1]
  /\ notifying' = [notifying EXCEPT ![m] = None]
  /\ Goto(m, "loop")
  /\ UNCHANGED <<consumer, alert, event, found, todo>>

Ack(m) == /\ state[m] = "loop" /\ todo[m] = {}
          /\ Goto(m, "acked")
          /\ UNCHANGED <<consumer, alert, event, found, todo, notifying, mails>>

\* Faulty: the message is put back into the queue.
NackWithRequeue(m) == /\ Goto(m, "queued")
                      /\ todo' = [todo EXCEPT ![m] = {}]
                      /\ notifying' = [notifying EXCEPT ![m] = None]
                      /\ UNCHANGED <<consumer, alert, event, found>>

\* The handler throws: its loop is left, and nack(message, false, false) drops
\* the message.
Nack(m) == /\ Goto(m, "dropped")
           /\ todo' = [todo EXCEPT ![m] = {}]
           /\ notifying' = [notifying EXCEPT ![m] = None]
           /\ UNCHANGED <<consumer, alert, event, found>>

\* The query for the alerts fails, or the update of the next one.
QueryFails(m) == /\ "query" \in Failing
                 /\ state[m] = "find" \/ (state[m] = "loop" /\ todo[m] # {})
                 /\ Nack(m) /\ UNCHANGED mails

\* The member's address cannot be read, or the mail to it fails, which does not
\* mean that it has not been sent.
NotificationFails(m) == /\ "notification" \in Failing
                        /\ state[m] = "notify"
                        /\ Nack(m)
                        /\ \/ UNCHANGED mails
                           \/ mails' = [mails EXCEPT ![notifying[m]] = @ + 1]

\* The process dies; the broker delivers again what it held.
Crash == /\ consumer = "up" /\ consumer' = "gone"
         /\ state' = [m \in Message |-> IF m \in Handling THEN "queued" ELSE state[m]]
         /\ found' = [m \in Message |-> IF m \in Handling THEN {} ELSE found[m]]
         /\ todo' = [m \in Message |-> {}]
         /\ notifying' = [m \in Message |-> None]
         /\ UNCHANGED <<alert, event, mails>>
-------------------------------------------------------------------------------
Handle(m) == \/ FindCrossedAlerts(m) \/ (\E a \in Alert : TriggerAlert(m, a))
             \/ NotifyMember(m) \/ Ack(m) \/ QueryFails(m) \/ NotificationFails(m)

Next == \/ \E a \in Alert : Create(a) \/ Cancel(a)
        \/ \E m \in Message : Publish(m) \/ Deliver(m) \/ Handle(m)
        \/ Consume \/ Crash

Spec == Init /\ [][Next]_vars

\* The broker delivers and the event loop runs the handlers.
FairSpec == Spec /\ \A m \in Message : WF_vars(Deliver(m)) /\ WF_vars(Handle(m))
-------------------------------------------------------------------------------
TypeOK == /\ consumer \in {"never", "gone", "up"}
          /\ Handling # {} => consumer = "up"
          /\ alert \in [Alert -> [status : {"none", "active", "triggered", "cancelled"},
                                  direction : Direction, threshold : Price \cup {0},
                                  price : Price \cup {0}]]
          /\ \A a \in Alert : alert[a].status = "none" \/ alert[a].threshold \in Price
          /\ event \in [Message -> [previous : Price \cup {0}, current : Price \cup {0}]]
          /\ state \in [Message -> {"none", "unrouted", "queued", "find", "loop", "notify", "acked", "dropped"}]
          /\ found \in [Message -> SUBSET Alert] /\ todo \in [Message -> SUBSET Alert]
          /\ notifying \in [Message -> Alert \cup {None}]
          /\ \A m \in Message : /\ todo[m] \subseteq found[m]
                                /\ notifying[m] \in found[m] \cup {None}
                                /\ notifying[m] # None <=> state[m] = "notify"
          /\ Cardinality(Handling) <= Prefetch
          /\ mails \in [Alert -> Nat]

\* However often an event is delivered, and however many events cross a
\* threshold at the same time, a member is mailed once about an alert, and never
\* about one he has cancelled.
MailedOnce == \A a \in Alert : mails[a] <= IF alert[a].status = "triggered" THEN 1 ELSE 0

\* A triggered alert names a price that an event has taken across its threshold.
TriggersCross ==
  \A a \in Alert : alert[a].status = "triggered" =>
    \E m \in Message :
      /\ state[m] \notin {"none", "unrouted"} /\ event[m].current = alert[a].price
      /\ IF alert[a].direction = "above"
         THEN event[m].previous < alert[a].threshold /\ alert[a].threshold <= alert[a].price
         ELSE event[m].previous > alert[a].threshold /\ alert[a].threshold >= alert[a].price

\* Only a message whose alerts have all been dealt with is acknowledged.
AckedMeansHandled ==
  \A m \in Message : state[m] = "acked" =>
    \A a \in found[m] : alert[a].status \in {"triggered", "cancelled"}

\* An alert that its price event has found active triggers, unless it is cancelled
\* first; in particular if what fails is the notification about another alert.
CrossedAlertsTrigger ==
  \A m \in Settled : \A a \in found[m] : alert[a].status # "active"

\* Once a process that consumes stays up, no message that has reached the queue
\* waits for ever, those included that were published while nobody consumed.
EventsAreSettled ==
  <>[](consumer = "up") => \A m \in Message : state[m] = "queued" ~> m \in Settled
-------------------------------------------------------------------------------
(***************************************************************************)
(* Why it works: the inductive invariant.                                  *)
(***************************************************************************)
\* A handler that is mailing is the only one that is about its alert, has not
\* mailed yet, and mails about an alert that is triggered.
NotifyingOK ==
  \A m \in Message : notifying[m] # None =>
    /\ alert[notifying[m]].status = "triggered" /\ mails[notifying[m]] = 0
    /\ \A n \in Message : notifying[n] = notifying[m] => n = m

\* A handler has dealt with every alert it has found and no longer lists; those
\* that it lists, its event has crossed.
HandlersOK ==
  \A m \in Message :
    /\ state[m] \notin {"loop", "notify"} => todo[m] = {}
    /\ state[m] \in {"loop", "notify", "acked"} =>
         \A a \in found[m] : alert[a].status \in {"triggered", "cancelled"} \/ a \in todo[m]
    /\ \A a \in todo[m] : alert[a].status # "none" /\ Crosses(event[m], alert[a])

IInv == /\ TypeOK /\ IsFiniteSet(Handling)
        /\ NotifyingOK /\ HandlersOK
        /\ MailedOnce /\ TriggersCross
===============================================================================
