--------------------------- MODULE StockAlertsProofs ---------------------------
(***************************************************************************)
(* StockAlerts for any number of alerts, price events and messages in      *)
(* flight: its inductive invariant, and what members are mailed.           *)
(***************************************************************************)
EXTENDS StockAlerts, FiniteSetTheorems, TLAPS

LEMMA InitIInv == Init => IInv
<1> SUFFICES ASSUME Init PROVE IInv
  OBVIOUS
<1>1. Handling = {} /\ IsFiniteSet(Handling) /\ Cardinality(Handling) = 0
  <2>1. Handling = {}
    BY DEF Init, Handling
  <2> QED
    BY <2>1, FS_EmptySet
<1>2. TypeOK
  <2>1. Prefetch >= 0
    BY StockAlertsAssumption
  <2> QED
    BY <1>1, <2>1 DEF Init, TypeOK, Direction
<1>3. NotifyingOK /\ HandlersOK /\ MailedOnce /\ TriggersCross
  BY DEF Init, NotifyingOK, HandlersOK, MailedOnce, TriggersCross
<1> QED
  BY <1>1, <1>2, <1>3 DEF IInv

\* The consumer's window: messages leave it freely and enter it one at a time.
LEMMA WindowKept ==
  ASSUME TypeOK, IsFiniteSet(Handling), Handling' \subseteq Handling
  PROVE  IsFiniteSet(Handling') /\ Cardinality(Handling') <= Prefetch
<1>1. IsFiniteSet(Handling') /\ Cardinality(Handling') <= Cardinality(Handling)
  BY FS_Subset
<1>2. Cardinality(Handling) \in Nat /\ Cardinality(Handling') \in Nat
  BY <1>1, FS_CardinalityType
<1> QED
  BY <1>1, <1>2, StockAlertsAssumption DEF TypeOK

\* An alert that did not exist is in no handler's list.
LEMMA CreateKeepsIInv ==
  ASSUME IInv, NEW a \in Alert, Create(a)  PROVE IInv'
<1>1. PICK d \in Direction, p \in Price :
        alert' = [alert EXCEPT ![a] = [status |-> "active", direction |-> d,
                                       threshold |-> p, price |-> 0]]
  BY DEF Create
<1>2. /\ alert[a].status = "none"
      /\ UNCHANGED <<consumer, event, state, found, todo, notifying, mails>>
  BY DEF Create
<1>3. /\ alert' \in [Alert -> [status : {"none", "active", "triggered", "cancelled"},
                               direction : Direction, threshold : Price \cup {0},
                               price : Price \cup {0}]]
      /\ alert'[a].status = "active" /\ alert'[a].threshold \in Price
      /\ \A b \in Alert \ {a} : alert'[b] = alert[b]
  BY <1>1 DEF IInv, TypeOK
<1>4. Handling' = Handling
  BY <1>2 DEF Handling
<1>5. TypeOK' /\ IsFiniteSet(Handling')
  BY <1>2, <1>3, <1>4 DEF IInv, TypeOK
<1>6. NotifyingOK'
  BY <1>2, <1>3 DEF IInv, NotifyingOK, TypeOK
<1>7. HandlersOK'
  <2>1. \A m \in Message : a \notin todo[m] /\ \A b \in todo[m] : alert'[b] = alert[b]
    BY <1>2, <1>3 DEF IInv, HandlersOK, TypeOK
  <2>2. \A m \in Message : state[m] \in {"loop", "notify", "acked"} => a \notin found[m]
    BY <1>2, <2>1 DEF IInv, HandlersOK
  <2>3. \A m \in Message : found[m] \subseteq Alert
    BY DEF IInv, TypeOK
  <2> QED
    BY <1>2, <1>3, <2>1, <2>2, <2>3 DEF IInv, HandlersOK, Crosses
<1>8. MailedOnce'
  BY <1>2, <1>3 DEF IInv, MailedOnce
<1>9. TriggersCross'
  <2>1. \A b \in Alert : alert'[b].status = "triggered" =>
          alert[b].status = "triggered" /\ alert'[b] = alert[b]
    BY <1>3
  <2> QED
    BY <1>2, <2>1 DEF IInv, TriggersCross
<1> QED
  BY <1>4, <1>5, <1>6, <1>7, <1>8, <1>9 DEF IInv

\* A cancelled alert is never mailed about: nobody is notifying about an active one.
LEMMA CancelKeepsIInv ==
  ASSUME IInv, NEW a \in Alert, Cancel(a)  PROVE IInv'
<1>1. /\ alert[a].status = "active" /\ alert' = [alert EXCEPT ![a].status = "cancelled"]
      /\ UNCHANGED <<consumer, event, state, found, todo, notifying, mails>>
  BY DEF Cancel
<1>2. /\ alert' \in [Alert -> [status : {"none", "active", "triggered", "cancelled"},
                               direction : Direction, threshold : Price \cup {0},
                               price : Price \cup {0}]]
      /\ alert'[a].status = "cancelled"
      /\ alert'[a].threshold = alert[a].threshold /\ alert'[a].direction = alert[a].direction
      /\ \A b \in Alert \ {a} : alert'[b] = alert[b]
  BY <1>1 DEF IInv, TypeOK
<1>3. Handling' = Handling
  BY <1>1 DEF Handling
<1>4. TypeOK' /\ IsFiniteSet(Handling')
  BY <1>1, <1>2, <1>3 DEF IInv, TypeOK
<1>5. NotifyingOK'
  BY <1>1, <1>2 DEF IInv, NotifyingOK, TypeOK
<1>6. HandlersOK'
  <2>1. \A m \in Message : found[m] \subseteq Alert /\ todo[m] \subseteq Alert
    BY DEF IInv, TypeOK
  <2>2. \A m \in Message, b \in Alert : Crosses(event[m], alert[b]) => Crosses(event'[m], alert'[b])
    BY <1>1, <1>2 DEF Crosses
  <2>3. \A b \in Alert : /\ alert[b].status \in {"triggered", "cancelled"} =>
                              alert'[b].status \in {"triggered", "cancelled"}
                         /\ alert[b].status # "none" => alert'[b].status # "none"
    BY <1>2
  <2> QED
    BY <1>1, <2>1, <2>2, <2>3 DEF IInv, HandlersOK
<1>7. MailedOnce'
  BY <1>1, <1>2 DEF IInv, MailedOnce
<1>8. TriggersCross'
  <2>1. \A b \in Alert : alert'[b].status = "triggered" =>
          alert[b].status = "triggered" /\ alert'[b] = alert[b]
    BY <1>2
  <2> QED
    BY <1>1, <2>1 DEF IInv, TriggersCross
<1> QED
  BY <1>3, <1>4, <1>5, <1>6, <1>7, <1>8 DEF IInv

\* What happens to a message that nobody is handling concerns no alert: an event
\* that has taken a price across a threshold stays what it is.
LEMMA PublishKeepsIInv ==
  ASSUME IInv, NEW m \in Message, Publish(m)  PROVE IInv'
<1>1. PICK p \in Price, q \in Price : event' = [event EXCEPT ![m] = [previous |-> p, current |-> q]]
  BY DEF Publish
<1>2. PICK st \in {"unrouted", "queued"} : state' = [state EXCEPT ![m] = st]
  BY DEF Publish, Goto
<1>3. /\ state[m] = "none" /\ UNCHANGED <<consumer, alert, found, todo, notifying, mails>>
  BY DEF Publish
<1>4. /\ event' \in [Message -> [previous : Price \cup {0}, current : Price \cup {0}]]
      /\ state' \in [Message -> {"none", "unrouted", "queued", "find", "loop", "notify",
                                 "acked", "dropped"}]
      /\ state'[m] \in {"unrouted", "queued"}
      /\ \A n \in Message \ {m} : event'[n] = event[n] /\ state'[n] = state[n]
  BY <1>1, <1>2 DEF IInv, TypeOK
<1>5. Handling' = Handling
  BY <1>3, <1>4 DEF Handling
<1>6. TypeOK' /\ IsFiniteSet(Handling')
  BY <1>3, <1>4, <1>5 DEF IInv, TypeOK
<1>7. NotifyingOK' /\ MailedOnce'
  BY <1>3 DEF IInv, NotifyingOK, MailedOnce
<1>8. HandlersOK'
  BY <1>3, <1>4 DEF IInv, HandlersOK
<1>9. TriggersCross'
  <2> SUFFICES ASSUME NEW a \in Alert, alert[a].status = "triggered"
               PROVE  \E n \in Message :
                        /\ state'[n] \notin {"none", "unrouted"}
                        /\ event'[n].current = alert[a].price
                        /\ IF alert[a].direction = "above"
                           THEN event'[n].previous < alert[a].threshold /\ alert[a].threshold <= alert[a].price
                           ELSE event'[n].previous > alert[a].threshold /\ alert[a].threshold >= alert[a].price
    BY <1>3 DEF TriggersCross
  <2>1. PICK n \in Message :
          /\ state[n] \notin {"none", "unrouted"} /\ event[n].current = alert[a].price
          /\ IF alert[a].direction = "above"
             THEN event[n].previous < alert[a].threshold /\ alert[a].threshold <= alert[a].price
             ELSE event[n].previous > alert[a].threshold /\ alert[a].threshold >= alert[a].price
    BY DEF IInv, TriggersCross
  <2> QED
    BY <1>3, <1>4, <2>1
<1> QED
  BY <1>5, <1>6, <1>7, <1>8, <1>9 DEF IInv

\* A message moves on and nothing else happens: a routed one stays routed.
LEMMA RoutedStaysRouted ==
  ASSUME TriggersCross, UNCHANGED <<alert, event>>,
         \A n \in Message : state[n] \notin {"none", "unrouted"} =>
                              state'[n] \notin {"none", "unrouted"}
  PROVE  TriggersCross'
BY DEF TriggersCross

LEMMA DeliverKeepsIInv ==
  ASSUME IInv, NEW m \in Message, Deliver(m)  PROVE IInv'
<1>1. /\ state[m] = "queued" /\ consumer = "up" /\ Cardinality(Handling) < Prefetch
      /\ state' = [state EXCEPT ![m] = "find"]
      /\ UNCHANGED <<consumer, alert, event, found, todo, notifying, mails>>
  BY DEF Deliver, Goto
<1>2. /\ state' \in [Message -> {"none", "unrouted", "queued", "find", "loop", "notify",
                                 "acked", "dropped"}]
      /\ state'[m] = "find" /\ \A n \in Message \ {m} : state'[n] = state[n]
  BY <1>1 DEF IInv, TypeOK
<1>3. m \notin Handling /\ Handling' = Handling \cup {m}
  BY <1>1, <1>2 DEF Handling
<1>4. IsFiniteSet(Handling') /\ Cardinality(Handling') <= Prefetch
  <2>1. IsFiniteSet(Handling') /\ Cardinality(Handling') = Cardinality(Handling) + 1
    BY <1>3, FS_AddElement DEF IInv
  <2>2. Cardinality(Handling) \in Nat
    BY FS_CardinalityType DEF IInv
  <2> QED
    BY <1>1, <2>1, <2>2, StockAlertsAssumption
<1>5. TypeOK'
  BY <1>1, <1>2, <1>4 DEF IInv, TypeOK
<1>6. NotifyingOK' /\ MailedOnce'
  BY <1>1 DEF IInv, NotifyingOK, MailedOnce
<1>7. HandlersOK'
  BY <1>1, <1>2 DEF IInv, HandlersOK
<1>8. TriggersCross'
  BY <1>1, <1>2, RoutedStaysRouted DEF IInv
<1> QED
  BY <1>4, <1>5, <1>6, <1>7, <1>8 DEF IInv

LEMMA ConsumeKeepsIInv == ASSUME IInv, Consume  PROVE IInv'
<1>1. consumer' = "up" /\ UNCHANGED <<alert, event, state, found, todo, notifying, mails>>
  BY DEF Consume
<1>2. Handling' = Handling
  BY <1>1 DEF Handling
<1>3. TypeOK' /\ IsFiniteSet(Handling')
  BY <1>1, <1>2 DEF IInv, TypeOK
<1>4. NotifyingOK' /\ HandlersOK' /\ MailedOnce' /\ TriggersCross'
  BY <1>1 DEF IInv, NotifyingOK, HandlersOK, MailedOnce, TriggersCross
<1> QED
  BY <1>2, <1>3, <1>4 DEF IInv

LEMMA FindCrossedAlertsKeepsIInv ==
  ASSUME IInv, NEW m \in Message, FindCrossedAlerts(m)  PROVE IInv'
<1>1. /\ state[m] = "find" /\ state' = [state EXCEPT ![m] = "loop"]
      /\ found' = [found EXCEPT ![m] = Crossed(m)] /\ todo' = [todo EXCEPT ![m] = Crossed(m)]
      /\ UNCHANGED <<consumer, alert, event, notifying, mails>>
  BY DEF FindCrossedAlerts, Goto
<1>2. /\ state' \in [Message -> {"none", "unrouted", "queued", "find", "loop", "notify",
                                 "acked", "dropped"}]
      /\ state'[m] = "loop" /\ found'[m] = Crossed(m) /\ todo'[m] = Crossed(m)
      /\ \A n \in Message \ {m} : /\ state'[n] = state[n]
                                  /\ found'[n] = found[n] /\ todo'[n] = todo[n]
  BY <1>1 DEF IInv, TypeOK
<1>3. Handling' = Handling
  BY <1>1, <1>2 DEF Handling
<1>4. TypeOK' /\ IsFiniteSet(Handling')
  <2>1. Crossed(m) \subseteq Alert
    BY DEF Crossed
  <2>2. found' \in [Message -> SUBSET Alert] /\ todo' \in [Message -> SUBSET Alert]
    BY <1>1, <2>1 DEF IInv, TypeOK
  <2>3. notifying[m] = None
    BY <1>1 DEF IInv, TypeOK
  <2> QED
    BY <1>1, <1>2, <1>3, <2>2, <2>3 DEF IInv, TypeOK
<1>5. NotifyingOK' /\ MailedOnce'
  BY <1>1 DEF IInv, NotifyingOK, MailedOnce
<1>6. HandlersOK'
  <2>1. \A a \in Crossed(m) : alert[a].status # "none" /\ Crosses(event[m], alert[a])
    BY DEF Crossed
  <2> QED
    BY <1>1, <1>2, <2>1 DEF IInv, HandlersOK
<1>7. TriggersCross'
  BY <1>1, <1>2, RoutedStaysRouted DEF IInv
<1> QED
  BY <1>3, <1>4, <1>5, <1>6, <1>7 DEF IInv

\* The atomic update: whoever finds the alert active is the one who notifies,
\* and no mail about it has been sent.
LEMMA TriggerAlertKeepsIInv ==
  ASSUME IInv, NEW m \in Message, NEW a \in Alert, TriggerAlert(m, a)  PROVE IInv'
<1>1. /\ state[m] = "loop" /\ a \in todo[m] /\ todo' = [todo EXCEPT ![m] = todo[m] \ {a}]
      /\ UNCHANGED <<consumer, event, found, mails>>
  BY DEF TriggerAlert
<1>2. /\ todo' \in [Message -> SUBSET Alert] /\ todo'[m] = todo[m] \ {a}
      /\ \A n \in Message \ {m} : todo'[n] = todo[n]
  BY <1>1 DEF IInv, TypeOK
<1>3. notifying[m] = None /\ alert[a].status # "none" /\ Crosses(event[m], alert[a])
  BY <1>1 DEF IInv, TypeOK, HandlersOK
<1>4. CASE alert[a].status # "active"
  <2>1. UNCHANGED <<alert, notifying, state>> /\ alert[a].status \in {"triggered", "cancelled"}
    BY <1>3, <1>4 DEF TriggerAlert, IInv, TypeOK
  <2>2. Handling' = Handling
    BY <2>1 DEF Handling
  <2>3. TypeOK' /\ IsFiniteSet(Handling')
    BY <1>1, <1>2, <2>1, <2>2 DEF IInv, TypeOK
  <2>4. NotifyingOK' /\ MailedOnce' /\ TriggersCross'
    BY <1>1, <2>1 DEF IInv, NotifyingOK, MailedOnce, TriggersCross
  <2>5. HandlersOK'
    BY <1>1, <1>2, <2>1 DEF IInv, HandlersOK
  <2> QED
    BY <2>2, <2>3, <2>4, <2>5 DEF IInv
<1>5. CASE alert[a].status = "active"
  <2>1. /\ alert' = [alert EXCEPT ![a] = [alert[a] EXCEPT !.status = "triggered",
                                                          !.price = event[m].current]]
        /\ notifying' = [notifying EXCEPT ![m] = a] /\ state' = [state EXCEPT ![m] = "notify"]
    BY <1>5 DEF TriggerAlert, Goto
  <2>2. /\ state' \in [Message -> {"none", "unrouted", "queued", "find", "loop", "notify",
                                   "acked", "dropped"}]
        /\ notifying' \in [Message -> Alert \cup {None}]
        /\ state'[m] = "notify" /\ notifying'[m] = a
        /\ \A n \in Message \ {m} : state'[n] = state[n] /\ notifying'[n] = notifying[n]
    BY <2>1 DEF IInv, TypeOK
  <2>3. /\ alert' \in [Alert -> [status : {"none", "active", "triggered", "cancelled"},
                                 direction : Direction, threshold : Price \cup {0},
                                 price : Price \cup {0}]]
        /\ alert'[a].status = "triggered" /\ alert'[a].price = event[m].current
        /\ alert'[a].threshold = alert[a].threshold /\ alert'[a].direction = alert[a].direction
        /\ \A b \in Alert \ {a} : alert'[b] = alert[b]
    BY <2>1 DEF IInv, TypeOK
  <2>4. mails[a] = 0 /\ \A n \in Message : notifying[n] # a
    BY <1>5, StockAlertsAssumption DEF IInv, TypeOK, MailedOnce, NotifyingOK
  <2>5. Handling' = Handling
    BY <1>1, <2>2 DEF Handling
  <2>6. TypeOK' /\ IsFiniteSet(Handling')
    <3>1. a \in found[m]
      BY <1>1 DEF IInv, TypeOK
    <3>2. alert[a].threshold \in Price
      BY <1>5 DEF IInv, TypeOK
    <3>3. \A n \in Message : /\ todo'[n] \subseteq found[n]
                             /\ notifying'[n] \in found[n] \cup {None}
                             /\ notifying'[n] # None <=> state'[n] = "notify"
      BY <1>2, <2>2, <3>1, StockAlertsAssumption DEF IInv, TypeOK
    <3> QED
      BY <1>1, <1>2, <2>2, <2>3, <2>5, <3>2, <3>3 DEF IInv, TypeOK
  <2>7. NotifyingOK'
    <3> SUFFICES ASSUME NEW n \in Message, notifying'[n] # None
                 PROVE  /\ alert'[notifying'[n]].status = "triggered" /\ mails[notifying'[n]] = 0
                        /\ \A o \in Message : notifying'[o] = notifying'[n] => o = n
      BY <1>1 DEF NotifyingOK
    <3>1. CASE n = m
      BY <2>2, <2>3, <2>4, <3>1
    <3>2. CASE n # m
      <4>1. notifying'[n] = notifying[n] /\ notifying[n] \in Alert \ {a}
        BY <2>2, <2>4, <3>2 DEF IInv, TypeOK
      <4> QED
        BY <2>2, <2>3, <4>1, <3>2 DEF IInv, NotifyingOK
    <3> QED
      BY <3>1, <3>2
  <2>8. HandlersOK'
    <3> SUFFICES ASSUME NEW n \in Message
                 PROVE  /\ state'[n] \notin {"loop", "notify"} => todo'[n] = {}
                        /\ state'[n] \in {"loop", "notify", "acked"} =>
                             \A b \in found[n] : alert'[b].status \in {"triggered", "cancelled"}
                                                 \/ b \in todo'[n]
                        /\ \A b \in todo'[n] : alert'[b].status # "none"
                                               /\ Crosses(event[n], alert'[b])
      BY <1>1 DEF HandlersOK, Crosses
    <3>1. found[n] \subseteq Alert /\ todo[n] \subseteq Alert /\ todo'[n] \subseteq todo[n]
      BY <1>2 DEF IInv, TypeOK
    <3>2. \A b \in Alert : /\ alert[b].status \in {"triggered", "cancelled"} =>
                                alert'[b].status \in {"triggered", "cancelled"}
                           /\ alert[b].status # "none" => alert'[b].status # "none"
                           /\ Crosses(event[n], alert[b]) => Crosses(event[n], alert'[b])
      BY <2>3 DEF Crosses
    <3>3. CASE n = m
      BY <1>1, <1>2, <2>2, <2>3, <3>1, <3>2, <3>3 DEF IInv, HandlersOK
    <3>4. CASE n # m
      BY <1>2, <2>2, <3>1, <3>2, <3>4 DEF IInv, HandlersOK
    <3> QED
      BY <3>3, <3>4
  <2>9. MailedOnce'
    BY <1>1, <2>3, <2>4 DEF IInv, MailedOnce
  <2>10. TriggersCross'
    <3> SUFFICES ASSUME NEW b \in Alert, alert'[b].status = "triggered"
                 PROVE  \E n \in Message :
                          /\ state'[n] \notin {"none", "unrouted"}
                          /\ event[n].current = alert'[b].price
                          /\ IF alert'[b].direction = "above"
                             THEN event[n].previous < alert'[b].threshold /\ alert'[b].threshold <= alert'[b].price
                             ELSE event[n].previous > alert'[b].threshold /\ alert'[b].threshold >= alert'[b].price
      BY <1>1 DEF TriggersCross
    <3>1. CASE b = a
      <4>1. /\ event[m].previous \in Int /\ event[m].current \in Int /\ alert[a].threshold \in Int
            /\ alert[a].direction \in Direction
        <5>1. /\ event[m] \in [previous : Price \cup {0}, current : Price \cup {0}]
              /\ alert[a] \in [status : {"none", "active", "triggered", "cancelled"},
                               direction : Direction, threshold : Price \cup {0},
                               price : Price \cup {0}]
          BY DEF IInv, TypeOK
        <5>2. Price \cup {0} \subseteq Int
          BY StockAlertsAssumption
        <5>3. /\ event[m].previous \in Price \cup {0} /\ event[m].current \in Price \cup {0}
              /\ alert[a].threshold \in Price \cup {0} /\ alert[a].direction \in Direction
          BY <5>1
        <5> QED
          BY <5>2, <5>3
      <4>2. IF alert[a].direction = "above"
            THEN event[m].previous < alert[a].threshold /\ alert[a].threshold <= event[m].current
            ELSE event[m].previous > alert[a].threshold /\ alert[a].threshold >= event[m].current
        BY <1>3, <4>1 DEF Crosses
      <4> QED
        BY <2>2, <2>3, <3>1, <4>2
    <3>2. CASE b # a
      <4>1. alert'[b] = alert[b]
        BY <2>3, <3>2
      <4>2. PICK n \in Message :
              /\ state[n] \notin {"none", "unrouted"} /\ event[n].current = alert[b].price
              /\ IF alert[b].direction = "above"
                 THEN event[n].previous < alert[b].threshold /\ alert[b].threshold <= alert[b].price
                 ELSE event[n].previous > alert[b].threshold /\ alert[b].threshold >= alert[b].price
        BY <4>1 DEF IInv, TriggersCross
      <4>3. state'[n] \notin {"none", "unrouted"}
        BY <2>2, <4>2
      <4> QED
        BY <4>1, <4>2, <4>3
    <3> QED
      BY <3>1, <3>2
  <2> QED
    BY <2>5, <2>6, <2>7, <2>8, <2>9, <2>10 DEF IInv
<1> QED
  BY <1>4, <1>5

\* The mail is the only one about its alert: its handler is the only one notifying.
LEMMA NotifyMemberKeepsIInv ==
  ASSUME IInv, NEW m \in Message, NotifyMember(m)  PROVE IInv'
<1> DEFINE a == notifying[m]
<1>1. /\ state[m] = "notify" /\ state' = [state EXCEPT ![m] = "loop"]
      /\ mails' = [mails EXCEPT ![a] = mails[a] + 1]
      /\ notifying' = [notifying EXCEPT ![m] = None]
      /\ UNCHANGED <<consumer, alert, event, found, todo>>
  BY DEF NotifyMember, Goto
<1>2. /\ state' \in [Message -> {"none", "unrouted", "queued", "find", "loop", "notify",
                                 "acked", "dropped"}]
      /\ notifying' \in [Message -> Alert \cup {None}]
      /\ state'[m] = "loop" /\ notifying'[m] = None
      /\ \A n \in Message \ {m} : state'[n] = state[n] /\ notifying'[n] = notifying[n]
  BY <1>1 DEF IInv, TypeOK
<1>3. /\ a \in Alert /\ alert[a].status = "triggered" /\ mails[a] = 0
      /\ \A n \in Message \ {m} : notifying[n] # a
  BY <1>1 DEF IInv, TypeOK, NotifyingOK
<1>4. /\ mails' \in [Alert -> Nat] /\ mails'[a] = 1
      /\ \A b \in Alert \ {a} : mails'[b] = mails[b]
  BY <1>1, <1>3 DEF IInv, TypeOK
<1> HIDE DEF a
<1>5. Handling' = Handling
  BY <1>1, <1>2 DEF Handling
<1>6. TypeOK' /\ IsFiniteSet(Handling')
  BY <1>1, <1>2, <1>4, <1>5 DEF IInv, TypeOK
<1>7. NotifyingOK'
  <2> SUFFICES ASSUME NEW n \in Message, notifying'[n] # None
               PROVE  /\ alert[notifying'[n]].status = "triggered" /\ mails'[notifying'[n]] = 0
                      /\ \A o \in Message : notifying'[o] = notifying'[n] => o = n
    BY <1>1 DEF NotifyingOK
  <2>1. n # m /\ notifying'[n] = notifying[n] /\ notifying[n] \in Alert \ {a}
    BY <1>2, <1>3 DEF IInv, TypeOK
  <2> QED
    BY <1>2, <1>4, <2>1 DEF IInv, NotifyingOK
<1>8. HandlersOK'
  BY <1>1, <1>2 DEF IInv, HandlersOK
<1>9. MailedOnce'
  BY <1>1, <1>3, <1>4 DEF IInv, MailedOnce
<1>10. TriggersCross'
  BY <1>1, <1>2, RoutedStaysRouted DEF IInv
<1> QED
  BY <1>5, <1>6, <1>7, <1>8, <1>9, <1>10 DEF IInv

LEMMA AckKeepsIInv == ASSUME IInv, NEW m \in Message, Ack(m)  PROVE IInv'
<1>1. /\ state[m] = "loop" /\ todo[m] = {} /\ state' = [state EXCEPT ![m] = "acked"]
      /\ UNCHANGED <<consumer, alert, event, found, todo, notifying, mails>>
  BY DEF Ack, Goto
<1>2. /\ state' \in [Message -> {"none", "unrouted", "queued", "find", "loop", "notify",
                                 "acked", "dropped"}]
      /\ state'[m] = "acked" /\ \A n \in Message \ {m} : state'[n] = state[n]
  BY <1>1 DEF IInv, TypeOK
<1>3. Handling' \subseteq Handling
  BY <1>1, <1>2 DEF Handling
<1>4. IsFiniteSet(Handling') /\ Cardinality(Handling') <= Prefetch
  BY <1>3, WindowKept DEF IInv
<1>5. TypeOK'
  BY <1>1, <1>2, <1>3, <1>4 DEF IInv, TypeOK
<1>6. NotifyingOK' /\ MailedOnce'
  BY <1>1 DEF IInv, NotifyingOK, MailedOnce
<1>7. HandlersOK'
  BY <1>1, <1>2 DEF IInv, HandlersOK
<1>8. TriggersCross'
  BY <1>1, <1>2, RoutedStaysRouted DEF IInv
<1> QED
  BY <1>4, <1>5, <1>6, <1>7, <1>8 DEF IInv

\* A handler that throws is left with its alerts as they are; if it was mailing,
\* the mail may have been sent, and was the only one about its alert.
LEMMA NackKeepsIInv ==
  ASSUME IInv, NEW m \in Message, Nack(m), m \in Handling,
         \/ UNCHANGED mails
         \/ state[m] = "notify" /\ mails' = [mails EXCEPT ![notifying[m]] = mails[notifying[m]] + 1]
  PROVE  IInv'
<1>1. /\ m \in Handling /\ state' = [state EXCEPT ![m] = "dropped"]
      /\ todo' = [todo EXCEPT ![m] = {}] /\ notifying' = [notifying EXCEPT ![m] = None]
      /\ UNCHANGED <<consumer, alert, event, found>>
  BY DEF Nack, Goto
<1>2. /\ state' \in [Message -> {"none", "unrouted", "queued", "find", "loop", "notify",
                                 "acked", "dropped"}]
      /\ todo' \in [Message -> SUBSET Alert] /\ notifying' \in [Message -> Alert \cup {None}]
      /\ state'[m] = "dropped" /\ todo'[m] = {} /\ notifying'[m] = None
      /\ \A n \in Message \ {m} : /\ state'[n] = state[n] /\ todo'[n] = todo[n]
                                  /\ notifying'[n] = notifying[n]
  BY <1>1 DEF IInv, TypeOK
<1>3. Handling' \subseteq Handling
  BY <1>1, <1>2 DEF Handling
<1>4. IsFiniteSet(Handling') /\ Cardinality(Handling') <= Prefetch
  BY <1>3, WindowKept DEF IInv
<1>5. /\ mails' \in [Alert -> Nat]
      /\ \A a \in Alert : \/ mails'[a] = mails[a]
                          \/ a = notifying[m] /\ mails'[a] = 1 /\ alert[a].status = "triggered"
  <2>1. CASE UNCHANGED mails
    BY <2>1 DEF IInv, TypeOK
  <2>2. CASE state[m] = "notify" /\ mails' = [mails EXCEPT ![notifying[m]] = mails[notifying[m]] + 1]
    <3> DEFINE a == notifying[m]
    <3>1. a \in Alert /\ alert[a].status = "triggered" /\ mails[a] = 0
      BY <2>2 DEF IInv, TypeOK, NotifyingOK
    <3>2. mails' = [mails EXCEPT ![a] = mails[a] + 1]
      BY <2>2
    <3> HIDE DEF a
    <3>3. /\ mails' \in [Alert -> Nat] /\ mails'[a] = 1
          /\ \A b \in Alert \ {a} : mails'[b] = mails[b]
      BY <3>1, <3>2 DEF IInv, TypeOK
    <3> QED
      BY <3>1, <3>3 DEF a
  <2> QED
    BY <2>1, <2>2
<1>6. TypeOK'
  BY <1>1, <1>2, <1>3, <1>4, <1>5 DEF IInv, TypeOK
<1>7. NotifyingOK'
  <2> SUFFICES ASSUME NEW n \in Message, notifying'[n] # None
               PROVE  /\ alert[notifying'[n]].status = "triggered" /\ mails'[notifying'[n]] = 0
                      /\ \A o \in Message : notifying'[o] = notifying'[n] => o = n
    BY <1>1 DEF NotifyingOK
  <2>1. n # m /\ notifying'[n] = notifying[n] /\ notifying[n] \in Alert
    BY <1>2 DEF IInv, TypeOK
  <2>2. notifying[n] # notifying[m]
    BY <2>1 DEF IInv, NotifyingOK
  <2> QED
    BY <1>2, <1>5, <2>1, <2>2 DEF IInv, NotifyingOK
<1>8. HandlersOK'
  BY <1>1, <1>2 DEF IInv, HandlersOK
<1>9. MailedOnce'
  BY <1>1, <1>5 DEF IInv, MailedOnce
<1>10. TriggersCross'
  BY <1>1, <1>2, RoutedStaysRouted DEF IInv
<1> QED
  BY <1>4, <1>6, <1>7, <1>8, <1>9, <1>10 DEF IInv

\* Nobody is mailing any more and nobody will go on: what was triggered stays so.
LEMMA CrashKeepsIInv == ASSUME IInv, Crash  PROVE IInv'
<1>1. /\ consumer' = "gone"
      /\ state' = [m \in Message |-> IF m \in Handling THEN "queued" ELSE state[m]]
      /\ found' = [m \in Message |-> IF m \in Handling THEN {} ELSE found[m]]
      /\ todo' = [m \in Message |-> {}] /\ notifying' = [m \in Message |-> None]
      /\ UNCHANGED <<alert, event, mails>>
  BY DEF Crash
<1>2. /\ state' \in [Message -> {"none", "unrouted", "queued", "find", "loop", "notify",
                                 "acked", "dropped"}]
      /\ found' \in [Message -> SUBSET Alert] /\ todo' \in [Message -> SUBSET Alert]
      /\ notifying' \in [Message -> Alert \cup {None}]
      /\ \A m \in Message : /\ todo'[m] = {} /\ notifying'[m] = None
                            /\ state'[m] \notin {"find", "loop", "notify"}
                            /\ state'[m] = "acked" => state[m] = "acked" /\ found'[m] = found[m]
                            /\ state[m] \notin {"none", "unrouted"} =>
                                 state'[m] \notin {"none", "unrouted"}
  BY <1>1 DEF IInv, TypeOK, Handling
<1>3. Handling' = {}
  BY <1>2 DEF Handling
<1>4. IsFiniteSet(Handling') /\ Cardinality(Handling') <= Prefetch
  BY <1>3, WindowKept DEF IInv
<1>5. TypeOK'
  BY <1>1, <1>2, <1>3, <1>4 DEF IInv, TypeOK
<1>6. NotifyingOK' /\ MailedOnce'
  BY <1>1, <1>2 DEF IInv, NotifyingOK, MailedOnce
<1>7. HandlersOK'
  BY <1>1, <1>2 DEF IInv, HandlersOK
<1>8. TriggersCross'
  BY <1>1, <1>2, RoutedStaysRouted DEF IInv
<1> QED
  BY <1>4, <1>5, <1>6, <1>7, <1>8 DEF IInv

LEMMA NextKeepsIInv == IInv /\ [Next]_vars => IInv'
<1> SUFFICES ASSUME IInv, [Next]_vars PROVE IInv'
  OBVIOUS
<1>1. CASE UNCHANGED vars
  BY <1>1 DEF vars, IInv, TypeOK, NotifyingOK, HandlersOK, MailedOnce, TriggersCross, Handling
<1>2. ASSUME NEW a \in Alert, Create(a) \/ Cancel(a)  PROVE IInv'
  BY <1>2, CreateKeepsIInv, CancelKeepsIInv
<1>3. ASSUME NEW m \in Message, Publish(m) \/ Deliver(m)  PROVE IInv'
  BY <1>3, PublishKeepsIInv, DeliverKeepsIInv
<1>4. ASSUME NEW m \in Message, Handle(m)  PROVE IInv'
  <2>1. QueryFails(m) => IInv'
    BY NackKeepsIInv DEF QueryFails, Handling
  <2>2. NotificationFails(m) => IInv'
    BY NackKeepsIInv DEF NotificationFails, Handling
  <2> QED
    BY <1>4, <2>1, <2>2, FindCrossedAlertsKeepsIInv, TriggerAlertKeepsIInv,
       NotifyMemberKeepsIInv, AckKeepsIInv DEF Handle
<1> QED
  BY <1>1, <1>2, <1>3, <1>4, ConsumeKeepsIInv, CrashKeepsIInv DEF Next
-------------------------------------------------------------------------------
\* The inductive invariant, whatever alerts members create and cancel, however
\* many events are published and however often the consumer dies and handlers fail.
THEOREM StockAlertsInvariant == Spec => []IInv
BY InitIInv, NextKeepsIInv, PTL DEF Spec

\* The atomic update of one alert (findOneAndUpdate on status active) is what
\* keeps a member from being mailed twice or about an alert he has cancelled.
THEOREM MembersAreMailedOnce == Spec => []MailedOnce
<1>1. IInv => MailedOnce
  BY DEF IInv
<1> QED
  BY <1>1, StockAlertsInvariant, PTL

\* The filter of findCrossedAlerts(), evaluated when the handler starts, still
\* speaks for the price that the alert is triggered with.
THEOREM TriggeredAlertsWereCrossed == Spec => []TriggersCross
<1>1. IInv => TriggersCross
  BY DEF IInv
<1> QED
  BY <1>1, StockAlertsInvariant, PTL

\* The consumer acknowledges a message when its handler has returned, and the
\* handler returns when every alert it has found is triggered or cancelled.
THEOREM AcknowledgedMeansHandled == Spec => []AckedMeansHandled
<1>1. IInv => AckedMeansHandled
  BY DEF IInv, HandlersOK, AckedMeansHandled
<1> QED
  BY <1>1, StockAlertsInvariant, PTL
===============================================================================
