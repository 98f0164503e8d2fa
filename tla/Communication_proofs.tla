------------------------ MODULE Communication_proofs ------------------------
(***************************************************************************)
(* Proofs about Communication, for any number of ranks, people, places and *)
(* messages, wherever people are at each tick.                             *)
(***************************************************************************)
EXTENDS Communication, TLAPS

TwoWay(m) == letter[m].mode = "two_way"

\* The receiver is still on the rank that created it, where remote messages go.
Reachable(m) == At(Receiver(m)) = Origin(Receiver(m))

\* Between two collectives all ranks are in the same part of the tick.
InStep ==
  \/ \A r \in Ranks : pc[r] \in {"collecting", "counting"}
  \/ \A r \in Ranks : pc[r] \in {"routing", "exchanging"}
  \/ \A r \in Ranks : pc[r] \in {"consuming", "acking"}
  \/ \A r \in Ranks : pc[r] \in {"closing", "deciding"}

\* A message nobody has written or collected yet is nowhere else.
Untouched(m) == deliveries[m] = 0 /\ pending[m] = "none" /\ \A r \in Ranks : m \notin intents[r]
UnsentUntouched == \A m \in Messages : letter[m] = Blank \/ m \in outbound => Untouched(m)
OutboundWritten == \A m \in outbound : letter[m] \in Letters

\* A message is collected by one rank.
CollectedOnce ==
  \A r, s \in Ranks : \A m \in intents[r] \cap intents[s] : r = s

\* What the buffers hold when their rank comes to a collective.
BuffersHold ==
  \A r, d \in Ranks :
    /\ pc[r] = "exchanging" => buffer[r][d] = Buffered(r, d)
    /\ pc[r] = "acking" => ackBuffer[r][d] = Acked(r, d)

\* What each collective brought: the messages for a rank, then the receipts for it.
ArrivalsHold ==
  \A d \in Ranks : \A m \in Messages :
    /\ pc[d] \in {"consuming", "acking"} =>
         (m \in arrived[d] <=> \E r \in Ranks : m \in Buffered(r, d))
    /\ pc[d] = "closing" =>
         (m \in arrived[d] <=> /\ \E r \in Ranks : m \in intents[r]
                               /\ TwoWay(m) /\ Reachable(m) /\ Origin(Sender(m)) = d)

\* How often a message of this tick has been delivered.
DeliveriesHold ==
  \A s \in Ranks : \A m \in intents[s] :
    deliveries[m] =
      IF pc[s] \in {"counting", "routing"} THEN 0
      ELSE IF pc[s] = "collecting" THEN deliveries[m]
      ELSE IF IsLocal(s, m) THEN 1
      ELSE IF Reachable(m) /\ pc[Origin(Receiver(m))] \in {"acking", "closing", "deciding"} THEN 1
      ELSE 0

\* Where the receipt of a message of this tick is.
ReceiptsHold ==
  \A s \in Ranks : \A m \in intents[s] :
    pending[m] =
      IF pc[s] \in {"counting", "routing"} \/ ~TwoWay(m) THEN "none"
      ELSE IF pc[s] = "collecting" THEN pending[m]
      ELSE IF /\ Reachable(m) /\ At(Sender(m)) = Origin(Sender(m))
              /\ pc[Origin(Sender(m))] = "deciding" THEN "received"
      ELSE "pending"

\* What was delivered waits in the inbox until the receiver's rank processes it.
InboxesHold ==
  \A p \in Persons :
    /\ pc[At(p)] \in {"collecting", "counting", "deciding"} => inbox[p] = {}
    /\ \A s \in Ranks : \A m \in intents[s] :
         Receiver(m) = p /\ deliveries[m] = 1 /\ pc[s] # "collecting" =>
           IF pc[At(p)] = "deciding" THEN m \in recent[p] ELSE m \in inbox[p]

\* The two promises that outlive the tick.
PromisesHold == \A m \in Messages :
  /\ deliveries[m] \in {0, 1}
  /\ pending[m] = "received" => deliveries[m] = 1 /\ TwoWay(m)

IInv ==
  /\ TypeOK /\ InStep
  /\ UnsentUntouched /\ OutboundWritten /\ CollectedOnce
  /\ BuffersHold /\ ArrivalsHold
  /\ DeliveriesHold /\ ReceiptsHold /\ InboxesHold /\ PromisesHold
-----------------------------------------------------------------------------
(* What the steps have in common. *)

\* Ranks of people are ranks, and messages that were collected have a letter.
LEMMA Ranges ==
  ASSUME CommunicationAssumption, BlankAssumption, IInv
  PROVE  /\ \A p \in Persons : At(p) \in Ranks /\ Origin(p) \in Ranks
         /\ \A m \in Messages : letter[m] \in Letters =>
              Sender(m) \in Persons /\ Receiver(m) \in Persons
         /\ \A r \in Ranks : \A m \in intents[r] :
              m \in Messages /\ letter[m] \in Letters /\ letter[m] # Blank /\ m \notin outbound
<1> USE DEF IInv
<1>1. \A p \in Persons : At(p) \in Ranks /\ Origin(p) \in Ranks
  BY DEF TypeOK, CommunicationAssumption, At, Origin
<1>2. \A m \in Messages : letter[m] \in Letters => Sender(m) \in Persons /\ Receiver(m) \in Persons
  BY DEF Letters, Sender, Receiver
<1>3. \A r \in Ranks : \A m \in intents[r] :
        m \in Messages /\ letter[m] \in Letters /\ letter[m] # Blank /\ m \notin outbound
  BY DEF TypeOK, UnsentUntouched, Untouched
<1> QED BY <1>1, <1>2, <1>3

\* While nobody moves and no letter changes, nothing that is said of them does.
LEMMA NothingMoves ==
  ASSUME place' = place, letter' = letter
  PROVE  /\ \A p : At(p)' = At(p)
         /\ \A m : Sender(m)' = Sender(m) /\ Receiver(m)' = Receiver(m)
         /\ \A m : (TwoWay(m)' <=> TwoWay(m)) /\ (Reachable(m)' <=> Reachable(m))
         /\ \A r, m : IsLocal(r, m)' <=> IsLocal(r, m)
  BY DEF At, Sender, Receiver, TwoWay, Reachable, IsLocal, Origin

LEMMA InitInv == ASSUME CommunicationAssumption, BlankAssumption, Init PROVE IInv
<1>1. TypeOK
  BY DEF Init, TypeOK, CommunicationAssumption, NoBuffers, Phases
<1>2. InStep /\ UnsentUntouched /\ OutboundWritten /\ CollectedOnce
  BY DEF Init, InStep, UnsentUntouched, Untouched, OutboundWritten, CollectedOnce
<1>3. BuffersHold /\ ArrivalsHold
  BY DEF Init, BuffersHold, ArrivalsHold
<1>4. DeliveriesHold /\ ReceiptsHold
  BY DEF Init, DeliveriesHold, ReceiptsHold
<1>5. InboxesHold /\ PromisesHold
  BY DEF Init, InboxesHold, PromisesHold
<1> QED BY <1>1, <1>2, <1>3, <1>4, <1>5 DEF IInv
-----------------------------------------------------------------------------
(* Every step keeps the invariant. *)

\* People move when everything of the tick is over; what they sent stays collected
\* until their new ranks begin, and says nothing any more.
LEMMA MovePeopleInv ==
  ASSUME CommunicationAssumption, BlankAssumption, IInv, MovePeople PROVE IInv'
<1> USE DEF IInv
<1>1. /\ pc' = [r \in Ranks |-> "collecting"]
      /\ \A r \in Ranks : pc[r] = "deciding"
      /\ UNCHANGED <<letter, outbound, intents, buffer, ackBuffer, arrived,
                     inbox, recent, pending, deliveries>>
  BY DEF MovePeople, AllGo, buffers, people
<1>2. TypeOK'
  BY <1>1 DEF TypeOK, MovePeople, Phases
<1>3. InStep' /\ UnsentUntouched' /\ OutboundWritten' /\ CollectedOnce'
  BY <1>1 DEF InStep, UnsentUntouched, Untouched, OutboundWritten, CollectedOnce
<1>4. BuffersHold' /\ ArrivalsHold'
  BY <1>1 DEF BuffersHold, ArrivalsHold
<1>5. DeliveriesHold'
  BY <1>1 DEF DeliveriesHold
<1>6. ReceiptsHold'
  BY <1>1 DEF ReceiptsHold, TwoWay
<1>7. InboxesHold'
  <2>1. \A p \in Persons : inbox[p] = {}
    BY <1>1, Ranges DEF InboxesHold
  <2> QED BY <1>1, <2>1 DEF InboxesHold
<1>8. PromisesHold'
  BY <1>1 DEF PromisesHold, TwoWay
<1> QED BY <1>2, <1>3, <1>4, <1>5, <1>6, <1>7, <1>8

\* The counts agree: the ranks go on together, or nobody has sent anything.
LEMMA CountIntentsInv ==
  ASSUME CommunicationAssumption, BlankAssumption, IInv, CountIntents PROVE IInv'
<1> USE DEF IInv
<1>1. /\ \A r \in Ranks : pc[r] = "counting"
      /\ UNCHANGED <<place, letter, outbound, intents, buffer, ackBuffer, arrived,
                     inbox, recent, pending, deliveries>>
      /\ \/ pc' = [r \in Ranks |-> "deciding"] /\ \A r \in Ranks : intents[r] = {}
         \/ pc' = [r \in Ranks |-> "routing"]
  BY DEF CountIntents, AllGo, buffers, people
<1>2. TypeOK'
  BY <1>1 DEF TypeOK, Phases
<1>3. InStep' /\ UnsentUntouched' /\ OutboundWritten' /\ CollectedOnce'
  BY <1>1 DEF InStep, UnsentUntouched, Untouched, OutboundWritten, CollectedOnce
<1>4. BuffersHold' /\ ArrivalsHold'
  BY <1>1 DEF BuffersHold, ArrivalsHold
<1>5. DeliveriesHold'
  BY <1>1 DEF DeliveriesHold
<1>6. ReceiptsHold'
  BY <1>1 DEF ReceiptsHold, TwoWay
<1>7. InboxesHold'
  <2>1. \A p \in Persons : inbox[p] = {}
    BY <1>1, Ranges DEF InboxesHold
  <2>2. \A s \in Ranks : \A m \in intents[s] : deliveries[m] = 0
    BY <1>1 DEF DeliveriesHold
  <2> QED BY <1>1, <2>1, <2>2 DEF InboxesHold
<1>8. PromisesHold'
  BY <1>1 DEF PromisesHold, TwoWay
<1> QED BY <1>2, <1>3, <1>4, <1>5, <1>6, <1>7, <1>8

\* A rank takes over what its people want to send, queued or just written: messages
\* no rank has collected yet.
LEMMA CollectInv ==
  ASSUME CommunicationAssumption, BlankAssumption, IInv, NEW r \in Ranks, Collect(r)
  PROVE  IInv'
<1> USE DEF IInv
<1> DEFINE own == {m \in outbound : Sender(m) \in Residents(r)}
           Takes(social, text) ==
             /\ Goes(r, "collecting", "counting")
             /\ letter' = [m \in Messages |-> IF m \in social THEN text[m] ELSE letter[m]]
             /\ intents' = [intents EXCEPT ![r] = own \cup social]
             /\ outbound' = outbound \ own
             /\ buffer' = [buffer EXCEPT ![r] = NoBuffers]
             /\ ackBuffer' = [ackBuffer EXCEPT ![r] = NoBuffers]
             /\ UNCHANGED <<place, arrived, people>>
<1> PICK social \in SUBSET Unwritten : \E text \in [social -> SocialLetters(r)] : Takes(social, text)
  BY DEF Collect
<1> PICK text \in [social -> SocialLetters(r)] : Takes(social, text)
  OBVIOUS
<1>1. /\ pc[r] = "collecting" /\ pc'[r] = "counting"
      /\ \A s \in Ranks \ {r} : pc'[s] = pc[s] /\ intents'[s] = intents[s]
      /\ intents'[r] = own \cup social
      /\ outbound' = outbound \ own
      /\ UNCHANGED <<place, arrived, inbox, recent, pending, deliveries>>
  BY DEF Goes, TypeOK, people
<1>2. /\ \A m \in social : m \in Messages /\ letter[m] = Blank /\ letter'[m] \in Letters
      /\ \A m \in Messages \ social : letter'[m] = letter[m]
  BY DEF Unwritten, SocialLetters
<1>3. \A s \in Ranks : pc[s] \in {"collecting", "counting"} /\ pc'[s] \in {"collecting", "counting"}
  BY <1>1 DEF InStep
<1>4. \A m \in own \cup social :
        /\ m \in Messages /\ deliveries[m] = 0 /\ pending[m] = "none"
        /\ \A s \in Ranks : m \notin intents[s]
  BY <1>2 DEF TypeOK, UnsentUntouched, Untouched
<1>5. \A s \in Ranks : \A m \in intents[s] :
        m \in Messages /\ letter'[m] = letter[m]
  BY <1>2, <1>4 DEF TypeOK
<1>6. TypeOK'
  <2>1. letter' \in [Messages -> Letters \cup {Blank}]
    BY <1>2 DEF TypeOK
  <2>2. outbound' \in SUBSET Messages /\ intents' \in [Ranks -> SUBSET Messages]
    BY <1>4 DEF TypeOK
  <2>3. /\ buffer' \in [Ranks -> [Ranks -> SUBSET Messages]]
        /\ ackBuffer' \in [Ranks -> [Ranks -> SUBSET Messages]]
    BY DEF TypeOK, NoBuffers
  <2>4. pc' \in [Ranks -> Phases]
    BY DEF TypeOK, Goes, Phases
  <2> QED BY <1>1, <2>1, <2>2, <2>3, <2>4 DEF TypeOK
<1>7. InStep'
  BY <1>3 DEF InStep
<1>8. UnsentUntouched'
  <2> SUFFICES ASSUME NEW m \in Messages, letter'[m] = Blank \/ m \in outbound'
               PROVE  Untouched(m)'
    BY DEF UnsentUntouched
  <2>1. m \notin social /\ m \notin own
    <3>1. \A n \in outbound : letter[n] # Blank
      BY BlankAssumption DEF OutboundWritten
    <3>2. \A n \in social : n \notin outbound /\ letter'[n] # Blank
      BY ONLY <1>2, <3>1, BlankAssumption
    <3>3. \A n \in own : n \notin outbound' /\ letter'[n] # Blank
      BY <1>1, <1>2, <1>4, <3>1, <3>2
    <3> QED BY <1>1, <3>2, <3>3
  <2>2. Untouched(m)
    BY <1>1, <1>2, <2>1 DEF UnsentUntouched
  <2> QED BY <1>1, <2>1, <2>2 DEF Untouched
<1>9. OutboundWritten'
  BY <1>1, <1>2, BlankAssumption DEF OutboundWritten, TypeOK
<1>10. CollectedOnce'
  BY <1>1, <1>4 DEF CollectedOnce
<1>11. BuffersHold' /\ ArrivalsHold'
  BY <1>3 DEF BuffersHold, ArrivalsHold
<1>12. DeliveriesHold'
  BY <1>1, <1>3, <1>4 DEF DeliveriesHold
<1>13. ReceiptsHold'
  BY <1>1, <1>3, <1>4, <1>5 DEF ReceiptsHold, TwoWay
<1>14. InboxesHold'
  <2>1. \A p \in Persons : inbox'[p] = {}
    BY <1>1, <1>3, Ranges DEF InboxesHold
  <2>2. \A s \in Ranks : \A m \in intents'[s] : pc'[s] # "collecting" => deliveries'[m] = 0
    BY <1>1, <1>3, <1>4 DEF DeliveriesHold
  <2> QED BY <1>3, <2>1, <2>2 DEF InboxesHold
<1>15. PromisesHold'
  <2> SUFFICES ASSUME NEW m \in Messages, pending'[m] = "received" PROVE TwoWay(m)'
    BY <1>1 DEF PromisesHold
  <2>1. letter'[m] = letter[m]
    BY <1>1, <1>2, <1>4
  <2> QED BY <1>1, <2>1 DEF PromisesHold, TwoWay
<1> QED BY <1>6, <1>7, <1>8, <1>9, <1>10, <1>11, <1>12, <1>13, <1>14, <1>15

\* A message queued by a decision is not collected before the next tick.
LEMMA QueueIntentInv ==
  ASSUME CommunicationAssumption, BlankAssumption, IInv,
         NEW m \in Messages, NEW l \in Letters, QueueIntent(m, l)
  PROVE  IInv'
<1> USE DEF IInv
<1>1. /\ letter[m] = Blank /\ letter'[m] = l /\ letter' \in [Messages -> Letters \cup {Blank}]
      /\ \A n \in Messages \ {m} : letter'[n] = letter[n]
      /\ outbound' = outbound \cup {m}
      /\ UNCHANGED <<place, intents, buffer, ackBuffer, arrived,
                     inbox, recent, pending, deliveries, pc>>
      /\ pc[At(l.sender)] = "deciding" /\ l.sender \in Persons
  BY DEF QueueIntent, TypeOK, buffers, people, Letters
<1>2. \A s \in Ranks : pc[s] \in {"closing", "deciding"}
  BY <1>1, Ranges DEF InStep
<1>3. Untouched(m) /\ \A s \in Ranks : \A n \in intents[s] : n # m /\ n \in Messages
  BY <1>1, Ranges DEF UnsentUntouched
<1>4. /\ \A p : At(p)' = At(p)
      /\ \A n \in Messages \ {m} :
           /\ Sender(n)' = Sender(n) /\ Receiver(n)' = Receiver(n)
           /\ (TwoWay(n)' <=> TwoWay(n)) /\ (Reachable(n)' <=> Reachable(n))
           /\ \A s : IsLocal(s, n)' <=> IsLocal(s, n)
  BY <1>1 DEF At, Sender, Receiver, TwoWay, Reachable, IsLocal, Origin
<1>5. TypeOK' /\ InStep'
  BY <1>1 DEF TypeOK, InStep
<1>6. UnsentUntouched' /\ OutboundWritten' /\ CollectedOnce'
  <2>1. UnsentUntouched'
    BY <1>1, <1>3 DEF UnsentUntouched, Untouched
  <2>2. OutboundWritten' /\ CollectedOnce'
    BY <1>1 DEF OutboundWritten, CollectedOnce, TypeOK
  <2> QED BY <2>1, <2>2
<1>7. BuffersHold'
  BY <1>1, <1>2 DEF BuffersHold
<1>8. ArrivalsHold'
  <2> SUFFICES ASSUME NEW d \in Ranks, NEW n \in Messages, pc[d] = "closing"
               PROVE  (n \in arrived[d] <=>
                         /\ \E r \in Ranks : n \in intents[r]
                         /\ TwoWay(n)' /\ Reachable(n)' /\ Origin(Sender(n)') = d)
    BY <1>1, <1>2 DEF ArrivalsHold, Origin
  <2>1. CASE n = m
    BY <1>3, <2>1 DEF ArrivalsHold
  <2>2. CASE n # m
    BY <1>4, <2>2 DEF ArrivalsHold
  <2> QED BY <2>1, <2>2
<1>9. DeliveriesHold'
  BY <1>1, <1>3, <1>4 DEF DeliveriesHold, Origin
<1>10. ReceiptsHold'
  BY <1>1, <1>3, <1>4 DEF ReceiptsHold, Origin
<1>11. InboxesHold'
  BY <1>1, <1>3, <1>4 DEF InboxesHold
<1>12. PromisesHold'
  BY <1>1, <1>3, <1>4 DEF PromisesHold, Untouched
<1> QED BY <1>5, <1>6, <1>7, <1>8, <1>9, <1>10, <1>11, <1>12

\* route delivers what is local and buffers the rest.
LEMMA RouteInv ==
  ASSUME CommunicationAssumption, BlankAssumption, IInv, NEW r \in Ranks, Route(r)
  PROVE  IInv'
<1> USE DEF IInv
<1> DEFINE local == {m \in intents[r] : IsLocal(r, m)}
<1>1. /\ pc[r] = "routing" /\ pc'[r] = "exchanging"
      /\ \A s \in Ranks \ {r} : pc'[s] = pc[s] /\ buffer'[s] = buffer[s]
      /\ buffer'[r] = [d \in Ranks |-> Buffered(r, d)]
      /\ inbox' = [p \in Persons |-> inbox[p] \cup {m \in local : Receiver(m) = p}]
      /\ deliveries' = [m \in Messages |-> IF m \in local THEN deliveries[m] + 1 ELSE deliveries[m]]
      /\ pending' = [m \in Messages |->
                       IF m \in intents[r] \ local /\ TwoWay(m) THEN "pending" ELSE pending[m]]
      /\ UNCHANGED <<place, letter, outbound, intents, ackBuffer, arrived, recent>>
  BY DEF Route, Goes, Deliver, TypeOK, TwoWay
<1>2. /\ \A p : At(p)' = At(p)
      /\ \A m : Sender(m)' = Sender(m) /\ Receiver(m)' = Receiver(m)
      /\ \A m : (TwoWay(m)' <=> TwoWay(m)) /\ (Reachable(m)' <=> Reachable(m))
      /\ \A s, m : IsLocal(s, m)' <=> IsLocal(s, m)
      /\ \A s, d : Buffered(s, d)' = Buffered(s, d)
  BY <1>1, NothingMoves DEF Buffered, Origin
<1>3. \A s \in Ranks : /\ pc[s] \in {"routing", "exchanging"} /\ pc'[s] \in {"routing", "exchanging"}
                       /\ s # r => pc'[s] = pc[s]
  BY <1>1 DEF InStep
<1>4. \A m \in intents[r] : m \in Messages /\ deliveries[m] = 0 /\ pending[m] = "none"
  BY <1>1 DEF DeliveriesHold, ReceiptsHold, TypeOK
<1>5. \A s \in Ranks \ {r} : \A m \in intents[s] :
        m \in Messages /\ m \notin intents[r] /\ deliveries'[m] = deliveries[m] /\ pending'[m] = pending[m]
  BY <1>1 DEF CollectedOnce, TypeOK
<1>6. \A m \in intents[r] : deliveries'[m] = IF IsLocal(r, m) THEN 1 ELSE 0
  BY <1>1, <1>4
<1>7. TypeOK'
  <2>1. /\ inbox' \in [Persons -> SUBSET Messages]
        /\ deliveries' \in [Messages -> Nat]
        /\ pending' \in [Messages -> {"none", "pending", "received"}]
    BY <1>1, <1>4 DEF TypeOK
  <2>2. buffer' \in [Ranks -> [Ranks -> SUBSET Messages]]
    BY DEF Route, Buffered, TypeOK
  <2>3. pc' \in [Ranks -> Phases]
    BY DEF Route, Goes, TypeOK, Phases
  <2> QED BY <1>1, <2>1, <2>2, <2>3 DEF TypeOK
<1>8. InStep'
  BY <1>3 DEF InStep
<1>9. UnsentUntouched' /\ OutboundWritten' /\ CollectedOnce'
  <2>1. UnsentUntouched'
    BY <1>1 DEF UnsentUntouched, Untouched
  <2>2. OutboundWritten' /\ CollectedOnce'
    BY <1>1 DEF OutboundWritten, CollectedOnce
  <2> QED BY <2>1, <2>2
<1>10. BuffersHold'
  BY <1>1, <1>2, <1>3 DEF BuffersHold
<1>11. ArrivalsHold'
  BY <1>3 DEF ArrivalsHold
<1>12. DeliveriesHold'
  <2>1. \A s \in Ranks : \A m \in intents[s] :
          /\ pc[Origin(Receiver(m))] \in {"routing", "exchanging"}
          /\ pc'[Origin(Receiver(m))] \in {"routing", "exchanging"}
    BY <1>3, Ranges
  <2>2. ASSUME NEW s \in Ranks, NEW m \in intents[s]
        PROVE  deliveries'[m] = IF pc'[s] = "routing" THEN 0 ELSE IF IsLocal(s, m) THEN 1 ELSE 0
    <3>1. CASE s = r
      BY <1>1, <1>6, <3>1
    <3>2. CASE s # r
      <4>1. deliveries[m] = IF pc[s] = "routing" THEN 0 ELSE IF IsLocal(s, m) THEN 1 ELSE 0
        BY <1>3, <2>1 DEF DeliveriesHold
      <4>2. deliveries'[m] = deliveries[m]
        BY <1>5, <3>2
      <4>3. pc'[s] = pc[s]
        BY <1>3, <3>2
      <4> QED BY ONLY <4>1, <4>2, <4>3
    <3> QED BY <3>1, <3>2
  <2> QED BY ONLY <1>1, <1>2, <1>3, <2>1, <2>2 DEF DeliveriesHold, Origin
<1>13. ReceiptsHold'
  <2>1. \A s \in Ranks : \A m \in intents[s] :
          pc[Origin(Sender(m))] # "deciding" /\ pc'[Origin(Sender(m))] # "deciding"
    BY <1>3, Ranges
  <2>2. ASSUME NEW s \in Ranks, NEW m \in intents[s]
        PROVE  pending'[m] = IF pc'[s] = "routing" \/ ~TwoWay(m) THEN "none" ELSE "pending"
    <3>1. CASE s = r
      <4>1. IsLocal(r, m) => ~TwoWay(m)
        BY DEF IsLocal, TwoWay
      <4> QED BY <1>1, <1>4, <3>1, <4>1
    <3>2. CASE s # r
      <4>1. pending[m] = IF pc[s] = "routing" \/ ~TwoWay(m) THEN "none" ELSE "pending"
        BY <1>3, <2>1 DEF ReceiptsHold
      <4> QED BY <1>1, <1>5, <3>2, <4>1
    <3> QED BY <3>1, <3>2
  <2> QED BY ONLY <1>1, <1>2, <1>3, <2>1, <2>2 DEF ReceiptsHold, Origin
<1>14. InboxesHold'
  <2>1. \A p \in Persons : /\ pc[At(p)] \in {"routing", "exchanging"}
                          /\ pc'[At(p)] \in {"routing", "exchanging"}
    BY <1>3, Ranges
  <2>2. ASSUME NEW p \in Persons, NEW s \in Ranks, NEW m \in intents[s],
               Receiver(m) = p, deliveries'[m] = 1
        PROVE  m \in inbox'[p]
    <3>1. CASE s = r
      <4>1. m \in local
        BY <1>6, <3>1, <2>2
      <4> QED BY ONLY <1>1, <2>2, <4>1, p \in Persons
    <3>2. CASE s # r
      <4>1. m \in inbox[p]
        BY <1>3, <1>5, <2>1, <2>2, <3>2 DEF InboxesHold
      <4> QED BY <1>1, <4>1
    <3> QED BY <3>1, <3>2
  <2> QED BY ONLY <1>1, <1>2, <1>3, <2>1, <2>2 DEF InboxesHold
<1>15. PromisesHold'
  <2> SUFFICES ASSUME NEW m \in Messages
               PROVE  /\ deliveries'[m] \in {0, 1}
                      /\ pending'[m] = "received" => deliveries'[m] = 1 /\ TwoWay(m)
    BY <1>2 DEF PromisesHold
  <2> QED BY <1>1, <1>4 DEF PromisesHold
<1> QED BY <1>7, <1>8, <1>9, <1>10, <1>11, <1>12, <1>13, <1>14, <1>15

\* The exchange brings every rank what the others have buffered for it.
LEMMA ExchangeMessagesInv ==
  ASSUME CommunicationAssumption, BlankAssumption, IInv, ExchangeMessages PROVE IInv'
<1> USE DEF IInv
<1>1. /\ \A r \in Ranks : pc[r] = "exchanging"
      /\ pc' = [r \in Ranks |-> "consuming"]
      /\ arrived' = [d \in Ranks |-> UNION {buffer[r][d] : r \in Ranks}]
      /\ UNCHANGED <<place, letter, outbound, intents, buffer, ackBuffer,
                     inbox, recent, pending, deliveries>>
  BY DEF ExchangeMessages, AllGo, AllToAll, people
<1>2. /\ \A p : At(p)' = At(p)
      /\ \A m : Sender(m)' = Sender(m) /\ Receiver(m)' = Receiver(m)
      /\ \A m : (TwoWay(m)' <=> TwoWay(m)) /\ (Reachable(m)' <=> Reachable(m))
      /\ \A s, m : IsLocal(s, m)' <=> IsLocal(s, m)
      /\ \A s, d : Buffered(s, d)' = Buffered(s, d)
  BY <1>1, NothingMoves DEF Buffered, Origin
<1>3. \A d \in Ranks : arrived'[d] = UNION {Buffered(r, d) : r \in Ranks}
  <2>1. \A r, d \in Ranks : buffer[r][d] = Buffered(r, d)
    BY <1>1 DEF BuffersHold
  <2> QED BY <1>1, <2>1
<1>4. TypeOK'
  BY <1>1 DEF TypeOK, Phases
<1>5. InStep' /\ UnsentUntouched' /\ OutboundWritten' /\ CollectedOnce'
  BY <1>1 DEF InStep, UnsentUntouched, Untouched, OutboundWritten, CollectedOnce
<1>6. BuffersHold'
  BY <1>1 DEF BuffersHold
<1>7. ArrivalsHold'
  <2>1. \A d \in Ranks, m \in Messages :
          m \in arrived'[d] <=> \E r \in Ranks : m \in Buffered(r, d)'
    BY <1>2, <1>3
  <2> QED BY <1>1, <2>1 DEF ArrivalsHold
<1>8. DeliveriesHold'
  BY <1>1, <1>2, Ranges DEF DeliveriesHold, Origin
<1>9. ReceiptsHold'
  BY <1>1, <1>2, Ranges DEF ReceiptsHold, Origin
<1>10. InboxesHold'
  BY <1>1, <1>2, Ranges DEF InboxesHold
<1>11. PromisesHold'
  BY <1>1, <1>2 DEF PromisesHold
<1> QED BY <1>4, <1>5, <1>6, <1>7, <1>8, <1>9, <1>10, <1>11

\* What has arrived for the people who are still here is delivered, for the first time.
LEMMA ConsumeInv ==
  ASSUME CommunicationAssumption, BlankAssumption, IInv, NEW r \in Ranks, Consume(r)
  PROVE  IInv'
<1> USE DEF IInv
<1>1. /\ pc[r] = "consuming" /\ pc'[r] = "acking"
      /\ \A s \in Ranks \ {r} : pc'[s] = pc[s] /\ ackBuffer'[s] = ackBuffer[s]
      /\ ackBuffer'[r] = [d \in Ranks |-> Acked(r, d)]
      /\ inbox' = [p \in Persons |-> inbox[p] \cup {m \in Present(r) : Receiver(m) = p}]
      /\ deliveries' = [m \in Messages |->
                          IF m \in Present(r) THEN deliveries[m] + 1 ELSE deliveries[m]]
      /\ UNCHANGED <<place, letter, outbound, intents, buffer, arrived, recent, pending>>
  BY DEF Consume, Goes, Deliver, TypeOK
<1>2. /\ \A p : At(p)' = At(p)
      /\ \A m : Sender(m)' = Sender(m) /\ Receiver(m)' = Receiver(m)
      /\ \A m : (TwoWay(m)' <=> TwoWay(m)) /\ (Reachable(m)' <=> Reachable(m))
      /\ \A s, m : IsLocal(s, m)' <=> IsLocal(s, m)
      /\ \A s, d : Buffered(s, d)' = Buffered(s, d) /\ Acked(s, d)' = Acked(s, d)
  BY <1>1, NothingMoves DEF Buffered, Acked, Present, Origin
<1>3. \A s \in Ranks : pc[s] \in {"consuming", "acking"} /\ pc'[s] \in {"consuming", "acking"}
  BY <1>1 DEF InStep
<1>4. \A m \in Messages :
        m \in Present(r) <=> /\ \E s \in Ranks : m \in intents[s] /\ ~IsLocal(s, m)
                             /\ Reachable(m) /\ Origin(Receiver(m)) = r
  BY <1>1 DEF ArrivalsHold, Present, Buffered, Reachable
<1>5. Present(r) \subseteq Messages /\ \A m \in Present(r) : deliveries[m] = 0
  <2>1. Present(r) \subseteq Messages
    BY DEF Present, TypeOK
  <2>2. ASSUME NEW m \in Present(r) PROVE deliveries[m] = 0
    <3>1. PICK s \in Ranks : m \in intents[s] /\ ~IsLocal(s, m)
      BY <1>4, <2>1
    <3>2. pc[Origin(Receiver(m))] = "consuming"
      BY <1>1, <1>4, <2>1
    <3> QED BY <1>3, <3>1, <3>2 DEF DeliveriesHold
  <2> QED BY <2>1, <2>2
<1>6. \A s \in Ranks : \A m \in intents[s] :
        deliveries'[m] = IF IsLocal(s, m) THEN 1
                         ELSE IF Reachable(m) /\ pc'[Origin(Receiver(m))] = "acking" THEN 1 ELSE 0
  <2> SUFFICES ASSUME NEW s \in Ranks, NEW m \in intents[s]
               PROVE  deliveries'[m] =
                        IF IsLocal(s, m) THEN 1
                        ELSE IF Reachable(m) /\ pc'[Origin(Receiver(m))] = "acking" THEN 1 ELSE 0
    OBVIOUS
  <2>1. /\ m \in Messages /\ Origin(Receiver(m)) \in Ranks
        /\ deliveries[m] = IF IsLocal(s, m) THEN 1
                           ELSE IF Reachable(m) /\ pc[Origin(Receiver(m))] = "acking" THEN 1 ELSE 0
    <3>1. m \in Messages /\ Origin(Receiver(m)) \in Ranks
      BY Ranges
    <3>2. pc[s] \in {"consuming", "acking"} /\ pc[Origin(Receiver(m))] \in {"consuming", "acking"}
      BY <1>3, <3>1
    <3> QED BY <3>1, <3>2 DEF DeliveriesHold
  <2>2. CASE m \in Present(r)
    <3>1. Reachable(m) /\ Origin(Receiver(m)) = r /\ deliveries[m] = 0
      BY <1>4, <1>5, <2>1, <2>2
    <3> QED BY <1>1, <2>1, <2>2, <3>1
  <2>3. CASE m \notin Present(r)
    <3>1. deliveries'[m] = deliveries[m]
      BY <1>1, <2>1, <2>3
    <3>2. ~IsLocal(s, m) /\ Reachable(m) => Origin(Receiver(m)) # r
      BY <1>4, <2>1, <2>3
    <3> QED BY <1>1, <2>1, <3>1, <3>2
  <2> QED BY <2>2, <2>3
<1>7. TypeOK'
  <2>1. /\ inbox' \in [Persons -> SUBSET Messages]
        /\ deliveries' \in [Messages -> Nat]
    BY <1>1, <1>5 DEF TypeOK
  <2>2. ackBuffer' \in [Ranks -> [Ranks -> SUBSET Messages]]
    BY <1>5 DEF Consume, Acked, TypeOK
  <2>3. pc' \in [Ranks -> Phases]
    BY DEF Consume, Goes, TypeOK, Phases
  <2> QED BY <1>1, <2>1, <2>2, <2>3 DEF TypeOK
<1>8. InStep'
  BY <1>3 DEF InStep
<1>9. UnsentUntouched' /\ OutboundWritten' /\ CollectedOnce'
  <2>1. UnsentUntouched'
    BY <1>1, <1>4 DEF UnsentUntouched, Untouched
  <2>2. OutboundWritten' /\ CollectedOnce'
    BY <1>1 DEF OutboundWritten, CollectedOnce
  <2> QED BY <2>1, <2>2
<1>10. BuffersHold'
  <2> SUFFICES ASSUME NEW s \in Ranks, NEW d \in Ranks, pc'[s] = "acking"
               PROVE  ackBuffer'[s][d] = Acked(s, d)
    BY <1>2, <1>3 DEF BuffersHold
  <2>1. CASE s = r
    BY <1>1, <2>1
  <2>2. CASE s # r
    BY <1>1, <2>2 DEF BuffersHold
  <2> QED BY <2>1, <2>2
<1>11. ArrivalsHold'
  <2>1. \A d \in Ranks, m \in Messages :
          m \in arrived[d] <=> \E s \in Ranks : m \in Buffered(s, d)
    BY <1>3 DEF ArrivalsHold
  <2>2. \A d \in Ranks, m \in Messages :
          m \in arrived'[d] <=> \E s \in Ranks : m \in Buffered(s, d)'
    BY <1>1, <1>2, <2>1
  <2> QED BY <1>3, <2>2 DEF ArrivalsHold
<1>12. DeliveriesHold'
  <2>1. \A s \in Ranks : \A m \in intents[s] :
          pc'[Origin(Receiver(m))] \in {"consuming", "acking"}
    BY <1>3, Ranges
  <2>2. \A s \in Ranks : \A m \in intents[s] :
          deliveries'[m] =
            IF IsLocal(s, m) THEN 1
            ELSE IF /\ Reachable(m)
                    /\ pc'[Origin(Receiver(m))] \in {"acking", "closing", "deciding"}
            THEN 1 ELSE 0
    BY ONLY <1>6, <2>1
  <2> QED BY ONLY <1>1, <1>2, <1>3, <2>2 DEF DeliveriesHold, Origin
<1>13. ReceiptsHold'
  <2>1. \A s \in Ranks : \A m \in intents[s] : pending[m] = IF TwoWay(m) THEN "pending" ELSE "none"
    BY <1>3, Ranges DEF ReceiptsHold
  <2>2. \A s \in Ranks : \A m \in intents[s] : Origin(Sender(m)) \in Ranks
    BY Ranges
  <2> QED BY <1>1, <1>2, <1>3, <2>1, <2>2 DEF ReceiptsHold, Origin
<1>14. InboxesHold'
  <2> SUFFICES ASSUME NEW p \in Persons, NEW s \in Ranks, NEW m \in intents[s],
                      Receiver(m) = p, deliveries'[m] = 1
               PROVE  m \in inbox'[p]
    BY <1>1, <1>2, <1>3, Ranges DEF InboxesHold
  <2>1. CASE m \in Present(r)
    BY <1>1, <2>1
  <2>2. CASE m \notin Present(r)
    <3>1. deliveries[m] = 1
      BY <1>1, <2>2, Ranges
    <3>2. pc[At(p)] # "deciding" /\ pc[s] # "collecting"
      BY <1>3, Ranges
    <3> QED BY <1>1, <3>1, <3>2 DEF InboxesHold
  <2> QED BY <2>1, <2>2
<1>15. PromisesHold'
  <2> SUFFICES ASSUME NEW m \in Messages
               PROVE  /\ deliveries'[m] \in {0, 1}
                      /\ pending[m] = "received" => deliveries'[m] = 1 /\ TwoWay(m)
    BY <1>1, <1>2 DEF PromisesHold
  <2> QED BY <1>1, <1>5 DEF PromisesHold
<1> QED BY <1>7, <1>8, <1>9, <1>10, <1>11, <1>12, <1>13, <1>14, <1>15

\* The exchange of receipts: for every two-way message that found its receiver, at the
\* rank that created the sender.
LEMMA ExchangeAcksInv ==
  ASSUME CommunicationAssumption, BlankAssumption, IInv, ExchangeAcks PROVE IInv'
<1> USE DEF IInv
<1>1. /\ \A r \in Ranks : pc[r] = "acking"
      /\ pc' = [r \in Ranks |-> "closing"]
      /\ arrived' = [d \in Ranks |-> UNION {ackBuffer[r][d] : r \in Ranks}]
      /\ UNCHANGED <<place, letter, outbound, intents, buffer, ackBuffer,
                     inbox, recent, pending, deliveries>>
  BY DEF ExchangeAcks, AllGo, AllToAll, people
<1>2. /\ \A p : At(p)' = At(p)
      /\ \A m : Sender(m)' = Sender(m) /\ Receiver(m)' = Receiver(m)
      /\ \A m : (TwoWay(m)' <=> TwoWay(m)) /\ (Reachable(m)' <=> Reachable(m))
      /\ \A s, m : IsLocal(s, m)' <=> IsLocal(s, m)
  BY <1>1, NothingMoves
<1>3. \A d \in Ranks, m \in Messages :
        m \in arrived'[d] <=> /\ \E r \in Ranks : m \in intents[r]
                              /\ TwoWay(m) /\ Reachable(m) /\ Origin(Sender(m)) = d
  <2> TAKE d \in Ranks, m \in Messages
  <2>1. m \in arrived'[d] <=> \E e \in Ranks : m \in Acked(e, d)
    BY <1>1 DEF BuffersHold
  <2>2. \A e \in Ranks : m \in Acked(e, d) <=>
          /\ \E r \in Ranks : m \in intents[r] /\ ~IsLocal(r, m)
          /\ Origin(Receiver(m)) = e /\ At(Receiver(m)) = e
          /\ TwoWay(m) /\ Origin(Sender(m)) = d
    BY <1>1 DEF ArrivalsHold, Acked, Present, Buffered, TwoWay
  <2>3. TwoWay(m) => \A r \in Ranks : ~IsLocal(r, m)
    BY DEF TwoWay, IsLocal
  <2> QED BY <2>1, <2>2, <2>3, Ranges DEF Reachable
<1>4. TypeOK'
  BY <1>1 DEF TypeOK, Phases
<1>5. InStep' /\ UnsentUntouched' /\ OutboundWritten' /\ CollectedOnce'
  BY <1>1 DEF InStep, UnsentUntouched, Untouched, OutboundWritten, CollectedOnce
<1>6. BuffersHold'
  BY <1>1 DEF BuffersHold
<1>7. ArrivalsHold'
  BY <1>1, <1>2, <1>3 DEF ArrivalsHold, Origin
<1>8. DeliveriesHold'
  BY <1>1, <1>2, Ranges DEF DeliveriesHold, Origin
<1>9. ReceiptsHold'
  BY <1>1, <1>2, Ranges DEF ReceiptsHold, Origin
<1>10. InboxesHold'
  BY <1>1, <1>2, Ranges DEF InboxesHold
<1>11. PromisesHold'
  BY <1>1, <1>2 DEF PromisesHold
<1> QED BY <1>4, <1>5, <1>6, <1>7, <1>8, <1>9, <1>10, <1>11

\* The receipts for the senders that are still here are noted, and the inboxes of the
\* people here are processed.
LEMMA CloseInv ==
  ASSUME CommunicationAssumption, BlankAssumption, IInv, NEW r \in Ranks, Close(r)
  PROVE  IInv'
<1> USE DEF IInv
<1>1. /\ pc[r] = "closing" /\ pc'[r] = "deciding"
      /\ \A s \in Ranks \ {r} : pc'[s] = pc[s]
      /\ pending' = [m \in Messages |->
                       IF m \in arrived[r] /\ At(Sender(m)) = r /\ pending[m] # "none"
                         THEN "received" ELSE pending[m]]
      /\ recent' = [p \in Persons |-> IF At(p) = r THEN inbox[p] ELSE recent[p]]
      /\ inbox' = [p \in Persons |-> IF At(p) = r THEN {} ELSE inbox[p]]
      /\ UNCHANGED <<place, letter, outbound, intents, buffer, ackBuffer, arrived, deliveries>>
  BY DEF Close, Goes, RecentAfter, TypeOK, buffers
<1>2. /\ \A p : At(p)' = At(p)
      /\ \A m : Sender(m)' = Sender(m) /\ Receiver(m)' = Receiver(m)
      /\ \A m : (TwoWay(m)' <=> TwoWay(m)) /\ (Reachable(m)' <=> Reachable(m))
      /\ \A s, m : IsLocal(s, m)' <=> IsLocal(s, m)
  BY <1>1, NothingMoves
<1>3. \A s \in Ranks : pc[s] \in {"closing", "deciding"} /\ pc'[s] \in {"closing", "deciding"}
  BY <1>1 DEF InStep
<1>4. \A m \in Messages :
        m \in arrived[r] <=> /\ \E s \in Ranks : m \in intents[s]
                             /\ TwoWay(m) /\ Reachable(m) /\ Origin(Sender(m)) = r
  BY <1>1 DEF ArrivalsHold
<1>5. \A s \in Ranks : \A m \in intents[s] :
        pending[m] =
          IF ~TwoWay(m) THEN "none"
          ELSE IF /\ Reachable(m) /\ At(Sender(m)) = Origin(Sender(m))
                  /\ pc[Origin(Sender(m))] = "deciding" THEN "received"
          ELSE "pending"
  BY <1>3 DEF ReceiptsHold
<1>6. \A s \in Ranks : \A m \in intents[s] :
        pending'[m] =
          IF ~TwoWay(m) THEN "none"
          ELSE IF /\ Reachable(m) /\ At(Sender(m)) = Origin(Sender(m))
                  /\ pc'[Origin(Sender(m))] = "deciding" THEN "received"
          ELSE "pending"
  <2> SUFFICES ASSUME NEW s \in Ranks, NEW m \in intents[s]
               PROVE  pending'[m] =
                        IF ~TwoWay(m) THEN "none"
                        ELSE IF /\ Reachable(m) /\ At(Sender(m)) = Origin(Sender(m))
                                /\ pc'[Origin(Sender(m))] = "deciding" THEN "received"
                        ELSE "pending"
    OBVIOUS
  <2>1. m \in Messages /\ Origin(Sender(m)) \in Ranks
    BY Ranges
  <2>2. CASE Origin(Sender(m)) = r
    <3>1. m \in arrived[r] <=> TwoWay(m) /\ Reachable(m)
      BY <1>4, <2>1, <2>2
    <3>2. pending[m] = IF TwoWay(m) THEN "pending" ELSE "none"
      BY <1>1, <1>5, <2>2
    <3> QED BY <1>1, <2>1, <2>2, <3>1, <3>2
  <2>3. CASE Origin(Sender(m)) # r
    <3>1. m \notin arrived[r]
      BY <1>4, <2>1, <2>3
    <3>2. pending'[m] = pending[m]
      BY <1>1, <2>1, <3>1
    <3> QED BY <1>1, <1>5, <2>1, <2>3, <3>2
  <2> QED BY <2>2, <2>3
<1>7. \A m \in Messages : m \in arrived[r] => deliveries[m] = 1 /\ TwoWay(m)
  <2> SUFFICES ASSUME NEW m \in Messages, m \in arrived[r]
               PROVE  deliveries[m] = 1 /\ TwoWay(m)
    OBVIOUS
  <2>1. PICK s \in Ranks : m \in intents[s]
    BY <1>4
  <2>2. TwoWay(m) /\ Reachable(m) /\ ~IsLocal(s, m)
    BY <1>4 DEF TwoWay, IsLocal
  <2>3. pc[Origin(Receiver(m))] \in {"closing", "deciding"}
    BY <1>3, <2>1, Ranges
  <2> QED BY <1>3, <2>1, <2>2, <2>3 DEF DeliveriesHold
<1>8. TypeOK'
  <2>1. /\ pending' \in [Messages -> {"none", "pending", "received"}]
        /\ recent' \in [Persons -> SUBSET Messages]
        /\ inbox' \in [Persons -> SUBSET Messages]
    BY <1>1 DEF TypeOK
  <2>2. pc' \in [Ranks -> Phases]
    BY DEF Close, Goes, TypeOK, Phases
  <2> QED BY <1>1, <2>1, <2>2 DEF TypeOK
<1>9. InStep'
  BY <1>3 DEF InStep
<1>10. UnsentUntouched' /\ OutboundWritten' /\ CollectedOnce'
  <2>1. UnsentUntouched'
    BY <1>1 DEF UnsentUntouched, Untouched
  <2>2. OutboundWritten' /\ CollectedOnce'
    BY <1>1 DEF OutboundWritten, CollectedOnce
  <2> QED BY <2>1, <2>2
<1>11. BuffersHold'
  BY <1>3 DEF BuffersHold
<1>12. ArrivalsHold'
  <2>1. \A d \in Ranks : pc'[d] = "closing" => pc[d] = "closing"
    BY <1>1
  <2> QED BY <1>1, <1>2, <1>3, <2>1 DEF ArrivalsHold, Origin
<1>13. DeliveriesHold'
  <2> SUFFICES ASSUME NEW s \in Ranks, NEW m \in intents[s]
               PROVE  deliveries[m] = IF IsLocal(s, m) \/ Reachable(m) THEN 1 ELSE 0
    BY <1>1, <1>2, <1>3, Ranges DEF DeliveriesHold, Origin
  <2>1. pc[Origin(Receiver(m))] \in {"closing", "deciding"}
    BY <1>3, Ranges
  <2> QED BY <1>3, <2>1 DEF DeliveriesHold
<1>14. ReceiptsHold'
  BY <1>1, <1>2, <1>3, <1>6 DEF ReceiptsHold, Origin
<1>15. InboxesHold'
  <2>1. \A p \in Persons : pc'[At(p)] = "deciding" => inbox'[p] = {}
    BY <1>1, Ranges DEF InboxesHold
  <2> SUFFICES ASSUME NEW p \in Persons, NEW s \in Ranks, NEW m \in intents[s],
                      Receiver(m) = p, deliveries[m] = 1
               PROVE  IF pc'[At(p)] = "deciding" THEN m \in recent'[p] ELSE m \in inbox'[p]
    BY <1>1, <1>2, <1>3, <2>1, Ranges DEF InboxesHold
  <2>2. At(p) \in Ranks /\ pc[s] # "collecting"
    BY <1>3, Ranges
  <2>3. IF pc[At(p)] = "deciding" THEN m \in recent[p] ELSE m \in inbox[p]
    BY <2>2 DEF InboxesHold
  <2>4. CASE At(p) = r
    BY <1>1, <2>3, <2>4
  <2>5. CASE At(p) # r
    BY <1>1, <2>2, <2>3, <2>5
  <2> QED BY <2>4, <2>5
<1>16. PromisesHold'
  <2> SUFFICES ASSUME NEW m \in Messages, pending'[m] = "received"
               PROVE  deliveries[m] = 1 /\ TwoWay(m)
    BY <1>1, <1>2 DEF PromisesHold
  <2>1. CASE m \in arrived[r]
    BY <1>7, <2>1
  <2>2. CASE m \notin arrived[r]
    BY <1>1, <2>2 DEF PromisesHold
  <2> QED BY <2>1, <2>2
<1> QED BY <1>8, <1>9, <1>10, <1>11, <1>12, <1>13, <1>14, <1>15, <1>16

LEMMA StutterInv == ASSUME IInv, UNCHANGED vars PROVE IInv'
<1> USE DEF IInv, vars, buffers, people
<1>0. /\ \A p : At(p)' = At(p)
      /\ \A m : Sender(m)' = Sender(m) /\ Receiver(m)' = Receiver(m)
      /\ \A m : (TwoWay(m)' <=> TwoWay(m)) /\ (Reachable(m)' <=> Reachable(m))
      /\ \A s, m : IsLocal(s, m)' <=> IsLocal(s, m)
      /\ \A s, d : Buffered(s, d)' = Buffered(s, d) /\ Acked(s, d)' = Acked(s, d)
  BY NothingMoves DEF Buffered, Acked, Present, Origin
<1>1. TypeOK' /\ InStep' /\ UnsentUntouched' /\ OutboundWritten' /\ CollectedOnce'
  BY DEF TypeOK, InStep, UnsentUntouched, Untouched, OutboundWritten, CollectedOnce
<1>2. BuffersHold'
  BY <1>0 DEF BuffersHold
<1>3. ArrivalsHold'
  BY <1>0 DEF ArrivalsHold, Origin
<1>4. DeliveriesHold'
  BY <1>0 DEF DeliveriesHold, Origin
<1>5. ReceiptsHold'
  BY <1>0 DEF ReceiptsHold, Origin
<1>6. InboxesHold' /\ PromisesHold'
  BY <1>0 DEF InboxesHold, PromisesHold
<1> QED BY <1>1, <1>2, <1>3, <1>4, <1>5, <1>6

\* Every rank's progress, the buffers, arrivals and inboxes agree at each step with what
\* was collected in this tick.
THEOREM Invariance == Spec => []IInv
<1>1. Init => IInv
  BY InitInv, CommunicationAssumption, BlankAssumption
<1>2. IInv /\ [Next]_vars => IInv'
  BY MovePeopleInv, CountIntentsInv, ExchangeMessagesInv, ExchangeAcksInv, CollectInv, RouteInv,
     ConsumeInv, CloseInv, QueueIntentInv, StutterInv, CommunicationAssumption, BlankAssumption
     DEF Next, RankStep
<1> QED BY <1>1, <1>2, PTL DEF Spec
-----------------------------------------------------------------------------
(* What it means for the messages. *)

\* No message is delivered twice, by the local and the remote path together, however
\* many ranks there are and wherever people move between ticks.
THEOREM AtMostOneDelivery == Spec => []DeliveredAtMostOnce
<1>1. IInv => DeliveredAtMostOnce
  BY DEF IInv, PromisesHold, DeliveredAtMostOnce
<1> QED BY <1>1, Invariance, PTL

\* A sender that counts its message as received asked for a receipt, and its receiver
\* got the message.
THEOREM NoFalseReceipt == Spec => []ReceiptsAreTrue
<1>1. IInv => ReceiptsAreTrue
  BY DEF IInv, PromisesHold, ReceiptsAreTrue, TwoWay
<1> QED BY <1>1, Invariance, PTL

\* When the ranks are done, a message sent in the tick is missing only at a receiver that
\* has migrated, and a receipt only if one of the two has.
THEOREM MissingOnlyByMigration == Spec => []OnlyMigrantsMissOut
<1>1. IInv => OnlyMigrantsMissOut
  <2> SUFFICES ASSUME IInv, CommunicationDone, NEW s \in Ranks, NEW m \in intents[s]
               PROVE  /\ deliveries[m] = 0 => At(Receiver(m)) # Origin(Receiver(m))
                      /\ pending[m] = "pending" =>
                           \/ At(Receiver(m)) # Origin(Receiver(m))
                           \/ At(Sender(m)) # Origin(Sender(m))
    BY DEF OnlyMigrantsMissOut, SentNow
  <2>1. /\ Origin(Receiver(m)) \in Ranks /\ Origin(Sender(m)) \in Ranks
    BY Ranges, CommunicationAssumption, BlankAssumption
  <2>2. deliveries[m] = IF IsLocal(s, m) \/ Reachable(m) THEN 1 ELSE 0
    BY <2>1 DEF IInv, CommunicationDone, DeliveriesHold
  <2>3. pending[m] = "pending" => ~(Reachable(m) /\ At(Sender(m)) = Origin(Sender(m)))
    BY <2>1 DEF IInv, CommunicationDone, ReceiptsHold
  <2> QED BY <2>2, <2>3 DEF Reachable
<1> QED BY <1>1, Invariance, PTL

\* When an engine decides, its person's inbox is empty and what was delivered in the
\* tick is among the recent messages it sees.
THEOREM EnginesSeeDeliveries == Spec => []DeliveriesAreSeen
<1>1. IInv => DeliveriesAreSeen
  <2> SUFFICES ASSUME IInv, CommunicationDone
               PROVE  /\ \A p \in Persons : inbox[p] = {}
                      /\ \A s \in Ranks : \A m \in intents[s] :
                           deliveries[m] = 1 => m \in recent[Receiver(m)]
    BY DEF DeliveriesAreSeen, SentNow
  <2>1. \A p \in Persons : pc[At(p)] = "deciding"
    BY Ranges, CommunicationAssumption, BlankAssumption DEF CommunicationDone
  <2>2. \A p \in Persons : inbox[p] = {}
    BY <2>1 DEF IInv, InboxesHold
  <2>3. ASSUME NEW s \in Ranks, NEW m \in intents[s], deliveries[m] = 1
        PROVE  m \in recent[Receiver(m)]
    <3>1. Receiver(m) \in Persons
      BY Ranges, CommunicationAssumption, BlankAssumption
    <3>2. pc[s] # "collecting"
      BY DEF CommunicationDone
    <3> QED BY <2>1, <2>3, <3>1, <3>2 DEF IInv, InboxesHold
  <2> QED BY <2>2, <2>3
<1> QED BY <1>1, Invariance, PTL
=============================================================================
