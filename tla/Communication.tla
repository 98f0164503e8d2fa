--------------------------- MODULE Communication ---------------------------
(***************************************************************************)
(* The communication phases of a tick (CasmPop.run_communication_phases,   *)
(* casmsocial/communication/manager.py and the message methods of Person): *)
(* the ranks collect their people's intents, agree whether there are any,  *)
(* deliver or buffer them, exchange messages, then acknowledgments, and    *)
(* process the inboxes.  Between ticks people move, with everything they   *)
(* carry; Migration shows that a person is then on the rank of its place.  *)
(*                                                                         *)
(* The rank in a person's uid is the rank that created it and never        *)
(* changes.  A message is an identity; its letter says whose it is.        *)
(***************************************************************************)
EXTENDS Naturals, FiniteSets

CONSTANTS
  Ranks, Persons, Places,
  PlaceRank,       \* place_to_rank
  Home,            \* where each person is created
  SocialMessages,  \* social_networks.remote_messages.enabled
  Messages,        \* message identities: bounds the number of messages of a run
  Blank            \* the letter of a message not yet written

ASSUME CommunicationAssumption ==
  /\ PlaceRank \in [Places -> Ranks]
  /\ Home \in [Persons -> Places]
  /\ SocialMessages \in BOOLEAN

Modes == {"local", "one_way", "two_way"}
Letters == {l \in [sender : Persons, receiver : Persons, mode : Modes] : l.sender # l.receiver}
ASSUME BlankAssumption == Blank \notin Letters

VARIABLES
  place,       \* rank_place_id of each person
  letter,      \* what each message says
  outbound,    \* messages in their sender's outbound_message_intents
  intents,     \* the intents each rank collected this tick
  buffer,      \* remote_message_buffers of each rank, by destination
  ackBuffer,   \* remote_ack_buffers of each rank, by destination
  arrived,     \* what the last exchange brought each rank
  inbox,       \* inbox of each person
  recent,      \* recent_messages of each person
  pending,     \* the entry of each message in its sender's pending_acks
  deliveries,  \* how often each message was delivered (history)
  pc           \* where each rank is in run_communication_phases

people == <<inbox, recent, pending, deliveries>>
buffers == <<buffer, ackBuffer, arrived>>
vars == <<place, letter, outbound, intents, buffers, people, pc>>

Phases == {"collecting", "counting", "routing", "exchanging", "consuming", "acking",
           "closing", "deciding"}

TypeOK ==
  /\ place \in [Persons -> Places]
  /\ letter \in [Messages -> Letters \cup {Blank}]
  /\ outbound \in SUBSET Messages
  /\ intents \in [Ranks -> SUBSET Messages]
  /\ buffer \in [Ranks -> [Ranks -> SUBSET Messages]]
  /\ ackBuffer \in [Ranks -> [Ranks -> SUBSET Messages]]
  /\ arrived \in [Ranks -> SUBSET Messages]
  /\ inbox \in [Persons -> SUBSET Messages]
  /\ recent \in [Persons -> SUBSET Messages]
  /\ pending \in [Messages -> {"none", "pending", "received"}]
  /\ deliveries \in [Messages -> Nat]
  /\ pc \in [Ranks -> Phases]

\* clear_buffers: an empty list per destination.
NoBuffers == [d \in Ranks |-> {}]

Init ==
  /\ place = Home
  /\ letter = [m \in Messages |-> Blank]
  /\ outbound = {}
  /\ intents = [r \in Ranks |-> {}]
  /\ buffer = [r \in Ranks |-> NoBuffers]
  /\ ackBuffer = [r \in Ranks |-> NoBuffers]
  /\ arrived = [r \in Ranks |-> {}]
  /\ inbox = [p \in Persons |-> {}]
  /\ recent = [p \in Persons |-> {}]
  /\ pending = [m \in Messages |-> "none"]
  /\ deliveries = [m \in Messages |-> 0]
  /\ pc = [r \in Ranks |-> "collecting"]
-----------------------------------------------------------------------------
Goes(r, from, to) == pc[r] = from /\ pc' = [pc EXCEPT ![r] = to]
AllGo(from, to) == (\A r \in Ranks : pc[r] = from) /\ pc' = [r \in Ranks |-> to]

At(p) == PlaceRank[place[p]]
Origin(p) == PlaceRank[Home[p]]    \* uid[2]
Residents(r) == {p \in Persons : At(p) = r}
Sender(m) == letter[m].sender
Receiver(m) == letter[m].receiver
Unwritten == {m \in Messages : letter[m] = Blank}

\* Environment.step: people move, together with what they carry.
MovePeople ==
  /\ AllGo("deciding", "collecting")
  /\ place' \in [Persons -> Places]
  /\ UNCHANGED <<letter, outbound, intents, buffers, people>>

\* generate_remote_social_message_intents: a two-way letter from some of a
\* rank's people, one each.
SocialLetters(r) ==
  {l \in Letters : SocialMessages /\ l.mode = "two_way" /\ l.sender \in Residents(r)}

\* Collect the residents' intents and add the social ones.
Collect(r) ==
  \E social \in SUBSET Unwritten : \E text \in [social -> SocialLetters(r)] :
    LET own == {m \in outbound : Sender(m) \in Residents(r)} IN
    /\ \A m, n \in social : text[m].sender = text[n].sender => m = n
    /\ Goes(r, "collecting", "counting")
    /\ letter' = [m \in Messages |-> IF m \in social THEN text[m] ELSE letter[m]]
    /\ intents' = [intents EXCEPT ![r] = own \cup social]
    /\ outbound' = outbound \ own
    /\ buffer' = [buffer EXCEPT ![r] = NoBuffers]
    /\ ackBuffer' = [ackBuffer EXCEPT ![r] = NoBuffers]
    /\ UNCHANGED <<place, arrived, people>>

\* The allreduce of the intent counts; without any intent the tick's
\* communication ends here on every rank.
CountIntents ==
  /\ IF \A r \in Ranks : intents[r] = {}
       THEN AllGo("counting", "deciding")
       ELSE AllGo("counting", "routing")
  /\ UNCHANGED <<place, letter, outbound, intents, buffers, people>>
-----------------------------------------------------------------------------
(* CommunicationManager. *)

\* _is_local_delivery
IsLocal(r, m) ==
  /\ letter[m].mode = "local"
  /\ Origin(Receiver(m)) = r /\ At(Receiver(m)) = r
  /\ place[Receiver(m)] = place[Sender(m)]

\* Receive the messages S.
Deliver(S) ==
  /\ inbox' = [p \in Persons |-> inbox[p] \cup {m \in S : Receiver(m) = p}]
  /\ deliveries' = [m \in Messages |-> IF m \in S THEN deliveries[m] + 1 ELSE deliveries[m]]

\* Mutant: a message that is delivered locally is buffered as well.
BufferedTwice(r, d) == {m \in intents[r] : Origin(Receiver(m)) = d}

\* Mutant: everything goes to the rank the sender came from.
BufferedForSender(r, d) == {m \in intents[r] : ~IsLocal(r, m) /\ Origin(Sender(m)) = d}

\* What is not local is buffered for the rank in the receiver's uid.
Buffered(r, d) == {m \in intents[r] : ~IsLocal(r, m) /\ Origin(Receiver(m)) = d}

\* route and queue_remote.
Route(r) ==
  LET local == {m \in intents[r] : IsLocal(r, m)} IN
  /\ Goes(r, "routing", "exchanging")
  /\ Deliver(local)
  /\ buffer' = [buffer EXCEPT ![r] = [d \in Ranks |-> Buffered(r, d)]]
  /\ pending' = [m \in Messages |->
                   IF m \in intents[r] \ local /\ letter[m].mode = "two_way" THEN "pending"
                   ELSE pending[m]]
  /\ UNCHANGED <<place, letter, outbound, intents, ackBuffer, arrived, recent>>

\* comm.alltoall: every rank gets what the others have buffered for it.
AllToAll(sent) == arrived' = [d \in Ranks |-> UNION {sent[r][d] : r \in Ranks}]

ExchangeMessages ==
  /\ AllGo("exchanging", "consuming")
  /\ AllToAll(buffer)
  /\ UNCHANGED <<place, letter, outbound, intents, buffer, ackBuffer, people>>

Present(r) == {m \in arrived[r] : At(Receiver(m)) = r}

\* Mutant: a receiver that is not on the rank is acknowledged all the same.
AckedUnseen(r, d) == {m \in arrived[r] : letter[m].mode = "two_way" /\ Origin(Sender(m)) = d}

\* Two-way messages are acknowledged to the rank in the sender's uid.
Acked(r, d) == {m \in Present(r) : letter[m].mode = "two_way" /\ Origin(Sender(m)) = d}

\* consume_remote_messages
Consume(r) ==
  /\ Goes(r, "consuming", "acking")
  /\ Deliver(Present(r))
  /\ ackBuffer' = [ackBuffer EXCEPT ![r] = [d \in Ranks |-> Acked(r, d)]]
  /\ UNCHANGED <<place, letter, outbound, intents, buffer, arrived, recent, pending>>

ExchangeAcks ==
  /\ AllGo("acking", "closing")
  /\ AllToAll(ackBuffer)
  /\ UNCHANGED <<place, letter, outbound, intents, buffer, ackBuffer, people>>

\* Mutant: the engine keeps the first messages it saw.
RecentKept(r, p) == IF At(p) = r /\ recent[p] = {} THEN inbox[p] ELSE recent[p]

\* process_inbox, for the people who are here.
RecentAfter(r, p) == IF At(p) = r THEN inbox[p] ELSE recent[p]

\* consume_acks for the senders that are here, then process_person_inboxes.
Close(r) ==
  /\ Goes(r, "closing", "deciding")
  /\ pending' = [m \in Messages |->
                   IF m \in arrived[r] /\ At(Sender(m)) = r /\ pending[m] # "none"
                     THEN "received" ELSE pending[m]]
  /\ recent' = [p \in Persons |-> RecentAfter(r, p)]
  /\ inbox' = [p \in Persons |-> IF At(p) = r THEN {} ELSE inbox[p]]
  /\ UNCHANGED <<place, letter, outbound, intents, buffers, deliveries>>

\* An engine's decision queues a message for the next tick.
QueueIntent(m, l) ==
  /\ letter[m] = Blank
  /\ pc[At(l.sender)] = "deciding"
  /\ letter' = [letter EXCEPT ![m] = l]
  /\ outbound' = outbound \cup {m}
  /\ UNCHANGED <<place, intents, buffers, people, pc>>

RankStep(r) == Collect(r) \/ Route(r) \/ Consume(r) \/ Close(r)

Next ==
  \/ MovePeople \/ CountIntents \/ ExchangeMessages \/ ExchangeAcks
  \/ \E r \in Ranks : RankStep(r)
  \/ \E m \in Messages, l \in Letters : QueueIntent(m, l)

Spec == Init /\ [][Next]_vars
-----------------------------------------------------------------------------
(* Properties. *)

CommunicationDone == \A r \in Ranks : pc[r] = "deciding"
SentNow == UNION {intents[r] : r \in Ranks}

\* However people move between ticks, no message is delivered twice, by the local
\* and the remote path together.
DeliveredAtMostOnce == TypeOK /\ \A m \in Messages : deliveries[m] <= 1

\* A sender that counts its message as received is right: it asked for a receipt, and
\* the receiver got the message.
ReceiptsAreTrue ==
  \A m \in Messages :
    pending[m] = "received" => deliveries[m] = 1 /\ letter[m].mode = "two_way"

\* A message sent this tick is missed only if its receiver has migrated away from
\* the rank that created it, and a receipt only if one of the two has.
OnlyMigrantsMissOut ==
  CommunicationDone =>
    \A m \in SentNow :
      LET away(p) == At(p) # Origin(p) IN
      /\ deliveries[m] = 0 => away(Receiver(m))
      /\ pending[m] = "pending" => away(Receiver(m)) \/ away(Sender(m))

\* What was delivered this tick is what the receiver's engine sees when it decides,
\* and nothing is left in an inbox.
DeliveriesAreSeen ==
  CommunicationDone =>
    /\ \A p \in Persons : inbox[p] = {}
    /\ \A m \in SentNow : deliveries[m] = 1 => m \in recent[Receiver(m)]

=============================================================================
