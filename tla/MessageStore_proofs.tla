-------------------------- MODULE MessageStore_proofs --------------------------
(***************************************************************************)
(* Proofs about the message store: its type invariant, and that IDs are    *)
(* unique, that no empty slice stays in the map and that what a reader     *)
(* took out does not come back, for any number of recipients, senders,     *)
(* messages and ID values.                                                 *)
(*                                                                         *)
(* The argument is about serial numbers.  A serial is in at most one       *)
(* place: with one sender, in one mailbox, or among those gone; and as     *)
(* long as the counter has not wrapped around, an ID is its message's      *)
(* serial, with the counter's last value written as 0.                     *)
(***************************************************************************)
EXTENDS MessageStore, TLAPS

\* The ID that goes with a serial before the counter wraps around.
IDOf(n) == IF n = IdModulus THEN 0 ELSE n

Coherent(m) == m.serial <= issued /\ (m.serial <= IdModulus => m.id = IDOf(m.serial))

CounterInv == issued <= IdModulus => nextMessageID = IDOf(issued)

StoredInv == \A p \in DOMAIN messages : \A m \in messages[p] : Coherent(m)

PendingInv == \A s \in Senders : pending[s] # NoMessage => Coherent(pending[s])

\* A serial is with one sender only, ...
OneSender ==
    \A s, t \in Senders :
        pending[s] # NoMessage /\ pending[t] # NoMessage /\ pending[s].serial = pending[t].serial
            => s = t

\* ... not both with a sender and in a mailbox, ...
NotYetStored ==
    \A s \in Senders, p \in DOMAIN messages : pending[s] # NoMessage =>
        \A m \in messages[p] : m.serial # pending[s].serial

\* ... in one mailbox only, ...
OneMailbox ==
    \A p, q \in DOMAIN messages : \A m \in messages[p], n \in messages[q] :
        m.serial = n.serial => p = q /\ m = n

\* ... and not among those gone, which are old.
GoneInv ==
    \A n \in gone :
        /\ n <= issued
        /\ \A p \in DOMAIN messages : \A m \in messages[p] : m.serial # n
        /\ \A s \in Senders : pending[s] # NoMessage => pending[s].serial # n

SerialInv ==
    /\ CounterInv
    /\ StoredInv
    /\ PendingInv
    /\ OneSender
    /\ NotYetStored
    /\ OneMailbox
    /\ GoneInv
------------------------------------------------------------------------------
(* The type invariant.                                                     *)

\* Increment stays within the values of the counter.
LEMMA IncrementType == \A id \in IDs : Increment(id) \in IDs
  BY BoundsAssumption DEF IDs, Increment

\* Writing a mailbox back, or deleting it when it is empty, keeps the map well typed.
LEMMA KeepType ==
  ASSUME NEW p \in Recipients, NEW S \in SUBSET Stored,
         DOMAIN messages \subseteq Recipients,
         messages \in [DOMAIN messages -> SUBSET Stored],
         messages' = Keep(p, S)
  PROVE  /\ DOMAIN messages' \subseteq Recipients
         /\ messages' \in [DOMAIN messages' -> SUBSET Stored]
  BY DEF Keep, WithMailbox, WithoutMailbox

\* The slice looked up for a recipient holds stored messages.
LEMMA StoredForType ==
  ASSUME TypeOK, NEW p \in Recipients
  PROVE  StoredFor(p) \in SUBSET Stored
  BY DEF TypeOK, StoredFor

\* Serials taken out of a slice are serials.
LEMMA TakenOutType ==
  ASSUME gone \in SUBSET Serials, NEW S \in SUBSET Stored, TakenOut(S)
  PROVE  gone' \in SUBSET Serials
  BY DEF TakenOut, Stored

\* A reader's call is a call of one of the store's methods.
LEMMA ReaderCalls ==
  ASSUME Read
  PROVE  \E p \in Recipients :
           \/ GetMessages(p)
           \/ GetAndClearMessages(p)
           \/ \E ids \in SUBSET IDs :
               \/ DeleteMessages(p, ids)
               \/ \E deleteAfter \in BOOLEAN : GetMessagesByIDs(p, ids, deleteAfter)
<1>1. ASSUME NEW p \in Recipients, NEW ids \in SUBSET IDs, NEW leave \in BOOLEAN,
             RetrieveMessages(p, ids, leave)
      PROVE  \E deleteAfter \in BOOLEAN : GetMessagesByIDs(p, ids, deleteAfter)
  <2>1. (~leave) \in BOOLEAN
    OBVIOUS
  <2> QED
    BY <1>1, <2>1 DEF RetrieveMessages
<1> QED
  BY <1>1 DEF Read, GetMessageHeaders

\* What a handler reads of the map and keeps of it is well typed.
LEMMA ReadTypeOK ==
  ASSUME TypeOK, Read
  PROVE  TypeOK'
<1>1. PICK p \in Recipients :
        \/ GetMessages(p)
        \/ GetAndClearMessages(p)
        \/ \E ids \in SUBSET IDs :
            \/ DeleteMessages(p, ids)
            \/ \E deleteAfter \in BOOLEAN : GetMessagesByIDs(p, ids, deleteAfter)
  BY ReaderCalls
<1> DEFINE live == {m \in StoredFor(p) : Live(m)}
<1>2. StoredFor(p) \in SUBSET Stored /\ live \in SUBSET Stored
  BY StoredForType
<1>3. CASE GetMessages(p)
  BY <1>2, <1>3 DEF GetMessages, TypeOK, storeVars, loopVars
<1>4. CASE GetAndClearMessages(p)
  <2>1. gone' \in SUBSET Serials
    BY <1>2, <1>4, TakenOutType DEF GetAndClearMessages, TypeOK
  <2> QED
    BY <1>2, <1>4, <2>1 DEF GetAndClearMessages, WithoutMailbox, TypeOK, loopVars
<1>5. CASE \E ids \in SUBSET IDs : DeleteMessages(p, ids)
  <2>1. PICK ids \in SUBSET IDs : DeleteMessages(p, ids)
    BY <1>5
  <2> DEFINE named == Named(StoredFor(p), ids)
  <2>2. named \in SUBSET Stored /\ StoredFor(p) \ named \in SUBSET Stored
    BY <1>2 DEF Named
  <2>3. gone' \in SUBSET Serials
    BY <2>1, <2>2, TakenOutType DEF DeleteMessages, TypeOK
  <2>4. /\ DOMAIN messages' \subseteq Recipients
        /\ messages' \in [DOMAIN messages' -> SUBSET Stored]
    BY <2>1, <2>2, KeepType DEF DeleteMessages, TypeOK
  <2> QED
    BY <2>1, <2>3, <2>4 DEF DeleteMessages, TypeOK, loopVars
<1>6. CASE \E ids \in SUBSET IDs, deleteAfter \in BOOLEAN : GetMessagesByIDs(p, ids, deleteAfter)
  <2>1. PICK ids \in SUBSET IDs, deleteAfter \in BOOLEAN : GetMessagesByIDs(p, ids, deleteAfter)
    BY <1>6
  <2>2. reply' \in SUBSET Stored /\ live \ reply' \in SUBSET Stored
    BY <1>2, <2>1 DEF GetMessagesByIDs, Named
  <2>3. /\ gone' \in SUBSET Serials
        /\ DOMAIN messages' \subseteq Recipients
        /\ messages' \in [DOMAIN messages' -> SUBSET Stored]
    <3>1. CASE deleteAfter
      BY <2>1, <2>2, <3>1, TakenOutType, KeepType DEF GetMessagesByIDs, TypeOK
    <3>2. CASE ~deleteAfter
      BY <2>1, <3>2 DEF GetMessagesByIDs, TypeOK
    <3> QED
      BY <3>1, <3>2
  <2> QED
    BY <2>1, <2>2, <2>3 DEF GetMessagesByIDs, TypeOK, loopVars
<1> QED
  BY <1>1, <1>3, <1>4, <1>5, <1>6

\* A delivery assigns an ID in range and stores a message that fits the map.
LEMMA DeliverTypeOK ==
  ASSUME TypeOK, Deliver
  PROVE  TypeOK'
<1>1. PICK s \in Senders : NextMessageID(s) \/ AddMessage(s)
  BY DEF Deliver
<1>2. CASE NextMessageID(s)
  <2>1. nextMessageID' \in IDs /\ issued' \in 0 .. MaxMessages /\ issued' \in Serials
    BY <1>2, IncrementType, BoundsAssumption DEF NextMessageID, TypeOK, Serials
  <2>2. PICK p \in Recipients, life \in Lifetimes :
          pending' = [pending EXCEPT ![s] =
                        [id |-> nextMessageID', serial |-> issued', to |-> p, lifeTime |-> life]]
    BY <1>2 DEF NextMessageID
  <2>3. pending' \in [Senders -> InFlight \cup {NoMessage}]
    BY <2>1, <2>2 DEF TypeOK, InFlight
  <2> QED
    BY <1>2, <2>1, <2>3 DEF NextMessageID, TypeOK, loopVars
<1>3. CASE AddMessage(s)
  <2> DEFINE msg == pending[s]
             stored == [id |-> msg.id, serial |-> msg.serial, expiresAt |-> now + msg.lifeTime]
  <2>1. msg \in InFlight
    BY <1>3 DEF AddMessage, TypeOK
  <2>2. stored \in Stored
    BY <2>1, BoundsAssumption DEF TypeOK, InFlight, Stored, Lifetimes
  <2>3. /\ messages' = WithMailbox(msg.to, StoredFor(msg.to) \cup {stored})
        /\ msg.to \in Recipients
    BY <1>3, <2>1 DEF AddMessage, InFlight
  <2>4. StoredFor(msg.to) \cup {stored} \in SUBSET Stored
    BY <2>2, <2>3, StoredForType
  <2>5. /\ DOMAIN messages' \subseteq Recipients
        /\ messages' \in [DOMAIN messages' -> SUBSET Stored]
    BY <2>3, <2>4 DEF WithMailbox, TypeOK
  <2> QED
    BY <1>3, <2>5 DEF AddMessage, TypeOK, loopVars
<1> QED
  BY <1>1, <1>2, <1>3

\* The purge goroutine drops messages and whole mailboxes.
LEMMA PurgeLoopTypeOK ==
  ASSUME TypeOK, PurgeLoop
  PROVE  TypeOK'
<1>1. CASE TickerFires
  BY <1>1 DEF TickerFires, TypeOK, storeVars
<1>2. CASE PurgeExpired
  BY <1>2 DEF PurgeExpired, TypeOK
<1>3. CASE LeaveLoop
  BY <1>3 DEF LeaveLoop, TypeOK, storeVars
<1> QED
  BY <1>1, <1>2, <1>3 DEF PurgeLoop

\* Every state of the store is well typed: IDs stay within the counter's width, and
\* only messages that were given an ID are stored, for the recipients they name.
THEOREM TypeCorrect == Spec => []TypeOK
<1>1. Init => TypeOK
  <2> SUFFICES ASSUME Init
               PROVE  TypeOK
    OBVIOUS
  <2>1. DOMAIN messages = {} /\ messages \in [DOMAIN messages -> SUBSET Stored]
    BY DEF Init
  <2>2. nextMessageID \in IDs /\ issued \in 0 .. MaxMessages /\ now \in 0 .. MaxTime
    BY BoundsAssumption DEF Init, IDs
  <2>3. pending \in [Senders -> InFlight \cup {NoMessage}]
    BY DEF Init
  <2> QED
    BY <2>1, <2>2, <2>3 DEF Init, TypeOK
<1>2. TypeOK /\ [Next]_vars => TypeOK'
  <2> SUFFICES ASSUME TypeOK, [Next]_vars
               PROVE  TypeOK'
    OBVIOUS
  <2>1. CASE Deliver
    BY <2>1, DeliverTypeOK
  <2>2. CASE Read
    BY <2>2, ReadTypeOK
  <2>3. CASE PurgeLoop
    BY <2>3, PurgeLoopTypeOK
  <2>4. CASE AdvanceClock
    BY <2>4, BoundsAssumption DEF AdvanceClock, TypeOK, storeVars, loopVars
  <2>5. CASE StopMessageStore
    BY <2>5 DEF StopMessageStore, TypeOK, storeVars
  <2>6. CASE UNCHANGED vars
    BY <2>6 DEF TypeOK, vars, storeVars, loopVars
  <2> QED
    BY <2>1, <2>2, <2>3, <2>4, <2>5, <2>6 DEF Next
<1> QED
  BY <1>1, <1>2, PTL DEF Spec
------------------------------------------------------------------------------
(* No slice in the map is empty.                                           *)

\* A delivery puts a message into the slice; every other write goes through Keep,
\* deletes a key or, in the purge, selects the keys that keep a message.
LEMMA NoEmptyMailboxStep ==
  ASSUME NoEmptyMailbox, [Next]_vars
  PROVE  NoEmptyMailbox'
<1> USE DEF NoEmptyMailbox
<1>1. ASSUME NEW p, NEW S, messages' = Keep(p, S)
      PROVE  NoEmptyMailbox'
  BY <1>1 DEF Keep, WithMailbox, WithoutMailbox
<1>2. CASE Deliver
  <2>1. PICK s \in Senders : NextMessageID(s) \/ AddMessage(s)
    BY <1>2 DEF Deliver
  <2>2. CASE NextMessageID(s)
    BY <2>2 DEF NextMessageID
  <2>3. CASE AddMessage(s)
    BY <2>3 DEF AddMessage, WithMailbox
  <2> QED
    BY <2>1, <2>2, <2>3
<1>3. CASE Read
  <2>1. PICK p \in Recipients :
          \/ GetMessages(p)
          \/ GetAndClearMessages(p)
          \/ \E ids \in SUBSET IDs :
              \/ DeleteMessages(p, ids)
              \/ \E deleteAfter \in BOOLEAN : GetMessagesByIDs(p, ids, deleteAfter)
    BY <1>3, ReaderCalls
  <2>2. CASE GetMessages(p)
    BY <2>2 DEF GetMessages, storeVars
  <2>3. CASE GetAndClearMessages(p)
    BY <2>3 DEF GetAndClearMessages, WithoutMailbox
  <2>4. ASSUME NEW ids \in SUBSET IDs, DeleteMessages(p, ids)
        PROVE  NoEmptyMailbox'
    BY <1>1, <2>4 DEF DeleteMessages
  <2>5. ASSUME NEW ids \in SUBSET IDs, NEW deleteAfter \in BOOLEAN,
               GetMessagesByIDs(p, ids, deleteAfter)
        PROVE  NoEmptyMailbox'
    BY <1>1, <2>5 DEF GetMessagesByIDs
  <2> QED
    BY <2>1, <2>2, <2>3, <2>4, <2>5
<1>4. CASE PurgeLoop
  BY <1>4 DEF PurgeLoop, TickerFires, PurgeExpired, LeaveLoop, storeVars
<1>5. CASE AdvanceClock \/ StopMessageStore \/ UNCHANGED vars
  BY <1>5 DEF AdvanceClock, StopMessageStore, vars, storeVars
<1> QED
  BY <1>2, <1>3, <1>4, <1>5 DEF Next

\* The map never keeps a key for a recipient without messages.
THEOREM NoEmptyMailboxes == Spec => []NoEmptyMailbox
<1>1. Init => NoEmptyMailbox
  BY DEF Init, NoEmptyMailbox
<1> QED
  BY <1>1, NoEmptyMailboxStep, PTL DEF Spec
------------------------------------------------------------------------------
(* Serial numbers.                                                         *)

\* Taking messages out of one mailbox, or dropping some from any, keeps SerialInv:
\* what is left was there before, and what is gone is left nowhere.
LEMMA RemovalKeepsSerialInv ==
  ASSUME SerialInv,
         NEW p, NEW out \in SUBSET StoredFor(p),
         UNCHANGED <<nextMessageID, issued, pending>>,
         \A q \in DOMAIN messages' : q \in DOMAIN messages /\ messages'[q] \subseteq messages[q],
         p \in DOMAIN messages' => messages'[p] \cap out = {},
         gone' = gone \cup {m.serial : m \in out}
  PROVE  SerialInv'
<1> USE DEF SerialInv
<1>1. CounterInv' /\ StoredInv' /\ PendingInv'
  BY DEF CounterInv, StoredInv, PendingInv, Coherent
<1>2. OneSender' /\ NotYetStored' /\ OneMailbox'
  BY DEF OneSender, NotYetStored, OneMailbox
<1>3. GoneInv'
  <2> SUFFICES ASSUME NEW n \in gone'
               PROVE  /\ n <= issued
                      /\ \A q \in DOMAIN messages' : \A m \in messages'[q] : m.serial # n
                      /\ \A s \in Senders : pending[s] # NoMessage => pending[s].serial # n
    BY DEF GoneInv
  <2>1. CASE n \in gone
    BY <2>1 DEF GoneInv
  <2>2. CASE n \notin gone
    <3>1. PICK m \in out : n = m.serial
      BY <2>2
    <3>2. p \in DOMAIN messages /\ m \in messages[p]
      BY DEF StoredFor
    <3>3. n <= issued
      BY <3>1, <3>2 DEF StoredInv, Coherent
    <3>4. \A s \in Senders : pending[s] # NoMessage => pending[s].serial # n
      BY <3>1, <3>2 DEF NotYetStored
    <3>5. \A q \in DOMAIN messages' : \A other \in messages'[q] : other.serial # n
      BY <3>1, <3>2 DEF OneMailbox
    <3> QED
      BY <3>3, <3>4, <3>5
  <2> QED
    BY <2>1, <2>2
<1> QED
  BY <1>1, <1>2, <1>3

\* A write through Keep of a part of the slice drops messages and adds none.
LEMMA KeepRemoves ==
  ASSUME NEW p, NEW S \in SUBSET StoredFor(p), messages' = Keep(p, S)
  PROVE  /\ \A q \in DOMAIN messages' : q \in DOMAIN messages /\ messages'[q] \subseteq messages[q]
         /\ p \in DOMAIN messages' => messages'[p] = S
BY DEF Keep, WithMailbox, WithoutMailbox, StoredFor

\* Every call of a reader is such a removal.
LEMMA ReadSerialInv ==
  ASSUME SerialInv, Read
  PROVE  SerialInv'
<1>1. PICK p \in Recipients :
        \/ GetMessages(p)
        \/ GetAndClearMessages(p)
        \/ \E ids \in SUBSET IDs :
            \/ DeleteMessages(p, ids)
            \/ \E deleteAfter \in BOOLEAN : GetMessagesByIDs(p, ids, deleteAfter)
  BY ReaderCalls
<1> DEFINE live == {m \in StoredFor(p) : Live(m)}
<1>2. CASE UNCHANGED <<messages, nextMessageID, issued, pending, gone>>
  BY <1>2 DEF SerialInv, CounterInv, StoredInv, PendingInv, Coherent, OneSender,
              NotYetStored, OneMailbox, GoneInv
<1>3. CASE GetMessages(p)
  BY <1>2, <1>3 DEF GetMessages, storeVars
<1>4. CASE GetAndClearMessages(p)
  <2>1. /\ \A q \in DOMAIN messages' : q \in DOMAIN messages /\ messages'[q] \subseteq messages[q]
        /\ p \notin DOMAIN messages'
    BY <1>4 DEF GetAndClearMessages, WithoutMailbox
  <2> QED
    BY <1>4, <2>1, RemovalKeepsSerialInv DEF GetAndClearMessages, TakenOut
<1>5. ASSUME NEW ids \in SUBSET IDs, DeleteMessages(p, ids)
      PROVE  SerialInv'
  <2> DEFINE named == Named(StoredFor(p), ids)
             rest == StoredFor(p) \ named
  <2>1. named \in SUBSET StoredFor(p) /\ rest \in SUBSET StoredFor(p) /\ rest \cap named = {}
    BY DEF Named
  <2>2. messages' = Keep(p, rest) /\ gone' = gone \cup {m.serial : m \in named}
    BY <1>5 DEF DeleteMessages, TakenOut
  <2> HIDE DEF named, rest
  <2>3. /\ \A q \in DOMAIN messages' : q \in DOMAIN messages /\ messages'[q] \subseteq messages[q]
        /\ p \in DOMAIN messages' => messages'[p] \cap named = {}
    BY <2>1, <2>2, KeepRemoves
  <2>4. UNCHANGED <<nextMessageID, issued, pending>>
    BY <1>5 DEF DeleteMessages
  <2> QED
    BY <2>1, <2>2, <2>3, <2>4, RemovalKeepsSerialInv
<1>6. ASSUME NEW ids \in SUBSET IDs, NEW deleteAfter \in BOOLEAN,
             GetMessagesByIDs(p, ids, deleteAfter)
      PROVE  SerialInv'
  <2>1. CASE ~deleteAfter
    BY <1>2, <1>6, <2>1 DEF GetMessagesByIDs
  <2>2. CASE deleteAfter
    <3> DEFINE rest == live \ reply'
    <3>1. reply' \in SUBSET StoredFor(p) /\ rest \in SUBSET StoredFor(p) /\ rest \cap reply' = {}
      BY <1>6 DEF GetMessagesByIDs, Named
    <3>2. messages' = Keep(p, rest) /\ gone' = gone \cup {m.serial : m \in reply'}
      BY <1>6, <2>2 DEF GetMessagesByIDs, TakenOut
    <3> HIDE DEF rest
    <3>3. /\ \A q \in DOMAIN messages' : q \in DOMAIN messages /\ messages'[q] \subseteq messages[q]
          /\ p \in DOMAIN messages' => messages'[p] \cap reply' = {}
      BY <3>1, <3>2, KeepRemoves
    <3>4. UNCHANGED <<nextMessageID, issued, pending>>
      BY <1>6 DEF GetMessagesByIDs
    <3> QED
      BY <3>1, <3>2, <3>3, <3>4, RemovalKeepsSerialInv
  <2> QED
    BY <2>1, <2>2
<1> QED
  BY <1>1, <1>3, <1>4, <1>5, <1>6

\* A new message gets the next serial, which is older than nothing, and the ID that
\* goes with it.
LEMMA NextMessageIDSerialInv ==
  ASSUME TypeOK, SerialInv, NEW s \in Senders, NextMessageID(s)
  PROVE  SerialInv'
<1>1. /\ issued' = issued + 1
      /\ nextMessageID' = Increment(nextMessageID)
      /\ UNCHANGED <<messages, gone>>
      /\ issued \in Nat /\ nextMessageID \in IDs
  BY BoundsAssumption DEF NextMessageID, TypeOK
<1>2. PICK p \in Recipients, life \in Lifetimes :
        pending' = [pending EXCEPT ![s] =
                      [id |-> nextMessageID', serial |-> issued', to |-> p, lifeTime |-> life]]
  BY DEF NextMessageID
<1>3. /\ pending'[s].serial = issued + 1 /\ pending'[s].id = nextMessageID'
      /\ \A t \in Senders \ {s} : pending'[t] = pending[t]
  BY <1>1, <1>2 DEF TypeOK
<1>4. issued + 1 <= IdModulus => nextMessageID' = IDOf(issued + 1)
  BY <1>1, BoundsAssumption DEF SerialInv, CounterInv, IDOf, Increment
<1>5. \A m \in StoredMessages \cup PendingMessages : m.serial \in Nat
  BY DEF StoredMessages, PendingMessages, TypeOK, Stored, InFlight, Serials
<1>6. \A q \in DOMAIN messages : \A m \in messages[q] : m.serial \in Nat /\ m.serial <= issued
  BY <1>5 DEF StoredMessages, SerialInv, StoredInv, Coherent
<1>7. \A t \in Senders : pending[t] # NoMessage =>
        pending[t].serial \in Nat /\ pending[t].serial <= issued
  BY <1>5 DEF PendingMessages, SerialInv, PendingInv, Coherent
<1>8. CounterInv' /\ StoredInv'
  BY <1>1, <1>4, <1>6 DEF SerialInv, CounterInv, StoredInv, Coherent
<1>9. PendingInv'
  BY <1>1, <1>3, <1>4, <1>7 DEF SerialInv, PendingInv, Coherent
<1>10. OneSender' /\ NotYetStored'
  BY <1>1, <1>3, <1>6, <1>7 DEF SerialInv, OneSender, NotYetStored
<1>11. OneMailbox'
  BY <1>1 DEF SerialInv, OneMailbox
<1>12. GoneInv'
  BY <1>1, <1>3 DEF SerialInv, GoneInv, TypeOK, Serials
<1> QED
  BY <1>8, <1>9, <1>10, <1>11, <1>12 DEF SerialInv

\* Storing a message moves its serial from the sender to a mailbox.
LEMMA AddMessageSerialInv ==
  ASSUME TypeOK, SerialInv, NEW s \in Senders, AddMessage(s)
  PROVE  SerialInv'
<1> DEFINE msg == pending[s]
           stored == [id |-> msg.id, serial |-> msg.serial, expiresAt |-> now + msg.lifeTime]
<1>1. /\ msg # NoMessage
      /\ messages' = WithMailbox(msg.to, StoredFor(msg.to) \cup {stored})
      /\ UNCHANGED <<nextMessageID, issued, gone>>
      /\ pending'[s] = NoMessage
      /\ \A t \in Senders \ {s} : pending'[t] = pending[t]
  BY DEF AddMessage, TypeOK
<1>2. stored.serial = msg.serial /\ stored.id = msg.id
  OBVIOUS
<1>10. /\ \A t \in Senders \ {s} : pending[t] # NoMessage => pending[t].serial # msg.serial
       /\ \A q \in DOMAIN messages : \A m \in messages[q] : m.serial # msg.serial
       /\ \A n \in gone : n # msg.serial
  BY <1>1 DEF SerialInv, OneSender, NotYetStored, GoneInv
<1> HIDE DEF stored, msg
<1>3. \A q \in DOMAIN messages' : \A m \in messages'[q] :
        (q \in DOMAIN messages /\ m \in messages[q]) \/ (q = msg.to /\ m = stored)
  BY <1>1 DEF WithMailbox, StoredFor
<1>4. Coherent(msg)
  BY <1>1 DEF SerialInv, PendingInv, msg
<1>5. CounterInv' /\ StoredInv' /\ PendingInv'
  BY <1>1, <1>2, <1>3, <1>4 DEF SerialInv, CounterInv, StoredInv, PendingInv, Coherent
<1>6. OneSender'
  BY <1>1 DEF SerialInv, OneSender
<1>7. NotYetStored'
  <2> SUFFICES ASSUME NEW t \in Senders, NEW q \in DOMAIN messages', NEW m \in messages'[q],
                      pending'[t] # NoMessage
               PROVE  m.serial # pending'[t].serial
    BY DEF NotYetStored
  <2>1. t # s /\ pending'[t] = pending[t]
    BY <1>1
  <2>2. CASE q \in DOMAIN messages /\ m \in messages[q]
    BY <2>1, <2>2 DEF SerialInv, NotYetStored
  <2>3. CASE m = stored
    BY <1>2, <1>10, <2>1, <2>3
  <2> QED
    BY <1>3, <2>2, <2>3
<1>8. OneMailbox'
  BY <1>1, <1>2, <1>3, <1>10 DEF SerialInv, OneMailbox
<1>9. GoneInv'
  <2> SUFFICES ASSUME NEW n \in gone
               PROVE  /\ n <= issued
                      /\ \A q \in DOMAIN messages' : \A m \in messages'[q] : m.serial # n
                      /\ \A t \in Senders : pending'[t] # NoMessage => pending'[t].serial # n
    BY <1>1 DEF GoneInv
  <2>1. n <= issued /\ \A t \in Senders : pending'[t] # NoMessage => pending'[t].serial # n
    BY <1>1 DEF SerialInv, GoneInv
  <2>2. \A q \in DOMAIN messages : \A m \in messages[q] : m.serial # n
    BY DEF SerialInv, GoneInv
  <2>3. stored.serial # n
    BY <1>2, <1>10
  <2> QED
    BY <1>3, <2>1, <2>2, <2>3
<1> QED
  BY <1>5, <1>6, <1>7, <1>8, <1>9 DEF SerialInv

\* Every step of the store keeps the serial numbers in order.
LEMMA SerialInvStep ==
  ASSUME TypeOK, SerialInv, [Next]_vars
  PROVE  SerialInv'
<1>1. CASE Deliver
  BY <1>1, NextMessageIDSerialInv, AddMessageSerialInv DEF Deliver
<1>2. CASE Read
  BY <1>2, ReadSerialInv
<1>3. CASE UNCHANGED <<messages, nextMessageID, issued, pending, gone>>
  BY <1>3 DEF SerialInv, CounterInv, StoredInv, PendingInv, Coherent, OneSender,
              NotYetStored, OneMailbox, GoneInv
<1>4. CASE PurgeLoop
  <2>1. CASE TickerFires \/ LeaveLoop
    BY <1>3, <2>1 DEF TickerFires, LeaveLoop, storeVars
  <2>2. CASE PurgeExpired
    <3>1. \A q \in DOMAIN messages' : q \in DOMAIN messages /\ messages'[q] \subseteq messages[q]
      BY <2>2 DEF PurgeExpired
    <3>2. UNCHANGED <<nextMessageID, issued, pending, gone>>
      BY <2>2 DEF PurgeExpired
    <3>3. CounterInv' /\ StoredInv' /\ PendingInv' /\ OneSender'
      BY <3>1, <3>2 DEF SerialInv, CounterInv, StoredInv, PendingInv, Coherent, OneSender
    <3>4. NotYetStored' /\ OneMailbox' /\ GoneInv'
      BY <3>1, <3>2 DEF SerialInv, NotYetStored, OneMailbox, GoneInv
    <3> QED
      BY <3>3, <3>4 DEF SerialInv
  <2> QED
    BY <1>4, <2>1, <2>2 DEF PurgeLoop
<1>5. CASE AdvanceClock \/ StopMessageStore \/ UNCHANGED vars
  BY <1>3, <1>5 DEF AdvanceClock, StopMessageStore, vars, storeVars
<1> QED
  BY <1>1, <1>2, <1>4, <1>5 DEF Next

\* In every state each serial is in one place, and IDs follow serials.
THEOREM SerialsInOrder == Spec => []SerialInv
<1>1. Init => SerialInv
  BY BoundsAssumption DEF Init, SerialInv, CounterInv, StoredInv, PendingInv, OneSender,
                          NotYetStored, OneMailbox, GoneInv, IDOf
<1> QED
  BY <1>1, SerialInvStep, TypeCorrect, PTL DEF Spec

\* Two serials do not share an ID.
LEMMA IDOfInjective == \A a, b \in Nat \ {0} : IDOf(a) = IDOf(b) => a = b
  BY BoundsAssumption DEF IDOf

\* No two messages that are stored or on their way have the same ID, as long as the
\* counter has not wrapped around, whichever deliveries interleave.
THEOREM IDsAreUnique == Spec => []UniqueIDs
<1>1. TypeOK /\ SerialInv => UniqueIDs
  <2> SUFFICES ASSUME TypeOK, SerialInv, issued <= IdModulus,
                      NEW m \in StoredMessages \cup PendingMessages,
                      NEW n \in StoredMessages \cup PendingMessages,
                      m.id = n.id
               PROVE  m.serial = n.serial
    BY DEF UniqueIDs
  <2>1. \A k \in StoredMessages \cup PendingMessages : k.serial \in Serials /\ Coherent(k)
    BY DEF StoredMessages, PendingMessages, SerialInv, StoredInv, PendingInv, TypeOK,
           Stored, InFlight
  <2>2. \A k \in StoredMessages \cup PendingMessages :
          k.serial \in Nat \ {0} /\ k.id = IDOf(k.serial)
    BY <2>1, BoundsAssumption DEF Coherent, Serials, TypeOK
  <2>3. m.serial \in Nat \ {0} /\ n.serial \in Nat \ {0} /\ IDOf(m.serial) = IDOf(n.serial)
    BY <2>2
  <2> QED
    BY <2>3, IDOfInjective
<1> QED
  BY <1>1, TypeCorrect, SerialsInOrder, PTL

\* A message that was retrieved and removed, or deleted, is never stored again.
THEOREM GoneStaysGone == Spec => []GoneForGood
<1>1. SerialInv => GoneForGood
  BY DEF SerialInv, GoneInv, GoneForGood, StoredMessages, PendingMessages
<1> QED
  BY <1>1, SerialsInOrder, PTL
------------------------------------------------------------------------------
(* The store implements Mailbox.                                           *)

\* The messages readers of p can see, and the box Mailbox stands for.
Visible(p) == {m \in StoredFor(p) : Live(m)}
box == [p \in Recipients |-> Visible(p)]

\* What is visible changes with one recipient's slice only where the slice does.
LEMMA BoxAfterWrite ==
  ASSUME NEW p \in Recipients, NEW S, now' = now,
         messages' = Keep(p, S) \/ messages' = WithMailbox(p, S)
  PROVE  box' = [box EXCEPT ![p] = {m \in S : Live(m)}]
<1>1. /\ StoredFor(p)' = S
      /\ \A q \in Recipients \ {p} : StoredFor(q)' = StoredFor(q)
  BY DEF Keep, WithMailbox, WithoutMailbox, StoredFor
<1>2. /\ Visible(p)' = {m \in S : Live(m)}
      /\ \A q \in Recipients \ {p} : Visible(q)' = Visible(q)
  BY <1>1 DEF Visible, Live
<1> QED
  BY <1>2 DEF box

\* The initial states are Mailbox's.
LEMMA InitRefines == Init => Box!Init
  BY DEF Init, Box!Init, StoredFor

\* A reader's call is Mailbox's operation of the same kind; the identifiers that
\* no message can carry make no difference.
LEMMA ReadRefines ==
  ASSUME TypeOK, Read
  PROVE  Box!Next
<1>1. PICK p \in Recipients :
        \/ GetMessages(p)
        \/ GetAndClearMessages(p)
        \/ \E ids \in SUBSET IDs :
            \/ DeleteMessages(p, ids)
            \/ \E deleteAfter \in BOOLEAN : GetMessagesByIDs(p, ids, deleteAfter)
  BY ReaderCalls
<1>2. box[p] = Visible(p) /\ box[p] \in SUBSET Stored
  BY StoredForType DEF box, Visible
<1> DEFINE Carried(ids) == ids \cap {m.id : m \in Stored}
<1>3. ASSUME NEW ids
      PROVE  /\ Carried(ids) \in SUBSET {m.id : m \in Stored}
             /\ \A S \in SUBSET Stored : Box!IdentifiedBy(S, Carried(ids)) = Named(S, ids)
  BY DEF Box!IdentifiedBy, Named
<1>4. CASE GetMessages(p)
  <2>1. box' = box /\ reply' = box[p] /\ now' = now
    BY <1>2, <1>4 DEF GetMessages, box, Visible, StoredFor, Live, storeVars
  <2>2. Box!Show(p)
    BY <2>1 DEF Box!Show, box, Visible
  <2> QED
    BY <2>2 DEF Box!Next
<1>5. CASE GetAndClearMessages(p)
  <2>1. messages' = Keep(p, {}) /\ now' = now /\ reply' = box[p]
    BY <1>2, <1>5 DEF GetAndClearMessages, Keep, Visible
  <2>2. box' = [box EXCEPT ![p] = {}]
    BY <2>1, BoxAfterWrite
  <2>3. Box!Clear(p)
    BY <2>1, <2>2 DEF Box!Clear, box, Visible
  <2> QED
    BY <2>3 DEF Box!Next
<1>6. ASSUME NEW ids \in SUBSET IDs, DeleteMessages(p, ids)
      PROVE  Box!Next
  <2> DEFINE rest == StoredFor(p) \ Named(StoredFor(p), ids)
  <2>1. messages' = Keep(p, rest) /\ now' = now /\ reply' = reply
    BY <1>6 DEF DeleteMessages
  <2>2. box' = [box EXCEPT ![p] = {m \in rest : Live(m)}]
    BY <2>1, BoxAfterWrite
  <2>3. {m \in rest : Live(m)} = box[p] \ Named(box[p], ids)
    BY <1>2 DEF Visible, Named
  <2>4. box' = [box EXCEPT ![p] = @ \ Box!IdentifiedBy(@, Carried(ids))]
    BY <1>2, <1>3, <2>2, <2>3
  <2>5. Box!Delete(p, Carried(ids))
    BY <2>1, <2>4 DEF Box!Delete, box, Visible
  <2> QED
    BY <1>3, <2>5 DEF Box!Next
<1>7. ASSUME NEW ids \in SUBSET IDs, NEW deleteAfter \in BOOLEAN,
             GetMessagesByIDs(p, ids, deleteAfter)
      PROVE  Box!Next
  <2> DEFINE asked == Box!IdentifiedBy(box[p], Carried(ids))
  <2>1. reply' = asked /\ now' = now
    BY <1>2, <1>3, <1>7 DEF GetMessagesByIDs, Visible
  <2>2. box' = IF ~deleteAfter THEN box ELSE [box EXCEPT ![p] = @ \ asked]
    <3>1. CASE ~deleteAfter
      BY <1>7, <3>1 DEF GetMessagesByIDs, box, Visible, StoredFor, Live
    <3>2. CASE deleteAfter
      <4> DEFINE rest == box[p] \ asked
      <4>1. messages' = Keep(p, rest)
        BY <1>2, <1>3, <1>7, <3>2 DEF GetMessagesByIDs, Visible
      <4>2. {m \in rest : Live(m)} = rest
        BY <1>2 DEF Visible
      <4>3. box' = [box EXCEPT ![p] = {m \in rest : Live(m)}]
        BY <2>1, <4>1, BoxAfterWrite
      <4> QED
        BY <3>2, <4>2, <4>3
    <3> QED
      BY <3>1, <3>2
  <2>3. Box!Retrieve(p, Carried(ids), ~deleteAfter)
    BY <2>1, <2>2 DEF Box!Retrieve, box, Visible
  <2> QED
    BY <1>3, <2>3 DEF Box!Next
<1> QED
  BY <1>1, <1>4, <1>5, <1>6, <1>7

\* A delivery is Mailbox's Post, or invisible: when the message only gets its ID, or
\* has no life ahead of it.
LEMMA DeliverRefines ==
  ASSUME TypeOK, SerialInv, Deliver
  PROVE  Box!Next \/ UNCHANGED Box!vars
<1>1. PICK s \in Senders : NextMessageID(s) \/ AddMessage(s)
  BY DEF Deliver
<1>2. CASE NextMessageID(s)
  BY <1>2 DEF NextMessageID, Box!vars, StoredFor, Live
<1>3. CASE AddMessage(s)
  <2> DEFINE msg == pending[s]
             p == msg.to
             stored == [id |-> msg.id, serial |-> msg.serial, expiresAt |-> now + msg.lifeTime]
  <2>1. msg \in InFlight /\ p \in Recipients /\ msg # NoMessage
    BY <1>3 DEF AddMessage, TypeOK, InFlight
  <2>2. stored \in Stored
    BY <2>1, BoundsAssumption DEF TypeOK, InFlight, Stored, Lifetimes
  <2>3. stored \notin StoredFor(p)
    BY <2>1 DEF SerialInv, NotYetStored, StoredFor
  <2>4. /\ messages' = WithMailbox(p, StoredFor(p) \cup {stored})
        /\ now' = now /\ reply' = reply
    BY <1>3 DEF AddMessage
  <2> HIDE DEF stored, p, msg
  <2>5. box' = [box EXCEPT ![p] = {m \in StoredFor(p) \cup {stored} : Live(m)}]
    BY <2>1, <2>4, BoxAfterWrite
  <2>6. CASE Live(stored)
    <3>1. box' = [box EXCEPT ![p] = @ \cup {stored}]
      BY <2>1, <2>5, <2>6 DEF box, Visible
    <3>2. now < stored.expiresAt /\ stored \notin box[p]
      BY <2>1, <2>3, <2>6 DEF Live, box, Visible
    <3>3. Box!Post(p, stored)
      BY <2>4, <3>1, <3>2 DEF Box!Post, box, Visible
    <3> QED
      BY <2>1, <2>2, <3>3 DEF Box!Next
  <2>7. CASE ~Live(stored)
    <3>1. box' = box
      BY <2>1, <2>5, <2>7 DEF box, Visible
    <3> QED
      BY <2>4, <3>1 DEF Box!vars, box, Visible
  <2> QED
    BY <2>6, <2>7
<1> QED
  BY <1>1, <1>2, <1>3

\* The purge cannot be seen: it removes what readers do not see any more.
LEMMA PurgeLoopRefines ==
  ASSUME TypeOK, PurgeLoop
  PROVE  UNCHANGED Box!vars
<1>1. CASE TickerFires \/ LeaveLoop
  BY <1>1 DEF TickerFires, LeaveLoop, storeVars, Box!vars, StoredFor, Live
<1>2. CASE PurgeExpired
  <2>1. now' = now /\ reply' = reply
    BY <1>2 DEF PurgeExpired
  <2>2. ASSUME NEW p \in Recipients
        PROVE  Visible(p)' = Visible(p)
    BY <1>2, <2>1 DEF PurgeExpired, Visible, StoredFor, Live
  <2> QED
    BY <2>1, <2>2 DEF Box!vars, Visible
<1> QED
  BY <1>1, <1>2 DEF PurgeLoop

\* When time passes, what expires disappears from what readers see.
LEMMA AdvanceClockRefines ==
  ASSUME TypeOK, AdvanceClock
  PROVE  Box!Next
<1>1. now' = now + 1 /\ messages' = messages /\ reply' = reply /\ now \in Nat
  BY BoundsAssumption DEF AdvanceClock, storeVars, TypeOK
<1>2. ASSUME NEW p \in Recipients
      PROVE  Visible(p)' = {m \in Visible(p) : now' < m.expiresAt}
  <2>1. \A m \in StoredFor(p) : m.expiresAt \in Nat
    BY StoredForType, BoundsAssumption DEF Stored
  <2> QED
    BY <1>1, <2>1 DEF Visible, StoredFor, Live
<1>3. box' = [p \in Recipients |-> {m \in box[p] : now' < m.expiresAt}]
  BY <1>2 DEF box
<1>4. Box!Pass
  BY <1>1, <1>3 DEF Box!Pass, box, Visible
<1> QED
  BY <1>4 DEF Box!Next

\* The store, with its purging and its messages in flight, implements the mailbox
\* its readers are promised.
THEOREM MailboxImplemented == Spec => ImplementsMailbox
<1>1. TypeOK /\ SerialInv /\ [Next]_vars => [Box!Next]_(Box!vars)
  <2> SUFFICES ASSUME TypeOK, SerialInv, [Next]_vars
               PROVE  Box!Next \/ UNCHANGED Box!vars
    OBVIOUS
  <2>1. CASE StopMessageStore \/ UNCHANGED vars
    BY <2>1 DEF StopMessageStore, vars, storeVars, Box!vars, StoredFor, Live
  <2> QED
    BY <2>1, DeliverRefines, ReadRefines, PurgeLoopRefines, AdvanceClockRefines DEF Next
<1> QED
  BY <1>1, InitRefines, TypeCorrect, SerialsInOrder, PTL DEF Spec, ImplementsMailbox, Box!Spec
==============================================================================
