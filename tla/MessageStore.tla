----------------------------- MODULE MessageStore -----------------------------
(***************************************************************************)
(* The in-memory message store of servers/messagestore.go with the four    *)
(* RMC handlers that use it (DeliverMessage, GetMessageHeaders,            *)
(* RetrieveMessages, DeleteMessages) and its purge goroutine.              *)
(*                                                                         *)
(* Every method of the store holds ms.mu from its first line to its last,  *)
(* so each is one action.  DeliverMessage calls two of them, and other     *)
(* handlers run between the two.  A slice of stored messages is a set of   *)
(* records here: the loops over it filter, and no caller depends on the    *)
(* order.  A record's serial number is not in the code; it tells apart     *)
(* messages the wrapping 32-bit counter gave the same ID.                  *)
(*                                                                         *)
(* A handler whose ValidateClientPID call fails returns without touching   *)
(* the store, which is a stuttering step of this module.                   *)
(***************************************************************************)
EXTENDS Integers, FiniteSets

CONSTANTS
    Recipients,  \* PIDs messages are addressed to and read for
    Senders,     \* goroutines that handle a DeliverMessage call
    MaxLifetime, \* bound: the longest LifeTime a sender puts in a message
    IdModulus,   \* number of values of the ID counter: 2^32 in the code
    MaxMessages, \* bound: messages delivered in a behaviour
    MaxTime,     \* bound: the last instant of a behaviour
    NoMessage    \* what a sender holds when it is delivering nothing

ASSUME BoundsAssumption ==
    /\ MaxLifetime \in Nat
    /\ IdModulus \in Nat \ {0, 1}
    /\ MaxMessages \in Nat
    /\ MaxTime \in Nat

VARIABLES
    messages,      \* ms.messages: a map, from PID to the messages stored for it
    nextMessageID, \* ms.nextMessageID: atomic uint32
    issued,        \* history: how many IDs have been handed out
    pending,       \* pending[s]: the message s has an ID for and has not stored
    now,           \* time.Now()
    reply,         \* history: the messages the last reading call returned
    gone,          \* history: serials taken out of the store by a reader
    tick,          \* ticker.C holds a tick (its buffer has one place)
    loop,          \* the purge goroutine: "running" or "stopped"
    quit           \* ms.quit is closed

storeVars == <<messages, nextMessageID, issued, pending>>
loopVars == <<tick, loop, quit>>
vars == <<storeVars, now, reply, gone, loopVars>>

IDs == 0 .. IdModulus - 1
Serials == 1 .. MaxMessages
Lifetimes == 0 .. MaxLifetime

\* A StoredMessage, reduced to what retrieval and expiry look at.
Stored == [id : IDs, serial : Serials, expiresAt : 0 .. MaxTime + MaxLifetime]

\* A message between NextMessageID and AddMessage.
InFlight == [id : IDs, serial : Serials, to : Recipients, lifeTime : Lifetimes]

ASSUME NoMessageAssumption == NoMessage \notin InFlight

------------------------------------------------------------------------------
(* The map, and the loops over one of its slices.                          *)

StoredFor(p) == IF p \in DOMAIN messages THEN messages[p] ELSE {}

\* now.Before(sm.ExpiresAt)
Live(m) == now < m.expiresAt

Named(S, ids) == {m \in S : m.id \in ids}

WithMailbox(p, S) ==
    [q \in DOMAIN messages \cup {p} |-> IF q = p THEN S ELSE messages[q]]

WithoutMailbox(p) == [q \in DOMAIN messages \ {p} |-> messages[q]]

\* Mutant: an emptied slice is stored back instead of deleting its key.
KeepEmpty(p, S) == WithMailbox(p, S)

\* if len(remaining) == 0 { delete(ms.messages, pid) } else { ... = remaining }
Keep(p, S) == IF S = {} THEN WithoutMailbox(p) ELSE WithMailbox(p, S)

TakenOut(S) == gone' = gone \cup {m.serial : m \in S}
------------------------------------------------------------------------------
(* The operations.                                                         *)

Init ==
    /\ messages = [p \in {} |-> {}]
    /\ nextMessageID = 0
    /\ issued = 0
    /\ pending = [s \in Senders |-> NoMessage]
    /\ now = 0
    /\ reply = {}
    /\ gone = {}
    /\ tick = FALSE
    /\ loop = "running"
    /\ quit = FALSE

\* Mutant: the counter saturates instead of wrapping.
Saturate(id) == IF id = IdModulus - 1 THEN id ELSE id + 1

\* Mutant: the counter is wider than the field it is stored in.
Unbounded(id) == id + 1

\* atomic.AddUint32(&ms.nextMessageID, 1)
Increment(id) == IF id = IdModulus - 1 THEN 0 ELSE id + 1

\* DeliverMessage up to the ID it assigns.
NextMessageID(s) ==
    /\ pending[s] = NoMessage
    /\ issued < MaxMessages
    /\ nextMessageID' = Increment(nextMessageID)
    /\ issued' = issued + 1
    /\ \E p \in Recipients, life \in Lifetimes :
        pending' = [pending EXCEPT ![s] =
                      [id |-> nextMessageID', serial |-> issued', to |-> p, lifeTime |-> life]]
    /\ UNCHANGED <<messages, now, reply, gone, loopVars>>

\* The rest of DeliverMessage: the expiry counts from this instant.
AddMessage(s) ==
    /\ pending[s] # NoMessage
    /\ LET msg == pending[s]
           stored == [id |-> msg.id, serial |-> msg.serial, expiresAt |-> now + msg.lifeTime]
       IN  messages' = WithMailbox(msg.to, StoredFor(msg.to) \cup {stored})
    /\ pending' = [pending EXCEPT ![s] = NoMessage]
    /\ UNCHANGED <<nextMessageID, issued, now, reply, gone, loopVars>>

\* Mutant: the headers list expired messages until the next purge.
GetMessagesUnfiltered(p) ==
    /\ reply' = StoredFor(p)
    /\ UNCHANGED <<storeVars, now, gone, loopVars>>

\* Lists what is live, and changes nothing.
GetMessages(p) ==
    /\ reply' = {m \in StoredFor(p) : Live(m)}
    /\ UNCHANGED <<storeVars, now, gone, loopVars>>

\* No handler calls this method; it is part of the store's interface.
GetAndClearMessages(p) ==
    /\ reply' = {m \in StoredFor(p) : Live(m)}
    /\ messages' = WithoutMailbox(p)
    /\ TakenOut(reply')
    /\ UNCHANGED <<nextMessageID, issued, pending, now, loopVars>>

\* Mutant: the retrieved messages are appended to remaining in both branches.
RetrieveWithoutRemoving(p, ids, deleteAfter) ==
    /\ reply' = Named({m \in StoredFor(p) : Live(m)}, ids)
    /\ IF deleteAfter
       THEN /\ messages' = Keep(p, {m \in StoredFor(p) : Live(m)})
            /\ TakenOut(reply')
       ELSE UNCHANGED <<messages, gone>>
    /\ UNCHANGED <<nextMessageID, issued, pending, now, loopVars>>

\* Only a deleting call writes the map, and it drops the expired messages on the
\* way.
GetMessagesByIDs(p, ids, deleteAfter) ==
    LET live == {m \in StoredFor(p) : Live(m)} IN
    /\ reply' = Named(live, ids)
    /\ IF deleteAfter
       THEN /\ messages' = Keep(p, live \ reply')
            /\ TakenOut(reply')
       ELSE UNCHANGED <<messages, gone>>
    /\ UNCHANGED <<nextMessageID, issued, pending, now, loopVars>>

\* Expired messages that are not named stay until the next purge.
DeleteMessages(p, ids) ==
    /\ messages' = Keep(p, StoredFor(p) \ Named(StoredFor(p), ids))
    /\ TakenOut(Named(StoredFor(p), ids))
    /\ UNCHANGED <<nextMessageID, issued, pending, now, reply, loopVars>>

\* The RMC handlers around these methods.
GetMessageHeaders(p) == GetMessages(p)
RetrieveMessages(p, ids, leaveOnServer) == GetMessagesByIDs(p, ids, ~leaveOnServer)

AdvanceClock ==
    /\ now < MaxTime
    /\ now' = now + 1
    /\ UNCHANGED <<storeVars, reply, gone, loopVars>>
------------------------------------------------------------------------------
(* The purge goroutine.                                                    *)

\* Every 30 seconds the runtime puts a tick in the channel, if there is room.
TickerFires ==
    /\ loop = "running"
    /\ ~tick
    /\ tick' = TRUE
    /\ UNCHANGED <<storeVars, now, reply, gone, loop, quit>>

\* Mutant: the tick is consumed and the mailboxes are left alone.
PurgeNothing ==
    /\ loop = "running"
    /\ tick
    /\ tick' = FALSE
    /\ UNCHANGED <<storeVars, now, reply, gone, loop, quit>>

\* case <-ticker.C: ms.purgeExpired(), for every mailbox under one lock.
PurgeExpired ==
    LET valid(p) == {m \in messages[p] : Live(m)}
        kept == {p \in DOMAIN messages : valid(p) # {}}
    IN
    /\ loop = "running"
    /\ tick
    /\ tick' = FALSE
    /\ messages' = [p \in kept |-> valid(p)]
    /\ UNCHANGED <<nextMessageID, issued, pending, now, reply, gone, loop, quit>>

\* case <-ms.quit: return; select takes either case when both are ready.
LeaveLoop ==
    /\ loop = "running"
    /\ quit
    /\ loop' = "stopped"
    /\ UNCHANGED <<storeVars, now, reply, gone, tick, quit>>

\* Called once, by main, when the process is told to stop.
StopMessageStore ==
    /\ ~quit
    /\ quit' = TRUE
    /\ UNCHANGED <<storeVars, now, reply, gone, tick, loop>>
------------------------------------------------------------------------------
Deliver == \E s \in Senders : NextMessageID(s) \/ AddMessage(s)

Read ==
    \E p \in Recipients :
        \/ GetMessageHeaders(p)
        \/ GetAndClearMessages(p)
        \/ \E ids \in SUBSET IDs :
            \/ DeleteMessages(p, ids)
            \/ \E leaveOnServer \in BOOLEAN : RetrieveMessages(p, ids, leaveOnServer)

PurgeLoop == TickerFires \/ PurgeExpired \/ LeaveLoop

Next == Deliver \/ Read \/ PurgeLoop \/ AdvanceClock \/ StopMessageStore

Spec == Init /\ [][Next]_vars

\* The runtime keeps firing the ticker, and the goroutine is scheduled.
FairSpec == Spec /\ WF_vars(TickerFires) /\ WF_vars(PurgeExpired)
------------------------------------------------------------------------------
(* Properties.                                                             *)

TypeOK ==
    /\ DOMAIN messages \subseteq Recipients
    /\ messages \in [DOMAIN messages -> SUBSET Stored]
    /\ nextMessageID \in IDs
    /\ issued \in 0 .. MaxMessages
    /\ pending \in [Senders -> InFlight \cup {NoMessage}]
    /\ now \in 0 .. MaxTime
    /\ reply \in SUBSET Stored
    /\ gone \in SUBSET Serials
    /\ tick \in BOOLEAN
    /\ loop \in {"running", "stopped"}
    /\ quit \in BOOLEAN

\* Every message the store holds or a sender is about to add to it.
StoredMessages == UNION {messages[p] : p \in DOMAIN messages}
PendingMessages == {pending[s] : s \in Senders} \ {NoMessage}

\* "atomic counter for unique message IDs" (messagestore.go:23): no two
\* messages that are stored or on their way carry the same ID, whichever
\* handlers interleave, for as long as the counter has not wrapped around.
UniqueIDs ==
    issued <= IdModulus =>
        \A m, n \in StoredMessages \cup PendingMessages : m.id = n.id => m.serial = n.serial

\* The map has no entry for a recipient without messages: every path that can
\* empty a slice deletes its key, so the map does not grow with past recipients.
NoEmptyMailbox == \A p \in DOMAIN messages : messages[p] # {}

\* A message that a reader took out or deleted never comes back: a second
\* retrieval that races the first finds it in no mailbox, and no delivery in
\* flight can store it again.
GoneForGood ==
    gone \cap {m.serial : m \in StoredMessages \cup PendingMessages} = {}

\* The store implements Mailbox: whatever expired messages still lie in the
\* map, readers see exactly the live ones, purging is invisible, and a live
\* message leaves only on a reader's demand.
Box == INSTANCE Mailbox WITH
          Message <- Stored,
          box <- [p \in Recipients |-> {m \in StoredFor(p) : Live(m)}]
ImplementsMailbox == Box!Spec

\* A message that has expired does not stay in memory for ever: the purge
\* goroutine removes it, unless the store is stopped first.
ExpiredIsPurged ==
    \A p \in Recipients, n \in Serials :
        (\E m \in StoredFor(p) : m.serial = n /\ ~Live(m))
            ~> (quit \/ n \notin {m.serial : m \in StoredFor(p)})
==============================================================================
