------------------------------ MODULE Gatherings ------------------------------
(***************************************************************************)
(* Matchmaking: the gatherings collection and the handlers that write it   *)
(* (RegisterGathering, UpdateGathering, SetState, TerminateGathering,      *)
(* LookupOrCreateAccount), the search over it (CustomFind) and the         *)
(* housekeeping task that prunes it (PruneOldSessions).                    *)
(*                                                                         *)
(* A handler is a sequence of MongoDB calls without a transaction.  Each   *)
(* call is atomic on the server, so it is one action here, and calls of    *)
(* other handlers come in between.  The checks a handler makes on tables   *)
(* no handler of this module changes are part of the action they precede.  *)
(*                                                                         *)
(* A gathering's ID is drawn at random from 249500 values and never        *)
(* compared with the IDs in use; here the draw is always fresh, so a       *)
(* document and its ID are the same thing.  The contents, which the server *)
(* stores and forwards as bytes, are left out but for the "public" byte,   *)
(* which has a column.                                                     *)
(* A document's owner is not in the code: it records the PID under which   *)
(* the document was last registered, updated or handed over.               *)
(***************************************************************************)
EXTENDS Integers, FiniteSets

CONSTANTS
    Consoles,      \* connected consoles
    Wii,           \* those of them that are Wiis; others belong to one account
    Platform,      \* Platform[c]: 0 Xbox 360, 1 PS3, 2 Wii, 3 RPCS3
    Accounts,      \* account names, as the users collection spells them
    AccountsOf,    \* AccountsOf[c]: the accounts played on console c
    Spellings,     \* Spellings[a]: the ways a player may type the name a
    Calls,         \* goroutines handling RMC calls
    Overlap,       \* TRUE: a console may have several calls in progress
    SessionStates, \* the states a console may set: 0 is the first one
    SampleSize,    \* the $sample stage of the search: 10 in the code
    MaxGatherings, \* bound: gatherings registered in a behaviour
    NoMachine      \* created_by_machine_id is absent

ASSUME ConsolesAssumption ==
    /\ Wii \subseteq Consoles
    /\ Platform \in [Consoles -> 0 .. 3]
    /\ \A c \in Consoles : Platform[c] = 2 <=> c \in Wii
    /\ AccountsOf \in [Consoles -> SUBSET Accounts]
    /\ \A c \in Consoles \ Wii : \E a \in Accounts : AccountsOf[c] = {a}
    /\ \A a \in Accounts : a \in Spellings[a]
    /\ \A a, b \in Accounts : a # b => Spellings[a] \cap Spellings[b] = {}
    /\ Consoles \cap UNION {Spellings[a] : a \in Accounts} = {}
    /\ NoMachine \notin Consoles
    /\ Overlap \in BOOLEAN
    /\ 0 \in SessionStates
    /\ SampleSize \in Nat \ {0}
    /\ MaxGatherings \in Nat

VARIABLES
    gatherings, \* the collection: a map from gathering ID to document
    created,    \* how many gatherings were registered; the last ID drawn
    users,      \* the accounts that have a document in the users collection
    session,    \* session[c]: who the client object of console c stands for
    call        \* call[k]: what the handler run by goroutine k does next

vars == <<gatherings, created, users, session, call>>

\* A username: a player's, or "Master User (<friend code>)", for which the
\* console stands.
Names == Consoles \cup UNION {Spellings[a] : a \in Accounts}

\* client.Username and, by its owner, client.PlayerID(); the PID of a Wii's
\* Master User is its machine ID, for which the console stands.
Sessions == [name : Names, pid : Consoles \cup Accounts]

\* The states a search hides, and one that it does not.
InSong == 2
SongSelect == 6

\* The age of last_updated: less than 5 minutes, less than an hour, more.
Fresh == 0
Stale == 1
Expired == 2

Gathering ==
    [creator : Names, machine : Wii \cup {NoMachine}, public : BOOLEAN, state : SessionStates,
     age : {Fresh, Stale, Expired}, console : 0 .. 3, owner : Consoles \cup Accounts]

IDs == 1 .. MaxGatherings
Idle == [op |-> "idle"]
------------------------------------------------------------------------------
(* Who is who.                                                             *)

\* Mutant: every console has a machine ID.
MachineIDOfAny(c) == c

\* client.MachineID(): 0, which counts as none, unless the console is a Wii.
MachineID(c) == IF c \in Wii THEN c ELSE NoMachine

IsMaster(c) == session[c].pid \in Consoles

\* IsPIDAMasterUser, and the "Player" GetUsernameForPID answers for the PIDs
\* that are not in users.
UsernameForPID(pid) == IF pid \in users THEN pid ELSE "Player"

MachineIDFromUsername(name) == IF name \in Wii THEN name ELSE NoMachine

MasterSession(c) == [name |-> c, pid |-> c]
AccountSession(a, spelling) == [name |-> spelling, pid |-> a]

\* Mutant: any machine owns a gathering that carries no machine ID.
OwnsLoosely(c, g) ==
    \/ g.creator = UsernameForPID(session[c].pid)
    \/ g.machine = MachineID(c)
    \/ MachineIDFromUsername(g.creator) = MachineID(c)

\* Mutant: a Wii is recognised by its machine alone.
OwnsByMachine(c, g) ==
    IF c \in Wii THEN MachineID(c) \in {g.machine, MachineIDFromUsername(g.creator)}
    ELSE g.creator = UsernameForPID(session[c].pid)

\* The ownership check UpdateGathering, SetState and TerminateGathering share.
Owns(c, g) ==
    \/ g.creator = UsernameForPID(session[c].pid)
    \/ g.machine # NoMachine /\ g.machine = MachineID(c)
    \/ /\ MachineIDFromUsername(g.creator) # NoMachine
       /\ MachineIDFromUsername(g.creator) = MachineID(c)

\* ValidateClientPID on a Wii, ValidateNonMasterClientPID elsewhere.
MayHost(c) == c \in Wii \/ ~IsMaster(c)

Find(id) == id \in DOMAIN gatherings

Without(S) == [id \in DOMAIN gatherings \ S |-> gatherings[id]]

SetFields(id, doc) == [gatherings EXCEPT ![id] = doc]

\* A goroutine picks up a call of console c.
Accept(k, c) ==
    /\ call[k] = Idle
    /\ Overlap \/ \A other \in Calls : call[other] # Idle => call[other].client # c

Continue(k, next) == call' = [call EXCEPT ![k] = next]
Return(k) == Continue(k, Idle)
------------------------------------------------------------------------------
(* The state before any gathering: Wiis are logged in as their Master      *)
(* User, other consoles as their account.                                  *)

Init ==
    /\ gatherings = [id \in {} |-> {}]
    /\ created = 0
    /\ users = UNION {AccountsOf[c] : c \in Consoles \ Wii}
    /\ session \in [Consoles -> Sessions]
    /\ \A c \in Consoles :
         IF c \in Wii THEN session[c] = MasterSession(c)
         ELSE \E a \in AccountsOf[c] : session[c] = AccountSession(a, a)
    /\ call = [k \in Calls |-> Idle]

\* A Wii connects again (Login, OnConnection, RegisterEx): Master User again.
Reconnect(c) ==
    /\ c \in Wii
    /\ \A k \in Calls : call[k] # Idle => call[k].client # c
    /\ session' = [session EXCEPT ![c] = MasterSession(c)]
    /\ UNCHANGED <<gatherings, created, users, call>>

(* RegisterGathering: DeleteMany, then InsertOne.                          *)

\* The bound on registrations, counting those that have begun.
MoreGatherings == created + Cardinality({k \in Calls : call[k].op = "insert"}) < MaxGatherings

\* "Attempt to clear stale gatherings that may exist", by creator and, on a
\* Wii, also by machine.
RegisterClear(k, c) ==
    LET stale == {id \in DOMAIN gatherings :
                    \/ gatherings[id].creator = session[c].name
                    \/ MachineID(c) # NoMachine /\ gatherings[id].machine = MachineID(c)}
    IN
    /\ Accept(k, c)
    /\ MayHost(c)
    /\ MoreGatherings
    /\ gatherings' = Without(stale)
    /\ Continue(k, [op |-> "insert", client |-> c])
    /\ UNCHANGED <<created, users, session>>

\* The state and public columns start at 0, whatever the contents say.
RegisterInsert(k) ==
    LET c == call[k].client
        doc == [creator |-> session[c].name, machine |-> MachineID(c),
                public |-> FALSE, state |-> 0, age |-> Fresh, console |-> Platform[c],
                owner |-> session[c].pid]
        id == created + 1
    IN
    /\ call[k].op = "insert"
    /\ created' = id
    /\ gatherings' = [i \in DOMAIN gatherings \cup {id} |-> IF i = id THEN doc ELSE gatherings[i]]
    /\ Return(k)
    /\ UNCHANGED <<users, session>>

(* UpdateGathering: FindOne and the ownership check, then UpdateOne.       *)

UpdateFind(k, c, id) ==
    /\ Accept(k, c)
    /\ Find(id)
    /\ Owns(c, gatherings[id])
    /\ \E public \in BOOLEAN :
         Continue(k, [op |-> "update", client |-> c, id |-> id, public |-> public])
    /\ UNCHANGED <<gatherings, created, users, session>>

\* The state column is not written, although the contents hold a state too.
UpdateWrite(k) ==
    LET c == call[k].client
        id == call[k].id
    IN
    /\ call[k].op = "update"
    /\ gatherings' =
         IF Find(id)
         THEN SetFields(id, [gatherings[id] EXCEPT
                               !.public = call[k].public, !.age = Fresh,
                               !.owner = session[c].pid,
                               !.creator = session[c].name,
                               !.machine = IF IsMaster(c) THEN @ ELSE NoMachine])
         ELSE gatherings
    /\ Return(k)
    /\ UNCHANGED <<created, users, session>>

(* SetState: FindOne and the ownership check, then UpdateOne, which writes *)
(* back the contents as they were found, and leaves the public column.     *)

SetStateFind(k, c, id) ==
    /\ Accept(k, c)
    /\ MayHost(c)
    /\ Find(id)
    /\ Owns(c, gatherings[id])
    /\ \E state \in SessionStates :
         Continue(k, [op |-> "setstate", client |-> c, id |-> id, state |-> state])
    /\ UNCHANGED <<gatherings, created, users, session>>

SetStateWrite(k) ==
    LET id == call[k].id IN
    /\ call[k].op = "setstate"
    /\ gatherings' =
         IF Find(id)
         THEN SetFields(id, [gatherings[id] EXCEPT !.state = call[k].state, !.age = Fresh])
         ELSE gatherings
    /\ Return(k)
    /\ UNCHANGED <<created, users, session>>

(* TerminateGathering: FindOne and the ownership check, then DeleteOne.    *)

TerminateFind(k, c, id) ==
    /\ Accept(k, c)
    /\ MayHost(c)
    /\ Find(id)
    /\ Owns(c, gatherings[id])
    /\ Continue(k, [op |-> "terminate", client |-> c, id |-> id])
    /\ UNCHANGED <<gatherings, created, users, session>>

TerminateDelete(k) ==
    /\ call[k].op = "terminate"
    /\ gatherings' = Without({call[k].id})
    /\ Return(k)
    /\ UNCHANGED <<created, users, session>>

(* LookupOrCreateAccount: the client object takes the account, with the    *)
(* spelling the player typed; on a Wii the account's gatherings are then   *)
(* deleted and the machine's are handed over to it.                        *)

LookupAccount(k, c, a) ==
    /\ Accept(k, c)
    /\ users' = users \cup {a}
    /\ \E spelling \in Spellings[a] :
         session' = [session EXCEPT ![c] = AccountSession(a, spelling)]
    /\ IF c \in Wii THEN Continue(k, [op |-> "clear", client |-> c]) ELSE UNCHANGED call
    /\ UNCHANGED <<gatherings, created>>

\* Mutant: the account's own gatherings are not cleared before the transfer.
LookupSkipClear(k) ==
    /\ call[k].op = "clear"
    /\ Continue(k, [op |-> "transfer", client |-> call[k].client])
    /\ UNCHANGED <<gatherings, created, users, session>>

\* "First, clear any existing gatherings by this user to avoid duplicates"
LookupClear(k) ==
    LET name == session[call[k].client].name IN
    /\ call[k].op = "clear"
    /\ gatherings' = Without({id \in DOMAIN gatherings : gatherings[id].creator = name})
    /\ Continue(k, [op |-> "transfer", client |-> call[k].client])
    /\ UNCHANGED <<created, users, session>>

\* "Now transfer the Master User's gatherings to this user"
LookupTransfer(k) ==
    LET c == call[k].client
        Handed(g) == IF g.machine = c
                     THEN [g EXCEPT !.creator = session[c].name, !.machine = NoMachine,
                                     !.owner = session[c].pid]
                     ELSE g
    IN
    /\ call[k].op = "transfer"
    /\ gatherings' = [id \in DOMAIN gatherings |-> Handed(gatherings[id])]
    /\ Return(k)
    /\ UNCHANGED <<created, users, session>>

\* The error does not end the call: "Non-fatal, continue with the response".  (An
\* error of LookupClear is handled the same way and is left out here.)
LookupTransferFails(k) ==
    /\ call[k].op = "transfer"
    /\ Return(k)
    /\ UNCHANGED <<gatherings, created, users, session>>

(* CustomFind: the aggregation, then the lookup of the creators in users.  *)

\* Platforms 1 and 3 play together, others among themselves.
SearchedConsoles(c) == IF Platform[c] \in {1, 3} THEN {1, 3} ELSE {Platform[c]}

Matches(c, g) ==
    /\ g.creator # session[c].name
    /\ g.age = Fresh
    /\ g.state \notin {InSong, SongSelect}
    /\ g.public
    /\ g.console \in SearchedConsoles(c)

FewerOf(m, n) == IF m < n THEN m ELSE n

\* The creators of the sampled gatherings stand for them in the answer.
FindAggregate(k, c) ==
    LET matching == {id \in DOMAIN gatherings : Matches(c, gatherings[id])} IN
    /\ Accept(k, c)
    /\ ~IsMaster(c)
    /\ session[c].pid \in users
    /\ \E sample \in SUBSET matching :
         /\ Cardinality(sample) = FewerOf(SampleSize, Cardinality(matching))
         /\ IF sample = {} THEN UNCHANGED call
            ELSE Continue(k, [op |-> "reply", client |-> c,
                              hosts |-> [id \in sample |-> gatherings[id].creator]])
    /\ UNCHANGED <<gatherings, created, users, session>>

\* The count was written before the creators that are not found are skipped.
FindReply(k) ==
    /\ call[k].op = "reply"
    /\ Return(k)
    /\ UNCHANGED <<gatherings, created, users, session>>

(* Time and housekeeping.                                                  *)

\* Five minutes, and then the hour, since last_updated are over.
Age(id) ==
    /\ Find(id)
    /\ gatherings[id].age # Expired
    /\ gatherings' = [gatherings EXCEPT ![id].age = @ + 1]
    /\ UNCHANGED <<created, users, session, call>>

\* Mutant: the cutoff is compared the wrong way round.
PruneFresh ==
    /\ gatherings' = Without({id \in DOMAIN gatherings : gatherings[id].age = Fresh})
    /\ UNCHANGED <<created, users, session, call>>

PruneOldSessions ==
    /\ gatherings' = Without({id \in DOMAIN gatherings : gatherings[id].age = Expired})
    /\ UNCHANGED <<created, users, session, call>>
------------------------------------------------------------------------------
BeginCall ==
    \E k \in Calls, c \in Consoles :
        \/ RegisterClear(k, c)
        \/ FindAggregate(k, c)
        \/ \E a \in AccountsOf[c] : LookupAccount(k, c, a)
        \/ \E id \in IDs :
            UpdateFind(k, c, id) \/ SetStateFind(k, c, id) \/ TerminateFind(k, c, id)

FinishCall(k) ==
    \/ RegisterInsert(k) \/ UpdateWrite(k) \/ SetStateWrite(k) \/ TerminateDelete(k)
    \/ LookupClear(k) \/ LookupTransfer(k) \/ LookupTransferFails(k)
    \/ FindReply(k)

Next ==
    \/ BeginCall
    \/ \E k \in Calls : FinishCall(k)
    \/ \E c \in Consoles : Reconnect(c)
    \/ \E id \in IDs : Age(id)
    \/ PruneOldSessions

Spec == Init /\ [][Next]_vars

\* Time passes and the housekeeping ticker fires; handlers may stay where they are.
FairSpec ==
    /\ Spec
    /\ \A id \in IDs : WF_vars(Age(id))
    /\ WF_vars(PruneOldSessions)
------------------------------------------------------------------------------
(* Properties.                                                             *)

CallRecords ==
    {Idle}
    \cup [op : {"insert"}, client : Consoles]
    \cup [op : {"update"}, client : Consoles, id : IDs, public : BOOLEAN]
    \cup [op : {"setstate"}, client : Consoles, id : IDs, state : SessionStates]
    \cup [op : {"terminate"}, client : Consoles, id : IDs]
    \cup [op : {"clear", "transfer"}, client : Wii]
    \cup [op : {"reply"}, client : Consoles, hosts : UNION {[S -> Names] : S \in SUBSET IDs}]

TypeOK ==
    /\ created \in 0 .. MaxGatherings
    /\ DOMAIN gatherings \subseteq 1 .. created
    /\ gatherings \in [DOMAIN gatherings -> Gathering]
    /\ users \in SUBSET Accounts
    /\ session \in [Consoles -> Sessions]
    /\ call \in [Calls -> CallRecords]

\* Names that are typed in one way only.
Steady == {n \in Names : \A a \in Accounts : n \in Spellings[a] => Spellings[a] = {n}}

\* "delete old gatherings, and create a new gathering": whatever a console's
\* players register, update and hand over to each other, no player who types the name
\* in one way ever has two gatherings, and no machine two that still wait to be handed
\* over, provided the console waits for each answer.  (A player who types another case
\* gets a second gathering, and an update of the first gives both one creator.)
OneGatheringEach ==
    \A i, j \in DOMAIN gatherings :
        \/ gatherings[i].creator = gatherings[j].creator /\ gatherings[i].creator \in Steady
        \/ gatherings[i].machine = gatherings[j].machine /\ gatherings[i].machine # NoMachine
        => i = j

\* "make sure the client's PID matches the creator of the gathering": the player a
\* gathering belongs to passes the ownership check on it as long as it carries the name
\* as it was registered, however the player types the name now, and the Master User
\* passes it always.  A gathering written while the name was typed in another case
\* fails its own player's check: the creator is the typed name (lookuporcreateaccount.go:88),
\* and it is compared with the registered one.
OwnerPassesCheck ==
    \A id \in DOMAIN gatherings, c \in Consoles :
        /\ gatherings[id].owner = session[c].pid
        /\ gatherings[id].creator \in Consoles \cup Accounts
        => Owns(c, gatherings[id])

Acting(k) == call[k] # call'[k]
ActingConsole(k) == IF call[k] # Idle THEN call[k].client ELSE call'[k].client
PlayedOn(c) == {c} \cup AccountsOf[c]

\* A gathering changes only through a call of the console it belongs to, between
\* whose check and whose write other consoles act, and it disappears without such
\* a call only when it has not been updated for an hour; a write that was checked
\* before the gathering was terminated, cleared or pruned does not bring it back.
OnlyItsConsoleWrites ==
    [][/\ \A id \in 1 .. created : id \notin DOMAIN gatherings => id \notin DOMAIN gatherings'
       /\ \A id \in DOMAIN gatherings :
            LET g == gatherings[id] IN
            (IF id \in DOMAIN gatherings'
             THEN [gatherings'[id] EXCEPT !.age = g.age] # g
             ELSE g.age # Expired)
            => \E k \in Calls : Acting(k) /\ g.owner \in PlayedOn(ActingConsole(k))]_vars

\* A gathering that nobody refreshes is not kept: again and again it is either
\* freshly updated or gone.
AbandonedIsPruned ==
    \A id \in IDs : []<>(Find(id) => gatherings[id].age = Fresh)
==============================================================================
