------------------------------- MODULE Sessions -------------------------------
(***************************************************************************)
(* How a console comes to act for an account: Login and RequestTicket on   *)
(* the authentication server, OnConnection and RegisterEx on the secure    *)
(* server, LookupOrCreateAccount and DeleteAccount after that, and the     *)
(* client store the other handlers consult.  With the housekeeping task    *)
(* that removes accounts without a name, and restarts of the process.      *)
(*                                                                         *)
(* One action is one MongoDB call with what follows it up to the next one. *)
(* A console waits for the answer to one call before it makes another;     *)
(* calls of different consoles overlap.  Bans do not change here (they do  *)
(* in Config), nor do the fields of an account that no handler of this     *)
(* module reads: station URLs, GUID, link code, console type.              *)
(***************************************************************************)
EXTENDS Integers, Sequences, FiniteSets, Functions

CONSTANTS
    Consoles,   \* each at an address of its own
    Wiis,       \* those that log in as a machine, "Master User (<code>)"
    Verified,   \* those whose tickets are sent to the ticket verifier
    Stated,     \* Stated[c]: the PIDs console c may connect with that it was not given
    Players,    \* whom a username means, upper and lower case being the same
    Names,      \* usernames as they are typed
    Player,     \* Player[n]: whom the username n means
    Typed,      \* Typed[c]: the usernames typed on console c
    NoName,     \* the empty username
    NoCode,     \* the empty friend code
    Banned,     \* players with a ban in force
    Racing,     \* players whose first logins may overlap
    MaxStack,   \* maxPIDStack, 8 in the code
    MaxPIDs,    \* bound: accounts created in a behaviour
    MaxMachines,\* bound: machines created in a behaviour
    MaxRestarts \* bound: restarts of the process

ASSUME SessionsAssumption ==
    /\ Wiis \subseteq Consoles
    /\ Verified \subseteq Consoles
    /\ Stated \in [Consoles -> SUBSET Nat]
    /\ Player \in [Names -> Players]
    /\ Typed \in [Consoles -> SUBSET Names]
    /\ NoName \in Names
    /\ \A n \in Names \ {NoName} : Player[n] # Player[NoName]
    /\ Consoles \cap (Names \cup Players) = {}
    /\ NoCode \notin Consoles \cup Names \cup Players
    /\ Banned \subseteq Players
    /\ Racing \subseteq Players
    /\ MaxStack \in Nat \ {0}
    /\ MaxPIDs \in Nat
    /\ MaxMachines \in Nat
    /\ MaxRestarts \in Nat

VARIABLES
    users,         \* the collection of accounts
    machines,      \* the collection of Wiis
    lastPID,       \* config.last_pid
    lastMachineID, \* config.last_machine_id
    auth,          \* auth[c]: the client object on the authentication server
    ticket,        \* ticket[c]: the ticket console c holds
    client,        \* client[c]: the client object on the secure server
    stack,         \* stack[c]: the client store's PIDStack; empty: not in it
    call,          \* call[c]: what the handler of c's call does next
    cleanup,       \* PIDs CleanupInvalidUsers has still to delete
    restarts,      \* history: how often the process was restarted
    issued,        \* history: every account that was created
    refused        \* history: consoles whose last ticket was refused

database == <<users, machines, lastPID, lastMachineID>>
memory == <<auth, client, stack, call>>
history == <<restarts, issued, refused>>
vars == <<database, memory, ticket, cleanup, history>>

\* last_pid starts at 500 and last_machine_id at 1000000000: an account and a
\* machine never have the same number.
PIDs == 1 .. MaxPIDs
MachineIDs == {MaxPIDs + i : i \in 1 .. MaxMachines}
AnyPID == {0} \cup PIDs \cup MachineIDs

\* "Master User (<code>)" is represented by the friend code, and that by the
\* console.
Codes == Wiis \cup {NoCode}

User == [name : Names, pid : PIDs, machine : {0} \cup MachineIDs]
Machine == [code : Codes, id : MachineIDs]

\* In auth, tickets and client, who (not in the code) is the player or the Wii
\* that Login answered; NoCode for a client that stated another PID.
Someone == Players \cup Wiis \cup {NoCode}
AuthClient == [pid : AnyPID, who : Someone]
NoTicket == [pid |-> 0, who |-> NoCode]
Client ==
    [stage : {"none", "connected", "registered"}, name : Names \cup Codes,
     pid : AnyPID, code : Codes, machine : {0} \cup MachineIDs, who : Someone]
NewClient ==
    [stage |-> "none", name |-> NoName, pid |-> 0, code |-> NoCode, machine |-> 0,
     who |-> NoCode]

Idle == [op |-> "idle"]
Continue(c, next) == call' = [call EXCEPT ![c] = next]
Return(c) == Continue(c, Idle)
------------------------------------------------------------------------------
(* Looking things up.                                                      *)

\* Mutant: the username is compared as it is spelled.
MatchingExactly(name) == {u \in users : u.name = name}

\* users.FindOne(CaseInsensitiveUsername(username)) finds one of these.
Matching(name) == {u \in users : Player[u.name] = Player[name]}

WithPID(pid) == {u \in users : u.pid = pid}
WithCode(code) == {m \in machines : m.code = code}
WithMachineID(id) == {m \in machines : m.id = id}

\* Mutant: a full stack keeps its oldest entries.
PushWhenRoom(pids, pid) ==
    IF Len(pids) < MaxStack THEN Append(pids, pid) ELSE pids

\* Mutant: nothing is evicted.
PushAlways(pids, pid) ==
    IF pid \in Range(pids) THEN pids ELSE Append(pids, pid)

\* PushPID: "de-dupes and evicts oldest when full".
PushPID(pids, pid) ==
    IF pid \in Range(pids)
    THEN LET i == CHOOSE j \in DOMAIN pids : pids[j] = pid IN
         SubSeq(pids, 1, i - 1) \o SubSeq(pids, i + 1, Len(pids)) \o <<pid>>
    ELSE Append(IF Len(pids) < MaxStack THEN pids ELSE Tail(pids), pid)

\* ValidateClientPID
IsValid(c) == client[c].pid # 0 /\ client[c].pid \in Range(stack[c])

\* ValidateNonMasterClientPID
IsValidNonMaster(c) ==
    /\ IsValid(c)
    /\ WithMachineID(client[c].pid) = {}
    /\ \A u \in WithPID(client[c].pid) : Player[u.name] \notin Banned

\* A console registers once it is connected, and only then makes other calls.
MayRegister(c) == client[c].stage = "connected" /\ call[c] = Idle
MayCall(c) == client[c].stage = "registered" /\ call[c] = Idle
------------------------------------------------------------------------------
Init ==
    /\ users = {}
    /\ machines = {}
    /\ lastPID = 0
    /\ lastMachineID = 0
    /\ auth = [c \in Consoles |-> NoTicket]
    /\ ticket = [c \in Consoles |-> NoTicket]
    /\ client = [c \in Consoles |-> NewClient]
    /\ stack = [c \in Consoles |-> <<>>]
    /\ call = [c \in Consoles |-> Idle]
    /\ cleanup = {}
    /\ restarts = 0
    /\ issued = {}
    /\ refused = {}
------------------------------------------------------------------------------
(* Creating an account, in Login and in LookupOrCreateAccount: once the    *)
(* name was not found, GetNextPID, InsertOne, and the name looked up again.*)

\* Two first logins of one player overlap only where that is asked for.
MayCreate(c, name) ==
    \/ Player[name] \in Racing
    \/ \A other \in Consoles \ {c} :
        call[other].op \in {"next PID", "insert"} => Player[call[other].name] # Player[name]

NotFound(c, handler, name) ==
    /\ Matching(name) = {}
    /\ MayCreate(c, name)
    /\ Continue(c, [op |-> "next PID", handler |-> handler, name |-> name])

\* GetNextPID, for which module Config has the counter.
GetNextPID(c) ==
    /\ call[c].op = "next PID"
    /\ lastPID < MaxPIDs
    /\ lastPID' = lastPID + 1
    /\ Continue(c, [op |-> "insert", handler |-> call[c].handler, name |-> call[c].name, pid |-> lastPID'])
    /\ UNCHANGED <<users, machines, lastMachineID, auth, client, stack, ticket, cleanup, history>>

\* LookupOrCreateAccount then sets the session's PID to user.PID, still zero.
InsertUser(c) ==
    /\ call[c].op = "insert"
    /\ LET machine == IF call[c].handler = "lookup" THEN client[c].machine ELSE 0
           user == [name |-> call[c].name, pid |-> call[c].pid, machine |-> machine]
       IN /\ users' = users \cup {user}
          /\ issued' = issued \cup {user}
    /\ client' = IF call[c].handler = "lookup" THEN [client EXCEPT ![c] = [@ EXCEPT !.pid = 0]] ELSE client
    /\ Continue(c, [op |-> "find", handler |-> call[c].handler, name |-> call[c].name])
    /\ UNCHANGED <<machines, lastPID, lastMachineID, auth, stack, ticket, cleanup,
                   restarts, refused>>

\* client.SetPlayerID(user.PID) on the authentication server
LoggedIn(c, pid, who) == auth' = [auth EXCEPT ![c] = [pid |-> pid, who |-> who]]

\* client.Username, client.SetPlayerID, AddClient and PushPID
Switched(c, name, pid) ==
    /\ client' = [client EXCEPT ![c] = [@ EXCEPT !.name = name, !.pid = pid, !.who = Player[name]]]
    /\ stack' = [stack EXCEPT ![c] = PushPID(@, pid)]

FindCreated(c) ==
    /\ call[c].op = "find"
    /\ LET name == call[c].name IN
       \/ \E user \in Matching(name) :
            \/ /\ call[c].handler = "login"
               /\ LoggedIn(c, user.pid, Player[name])
               /\ UNCHANGED <<client, stack>>
            \/ /\ call[c].handler = "lookup"
               /\ Switched(c, name, user.pid)
               /\ UNCHANGED auth
       \* "Could not find newly-created user"
       \/ /\ Matching(name) = {}
          /\ UNCHANGED <<auth, client, stack>>
    /\ Return(c)
    /\ UNCHANGED <<database, ticket, cleanup, history>>
------------------------------------------------------------------------------
(* The authentication server.                                              *)

\* Login of an Xbox 360, a PS3 or RPCS3.  A ban keeps the player out.
LoginKnown(c, name) ==
    /\ call[c] = Idle
    /\ c \notin Wiis
    /\ Player[name] \notin Banned
    /\ \E user \in Matching(name) : LoggedIn(c, user.pid, Player[name])
    /\ UNCHANGED <<database, client, stack, call, ticket, cleanup, history>>

LoginNew(c, name) ==
    /\ call[c] = Idle
    /\ c \notin Wiis
    /\ Player[name] \notin Banned
    /\ NotFound(c, "login", name)
    /\ UNCHANGED <<database, auth, client, stack, ticket, cleanup, history>>

\* Login of a Wii, which the database knows, ...
LoginMachine(c) ==
    /\ call[c] = Idle
    /\ \E m \in WithCode(c) : LoggedIn(c, m.id, c)
    /\ UNCHANGED <<database, client, stack, call, ticket, cleanup, history>>

\* ... or does not: GetNextMachineID, InsertOne.
LoginNewMachine(c) ==
    /\ call[c] = Idle
    /\ c \in Wiis
    /\ WithCode(c) = {}
    /\ Continue(c, [op |-> "next machine ID"])
    /\ UNCHANGED <<database, auth, client, stack, ticket, cleanup, history>>

GetNextMachineID(c) ==
    /\ call[c].op = "next machine ID"
    /\ lastMachineID < MaxMachines
    /\ lastMachineID' = lastMachineID + 1
    /\ Continue(c, [op |-> "insert machine", id |-> MaxPIDs + lastMachineID'])
    /\ UNCHANGED <<users, machines, lastPID, auth, client, stack, ticket, cleanup, history>>

\* Mutant: the machine is registered under the empty friend code, which
\* client.WiiFC still is.
InsertCodeless(c) ==
    /\ call[c].op = "insert machine"
    /\ machines' = machines \cup {[code |-> NoCode, id |-> call[c].id]}
    /\ LoggedIn(c, 0, c)
    /\ Return(c)
    /\ UNCHANGED <<users, lastPID, lastMachineID, client, stack, ticket, cleanup, history>>

\* The answer has user.PID, which is zero: the new machine is not used.
InsertMachine(c) ==
    /\ call[c].op = "insert machine"
    /\ machines' = machines \cup {[code |-> c, id |-> call[c].id]}
    /\ LoggedIn(c, 0, c)
    /\ Return(c)
    /\ UNCHANGED <<users, lastPID, lastMachineID, client, stack, ticket, cleanup, history>>

\* Mutant: a ticket is made out for any PID.
TicketForAnyone(c, pid) ==
    /\ call[c] = Idle
    /\ auth[c].who # NoCode
    /\ ticket' = [ticket EXCEPT ![c] = [pid |-> pid, who |-> auth[c].who]]
    /\ UNCHANGED <<database, memory, cleanup, history>>

\* "does not match server-assigned PID"
RequestTicket(c, pid) ==
    /\ call[c] = Idle
    /\ auth[c].who # NoCode
    /\ pid = auth[c].pid
    /\ ticket' = [ticket EXCEPT ![c] = [pid |-> pid, who |-> auth[c].who]]
    /\ UNCHANGED <<database, memory, cleanup, history>>
------------------------------------------------------------------------------
(* The secure server.                                                      *)

\* OnConnection finds out who has the PID of the ticket: an account with a
\* name, a machine, or nobody, which is like a machine without a friend code.
Identified(before, pid) ==
    LET accounts == {u \in WithPID(pid) : u.name # NoName}
        known == WithMachineID(pid)
    IN {[before EXCEPT !.stage = "connected", !.name = u.name] : u \in accounts}
       \cup
       (IF accounts # {} THEN {}
        ELSE IF known # {}
        THEN {[before EXCEPT !.stage = "connected", !.name = m.code, !.code = m.code,
                             !.machine = m.id] : m \in known}
        ELSE {[before EXCEPT !.stage = "connected", !.name = NoCode, !.code = NoCode,
                             !.machine = 0]})

\* The PID is the one the console states: the Kerberos ticket is skipped, and the
\* session key is the same for all (nexservers.go:30-46).
MayState(c, pid) ==
    \/ ticket[c] # NoTicket /\ pid = ticket[c].pid
    \/ pid \in Stated[c]

\* The client object is a new one, or the one the address had before; a ticket
\* serves for one connection.
OnConnection(c, pid) ==
    /\ call[c] = Idle
    /\ MayState(c, pid)
    /\ \E before \in {NewClient, client[c]} :
        \E identified \in Identified(before, pid) :
            client' = [client EXCEPT ![c] =
                [identified EXCEPT !.who = IF pid = ticket[c].pid THEN ticket[c].who ELSE NoCode]]
    /\ ticket' = [ticket EXCEPT ![c] = NoTicket]
    /\ UNCHANGED <<database, auth, stack, call, cleanup, history>>

\* users by the very username, else machines by friend code
Registrants(c) ==
    LET accounts == {u \in users : u.name = client[c].name} IN
    IF accounts # {} THEN {u.pid : u \in accounts}
    ELSE {m.id : m \in WithCode(client[c].code)}

\* SetPlayerID, AddClient and PushPID: the PID is valid from here on, before the
\* class of the ticket is looked at and the verifier is asked.
RegisterEx(c) ==
    /\ MayRegister(c)
    /\ \E pid \in Registrants(c) :
        /\ client' = [client EXCEPT ![c] = [@ EXCEPT !.pid = pid]]
        /\ stack' = [stack EXCEPT ![c] = PushPID(@, pid)]
    /\ Continue(c, [op |-> "register"])
    /\ refused' = refused \ {c}
    /\ UNCHANGED <<database, auth, ticket, cleanup, restarts, issued>>

\* The ticket is accepted, or nobody is asked.
RegisterAccepted(c) ==
    /\ call[c].op = "register"
    /\ client' = [client EXCEPT ![c] = [@ EXCEPT !.stage = "registered"]]
    /\ Return(c)
    /\ UNCHANGED <<database, auth, stack, ticket, cleanup, history>>

\* "could not determine console type": an error, and the PID stays valid.
RegisterUnknownClass(c) ==
    /\ call[c].op = "register"
    /\ Return(c)
    /\ UNCHANGED <<database, auth, client, stack, ticket, cleanup, history>>

\* Mutant: the client is kicked and its PID stays.
RefuseKeepingPID(c) ==
    /\ call[c].op = "register"
    /\ c \in Verified
    /\ client' = [client EXCEPT ![c] = [@ EXCEPT !.stage = "none"]]
    /\ refused' = refused \cup {c}
    /\ Return(c)
    /\ UNCHANGED <<database, auth, stack, ticket, cleanup, restarts, issued>>

\* "reject the client and then reset their stuff": Kick, SetPlayerID(0); the
\* PID stays on the stack.
RegisterRefused(c) ==
    /\ call[c].op = "register"
    /\ c \in Verified
    /\ client' = [client EXCEPT ![c] = [@ EXCEPT !.pid = 0, !.stage = "none"]]
    /\ refused' = refused \cup {c}
    /\ Return(c)
    /\ UNCHANGED <<database, auth, stack, ticket, cleanup, restarts, issued>>

LookupKnown(c, name) ==
    /\ MayCall(c)
    /\ IsValid(c)
    /\ \E user \in Matching(name) : Switched(c, name, user.pid)
    /\ UNCHANGED <<database, auth, call, ticket, cleanup, history>>

LookupNew(c, name) ==
    /\ MayCall(c)
    /\ IsValid(c)
    /\ NotFound(c, "lookup", name)
    /\ UNCHANGED <<database, auth, client, stack, ticket, cleanup, history>>

\* DeleteAccount: the account must have been created by the machine the call
\* comes from, which is 0 unless it is a Wii.
DeleteFind(c, pid) ==
    /\ MayCall(c)
    /\ IsValidNonMaster(c)
    /\ \E user \in WithPID(pid) : user.machine = client[c].machine
    /\ Continue(c, [op |-> "delete", pid |-> pid])
    /\ UNCHANGED <<database, auth, client, stack, ticket, cleanup, history>>

DeleteOne(c) ==
    /\ call[c].op = "delete"
    /\ \/ \E user \in WithPID(call[c].pid) : users' = users \ {user}
       \/ WithPID(call[c].pid) = {} /\ UNCHANGED users
    /\ Return(c)
    /\ UNCHANGED <<machines, lastPID, lastMachineID, auth, client, stack, ticket, cleanup, history>>
------------------------------------------------------------------------------
(* Housekeeping and restarts.                                              *)

\* CleanupInvalidUsers: find the accounts without a name, ...
CleanupFind ==
    /\ cleanup = {}
    /\ cleanup' = {u.pid : u \in Matching(NoName)}
    /\ UNCHANGED <<database, memory, ticket, history>>

\* ... then delete them, and their scores, one by one by PID.
CleanupDelete ==
    /\ \E pid \in cleanup :
        /\ \/ \E user \in WithPID(pid) : users' = users \ {user}
           \/ WithPID(pid) = {} /\ UNCHANGED users
        /\ cleanup' = cleanup \ {pid}
    /\ UNCHANGED <<machines, lastPID, lastMachineID, memory, ticket, history>>

\* The process ends, and what it had in memory with it; calls are abandoned.
Restart ==
    /\ restarts < MaxRestarts
    /\ restarts' = restarts + 1
    /\ auth' = [c \in Consoles |-> NoTicket]
    /\ client' = [c \in Consoles |-> NewClient]
    /\ stack' = [c \in Consoles |-> <<>>]
    /\ call' = [c \in Consoles |-> Idle]
    /\ cleanup' = {}
    /\ UNCHANGED <<database, ticket, issued, refused>>
------------------------------------------------------------------------------
\* How a registration ends; the verifier is asked without a timeout.
RegisterEnds(c) == RegisterAccepted(c) \/ RegisterUnknownClass(c) \/ RegisterRefused(c)

\* What a handler does after its first call of the database.
Proceed(c) ==
    \/ GetNextPID(c) \/ InsertUser(c) \/ FindCreated(c)
    \/ GetNextMachineID(c) \/ InsertMachine(c)
    \/ DeleteOne(c)

ConsoleNext(c) ==
    \/ Proceed(c)
    \/ \E name \in Typed[c] : LoginKnown(c, name) \/ LoginNew(c, name)
    \/ LoginMachine(c) \/ LoginNewMachine(c)
    \/ \E pid \in AnyPID : RequestTicket(c, pid)
    \/ \E pid \in AnyPID : OnConnection(c, pid)
    \/ RegisterEx(c) \/ RegisterEnds(c)
    \/ \E name \in Typed[c] : LookupKnown(c, name) \/ LookupNew(c, name)
    \/ \E pid \in PIDs : DeleteFind(c, pid)

Next ==
    \/ \E c \in Consoles : ConsoleNext(c)
    \/ CleanupFind \/ CleanupDelete
    \/ Restart

Spec == Init /\ [][Next]_vars

\* A handler that has begun goes on, housekeeping runs every minute, and a Wii
\* goes on trying to get in, with a ticket that is accepted now and then.
FairSpec ==
    /\ Spec
    /\ \A c \in Consoles : WF_vars(Proceed(c))
    /\ WF_vars(CleanupFind)
    /\ WF_vars(CleanupDelete)
    /\ \A w \in Wiis :
        /\ WF_vars(LoginMachine(w) \/ LoginNewMachine(w))
        /\ WF_vars(\E pid \in AnyPID : RequestTicket(w, pid))
        /\ WF_vars(\E pid \in AnyPID : OnConnection(w, pid))
        /\ WF_vars(RegisterEx(w))
        /\ WF_vars(RegisterEnds(w))
        /\ SF_vars(RegisterAccepted(w))
------------------------------------------------------------------------------
(* Properties.                                                             *)

CallRecords ==
    {Idle}
    \cup [op : {"next PID", "find"}, handler : {"login", "lookup"}, name : Names]
    \cup [op : {"insert"}, handler : {"login", "lookup"}, name : Names, pid : PIDs]
    \cup [op : {"next machine ID", "register"}]
    \cup [op : {"insert machine"}, id : MachineIDs]
    \cup [op : {"delete"}, pid : PIDs]

TypeOK ==
    /\ users \in SUBSET User
    /\ machines \in SUBSET Machine
    /\ lastPID \in 0 .. MaxPIDs
    /\ lastMachineID \in 0 .. MaxMachines
    /\ auth \in [Consoles -> AuthClient]
    /\ ticket \in [Consoles -> AuthClient]
    /\ client \in [Consoles -> Client]
    /\ stack \in [Consoles -> Seq(AnyPID)]
    /\ \A c \in Consoles : Len(stack[c]) <= MaxStack
    /\ call \in [Consoles -> CallRecords]
    /\ cleanup \in SUBSET PIDs
    /\ restarts \in 0 .. MaxRestarts
    /\ issued \in SUBSET User
    /\ refused \in SUBSET Consoles

\* "If full, evict the oldest" (clientInfo.go:72): however many accounts a console
\* has switched between, and although the store outlives its connections, the PID
\* it acts under at the moment was not evicted.
CurrentPIDIsValid ==
    \A c \in Consoles : client[c].stage = "registered" /\ client[c].pid # 0 => IsValid(c)

\* "reject the client and then reset their stuff" (registerex.go:138): from its kick
\* until it asks to be registered again a refused console passes no validation, although
\* the PID it had asked for stays on the stack of its address and the client object may
\* serve its next connection.  Not so before the kick: the PID is valid while the
\* verifier is asked.
RefusedStaysOut == \A c \in refused : ~IsValid(c)

\* The PID of the ticket was stated at the connection, and no friend code is left on the
\* client object from a connection with the PID of another's machine.
AsTicketed(c) == client[c].who # NoCode /\ client[c].code \in {NoCode, c}

\* A console that connects with the PID it was given registers as the player or the
\* machine that logged in: the PID becomes a username in OnConnection and a PID again
\* in RegisterEx, while accounts are created, deleted and renamed by upper and lower
\* case, and while its address may have been another player's before.  Of a console
\* that states another PID nothing is said: the server does not compare.
RegisteredAsLoggedIn ==
    [][\A c \in Consoles :
        client[c].stage = "connected" /\ client'[c].stage = "registered" /\ AsTicketed(c) =>
            \/ \E u \in issued : u.pid = client'[c].pid /\ Player[u.name] = client[c].who
            \/ \E m \in WithMachineID(client'[c].pid) : m.code = client[c].who]_vars

\* A player's first login creates one account: "race condition prevention"
\* (login.go:260) by a counter keeps PIDs apart, and looking before creating keeps
\* accounts apart as long as first logins of one player do not overlap.
registry == INSTANCE Registry WITH
    Players <- Players \ Racing,
    accounts <- {[player |-> Player[u.name], pid |-> u.pid] :
                    u \in {v \in users : Player[v.name] \notin Racing}},
    used <- {u.pid : u \in {v \in issued : Player[v.name] \notin Racing}}

ImplementsRegistry == registry!Spec

\* A Wii that has never connected gets PID 0 at its first login, with which it
\* cannot register (login.go:257); one that goes on trying is let in nevertheless.
NewWiiRegisters == \A w \in Wiis : []<>(client[w].stage = "registered")
==============================================================================
