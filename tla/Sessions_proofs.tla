---------------------------- MODULE Sessions_proofs ----------------------------
(***************************************************************************)
(* Proofs about sessions: types, the client store, and the registry of     *)
(* accounts, for any consoles, names, bounds and size of the stack.        *)
(***************************************************************************)
EXTENDS Sessions, SequenceTheorems, TLAPS

------------------------------------------------------------------------------
(* What the proofs use of the assumption.                                  *)

LEMMA Bounds ==
  /\ MaxStack \in Nat \ {0}
  /\ MaxPIDs \in Nat
  /\ MaxMachines \in Nat
  /\ MaxRestarts \in Nat
  BY SessionsAssumption

LEMMA NamesOfPlayers ==
  /\ NoName \in Names
  /\ \A n \in Names : Player[n] \in Players
  BY SessionsAssumption

LEMMA ConsoleKinds == Wiis \subseteq Consoles /\ \A c \in Consoles : Typed[c] \subseteq Names
  BY SessionsAssumption
------------------------------------------------------------------------------
(* The stack of PIDs.                                                      *)

\* PushPID keeps the stack within its size and puts the PID on it.
LEMMA PushPIDPushes ==
  ASSUME NEW pids \in Seq(AnyPID), Len(pids) <= MaxStack, NEW pid \in AnyPID
  PROVE  /\ PushPID(pids, pid) \in Seq(AnyPID)
         /\ Len(PushPID(pids, pid)) <= MaxStack
         /\ pid \in Range(PushPID(pids, pid))
<1>1. CASE pid \in Range(pids)
  <2> DEFINE i == CHOOSE j \in DOMAIN pids : pids[j] = pid
             before == SubSeq(pids, 1, i - 1)
             after == SubSeq(pids, i + 1, Len(pids))
  <2>1. i \in 1 .. Len(pids) /\ Len(pids) \in Nat /\ i \in Nat
    BY <1>1 DEF Range
  <2> HIDE DEF i
  <2>2. before \in Seq(AnyPID) /\ Len(before) = i - 1
    BY <2>1, SubSeqProperties
  <2>3. after \in Seq(AnyPID) /\ Len(after) = Len(pids) - i
    BY <2>1, SubSeqProperties
  <2> HIDE DEF before, after
  <2> DEFINE others == before \o after
  <2>4. others \in Seq(AnyPID) /\ Len(others) = Len(pids) - 1
    <3>1. others \in Seq(AnyPID) /\ Len(others) = Len(before) + Len(after)
      BY <2>2, <2>3, ConcatProperties
    <3> QED
      BY <2>1, <2>2, <2>3, <3>1
  <2> HIDE DEF others
  <2>5. PushPID(pids, pid) = Append(others, pid)
    <3>1. PushPID(pids, pid) = others \o <<pid>>
      BY <1>1 DEF PushPID, others, before, after, i
    <3> QED
      BY <3>1, <2>4, AppendIsConcat
  <2>6. Len(Append(others, pid)) = Len(pids) /\ Append(others, pid)[Len(pids)] = pid
    BY <2>4, AppendProperties
  <2> QED
    BY <2>1, <2>4, <2>5, <2>6, Bounds, AppendProperties DEF Range
<1>2. CASE pid \notin Range(pids)
  <2> DEFINE others == IF Len(pids) < MaxStack THEN pids ELSE Tail(pids)
  <2>1. others \in Seq(AnyPID) /\ Len(others) < MaxStack
    BY Bounds, HeadTailProperties
  <2>2. PushPID(pids, pid) = Append(others, pid)
    BY <1>2 DEF PushPID
  <2> HIDE DEF others
  <2>3. /\ Append(others, pid) \in Seq(AnyPID)
        /\ Len(Append(others, pid)) = Len(others) + 1
        /\ Append(others, pid)[Len(others) + 1] = pid
    BY <2>1, AppendProperties
  <2> QED
    BY <2>1, <2>2, <2>3, Bounds DEF Range
<1> QED
  BY <1>1, <1>2
------------------------------------------------------------------------------
(* Types.                                                                  *)

\* The records of calls, told apart by op.
LEMMA CallRecordKinds ==
  ASSUME NEW r \in CallRecords
  PROVE  /\ r.op \in {"next PID", "find"} => r.handler \in {"login", "lookup"} /\ r.name \in Names
         /\ r.op = "insert" => r.handler \in {"login", "lookup"} /\ r.name \in Names /\ r.pid \in PIDs
         /\ r.op = "insert machine" => r.id \in MachineIDs
         /\ r.op = "delete" => r.pid \in PIDs
<1>1. CASE r = Idle
  BY <1>1 DEF Idle
<1>6. CASE r \in [op : {"next machine ID", "register"}]
  BY <1>6
<1>2. CASE r \in [op : {"next PID", "find"}, handler : {"login", "lookup"}, name : Names]
  BY <1>2
<1>3. CASE r \in [op : {"insert"}, handler : {"login", "lookup"}, name : Names, pid : PIDs]
  BY <1>3
<1>4. CASE r \in [op : {"insert machine"}, id : MachineIDs]
  BY <1>4
<1>5. CASE r \in [op : {"delete"}, pid : PIDs]
  BY <1>5
<1> QED
  BY <1>1, <1>2, <1>3, <1>4, <1>5, <1>6 DEF CallRecords

LEMMA ClientFields ==
  ASSUME NEW r \in Client, NEW name \in Names, NEW pid \in AnyPID, NEW who \in Someone,
         NEW stage \in {"none", "connected", "registered"}
  PROVE  /\ [r EXCEPT !.pid = pid] \in Client
         /\ [r EXCEPT !.pid = pid, !.stage = stage] \in Client
         /\ [r EXCEPT !.name = name, !.pid = pid, !.who = who] \in Client
<1>1. [r EXCEPT !.pid = pid] \in Client
  BY DEF Client
<1>2. [r EXCEPT !.pid = pid, !.stage = stage] \in Client
  BY DEF Client
<1>3. [r EXCEPT !.name = name, !.pid = pid, !.who = who] \in Client
  BY DEF Client
<1> QED
  BY <1>1, <1>2, <1>3

LEMMA InitTyped == Init => TypeOK
<1> SUFFICES ASSUME Init PROVE TypeOK
  OBVIOUS
<1>1. NoTicket \in AuthClient
  BY DEF NoTicket, AuthClient, Someone, AnyPID
<1>2. NewClient \in Client
  BY NamesOfPlayers DEF NewClient, Client, Someone, Codes, AnyPID
<1>3. Idle \in CallRecords
  BY DEF CallRecords
<1>4. << >> \in Seq(AnyPID) /\ Len(<< >>) = 0
  OBVIOUS
<1> QED
  BY <1>1, <1>2, <1>3, <1>4, Bounds DEF Init, TypeOK

\* Handlers that look an account or a machine up.
LEMMA CallsTyped ==
  ASSUME TypeOK, NEW c \in Consoles, NEW next \in CallRecords, Continue(c, next)
  PROVE  call' \in [Consoles -> CallRecords]
  BY DEF TypeOK, Continue

LEMMA LoggedInTyped ==
  ASSUME TypeOK, NEW c \in Consoles, NEW pid \in AnyPID, NEW who \in Someone, LoggedIn(c, pid, who)
  PROVE  auth' \in [Consoles -> AuthClient]
  BY DEF TypeOK, LoggedIn, AuthClient

\* What is pushed keeps every stack a stack.
LEMMA PushedTyped ==
  ASSUME TypeOK, NEW c \in Consoles, NEW pid \in AnyPID,
         stack' = [stack EXCEPT ![c] = PushPID(@, pid)]
  PROVE  /\ stack' \in [Consoles -> Seq(AnyPID)]
         /\ \A d \in Consoles : Len(stack'[d]) <= MaxStack
         /\ pid \in Range(stack'[c])
  BY PushPIDPushes DEF TypeOK

LEMMA SwitchedTyped ==
  ASSUME TypeOK, NEW c \in Consoles, NEW name \in Names, NEW pid \in AnyPID, Switched(c, name, pid)
  PROVE  /\ client' \in [Consoles -> Client]
         /\ stack' \in [Consoles -> Seq(AnyPID)]
         /\ \A d \in Consoles : Len(stack'[d]) <= MaxStack
         /\ pid \in Range(stack'[c])
<1>1. Player[name] \in Someone
  BY NamesOfPlayers DEF Someone
<1>2. client' \in [Consoles -> Client]
  BY <1>1, ClientFields DEF TypeOK, Switched
<1> QED
  BY <1>2, PushedTyped DEF Switched

\* Only Wiis log in as machines.
MachineCalls ==
    \A c \in Consoles : call[c].op \in {"next machine ID", "insert machine"} => c \in Wiis

LEMMA IdleTyped == Idle \in CallRecords /\ Idle.op = "idle"
  BY DEF CallRecords, Idle

LEMMA ProceedTyped ==
  ASSUME TypeOK, MachineCalls, NEW c \in Consoles, Proceed(c)
  PROVE  TypeOK'
<1>1. CASE GetNextPID(c)
  <2>1. call[c].handler \in {"login", "lookup"} /\ call[c].name \in Names
    BY <1>1, CallRecordKinds DEF GetNextPID, TypeOK
  <2>2. lastPID' \in 0 .. MaxPIDs /\ lastPID' \in PIDs
    <3>1. lastPID \in 0 .. MaxPIDs /\ lastPID < MaxPIDs /\ lastPID' = lastPID + 1
      BY <1>1 DEF GetNextPID, TypeOK
    <3> QED
      BY <3>1, Bounds DEF PIDs
  <2>3. call' \in [Consoles -> CallRecords]
    BY <1>1, <2>1, <2>2, CallsTyped DEF GetNextPID, CallRecords
  <2> QED
    BY <1>1, <2>2, <2>3 DEF GetNextPID, TypeOK, history
<1>2. CASE InsertUser(c)
  <2>1. /\ call[c].handler \in {"login", "lookup"} /\ call[c].name \in Names
        /\ call[c].pid \in PIDs
    BY <1>2, CallRecordKinds DEF InsertUser, TypeOK
  <2>2. client[c] \in Client
    BY DEF TypeOK
  <2>3. users' \in SUBSET User /\ issued' \in SUBSET User
    BY <1>2, <2>1, <2>2 DEF InsertUser, TypeOK, User, Client
  <2>4. client' \in [Consoles -> Client]
    <3>1. [client[c] EXCEPT !.pid = 0] \in Client
      BY <2>2 DEF Client, AnyPID
    <3>2. client \in [Consoles -> Client]
      BY DEF TypeOK
    <3>3. \/ client' = client
          \/ client' = [client EXCEPT ![c] = [client[c] EXCEPT !.pid = 0]]
      BY <1>2 DEF InsertUser
    <3> QED
      BY <3>1, <3>2, <3>3
  <2>5. call' \in [Consoles -> CallRecords]
    BY <1>2, <2>1, CallsTyped DEF InsertUser, CallRecords
  <2> QED
    BY <1>2, <2>3, <2>4, <2>5 DEF InsertUser, TypeOK
<1>3. CASE FindCreated(c)
  <2>1. call[c].name \in Names
    BY <1>3, CallRecordKinds DEF FindCreated, TypeOK
  <2>2. call' \in [Consoles -> CallRecords]
    BY <1>3, IdleTyped, CallsTyped DEF FindCreated, Return
  <2>3. \A u \in Matching(call[c].name) : u.pid \in AnyPID
    BY DEF Matching, TypeOK, User, AnyPID
  <2>4. Player[call[c].name] \in Someone
    BY <2>1, NamesOfPlayers DEF Someone
  <2>5. auth' \in [Consoles -> AuthClient]
    BY <1>3, <2>3, <2>4, LoggedInTyped DEF FindCreated, TypeOK
  <2>6. /\ client' \in [Consoles -> Client]
        /\ stack' \in [Consoles -> Seq(AnyPID)]
        /\ \A d \in Consoles : Len(stack'[d]) <= MaxStack
    BY <1>3, <2>1, <2>3, SwitchedTyped DEF FindCreated, TypeOK
  <2> QED
    BY <1>3, <2>2, <2>5, <2>6 DEF FindCreated, TypeOK, database, history
<1>4. CASE GetNextMachineID(c)
  <2>1. lastMachineID' \in 0 .. MaxMachines /\ MaxPIDs + lastMachineID' \in MachineIDs
    <3>1. /\ lastMachineID \in 0 .. MaxMachines /\ lastMachineID < MaxMachines
          /\ lastMachineID' = lastMachineID + 1
      BY <1>4 DEF GetNextMachineID, TypeOK
    <3> QED
      BY <3>1, Bounds DEF MachineIDs
  <2>2. call' \in [Consoles -> CallRecords]
    BY <1>4, <2>1, CallsTyped DEF GetNextMachineID, CallRecords
  <2> QED
    BY <1>4, <2>1, <2>2 DEF GetNextMachineID, TypeOK, history
<1>5. CASE InsertMachine(c)
  <2>1. call[c].id \in MachineIDs
    BY <1>5, CallRecordKinds DEF InsertMachine, TypeOK
  <2>2. call' \in [Consoles -> CallRecords]
    BY <1>5, IdleTyped, CallsTyped DEF InsertMachine, Return
  <2>3. auth' \in [Consoles -> AuthClient]
    <3>1. 0 \in AnyPID /\ c \in Someone
      BY <1>5 DEF InsertMachine, AnyPID, Someone, MachineCalls
    <3> QED
      BY <1>5, <3>1, LoggedInTyped DEF InsertMachine
  <2>4. machines' \in SUBSET Machine
    <3>1. c \in Codes
      BY <1>5 DEF InsertMachine, Codes, MachineCalls
    <3>2. [code |-> c, id |-> call[c].id] \in Machine
      BY <2>1, <3>1 DEF Machine
    <3>3. machines \in SUBSET Machine
      BY DEF TypeOK
    <3> QED
      BY <1>5, <3>2, <3>3 DEF InsertMachine
  <2> QED
    BY <1>5, <2>2, <2>3, <2>4 DEF InsertMachine, TypeOK, history
<1>6. CASE DeleteOne(c)
  <2>1. call' \in [Consoles -> CallRecords]
    BY <1>6, IdleTyped, CallsTyped DEF DeleteOne, Return
  <2> QED
    BY <1>6, <2>1 DEF DeleteOne, TypeOK, history
<1> QED
  BY <1>1, <1>2, <1>3, <1>4, <1>5, <1>6 DEF Proceed

LEMMA AuthenticationTyped ==
  ASSUME TypeOK, NEW c \in Consoles, NEW name \in Names,
         \/ LoginKnown(c, name) \/ LoginNew(c, name) \/ LoginMachine(c) \/ LoginNewMachine(c)
         \/ \E pid \in AnyPID : RequestTicket(c, pid)
  PROVE  TypeOK'
<1>1. CASE LoginKnown(c, name)
  <2>1. \A u \in Matching(name) : u.pid \in AnyPID
    BY DEF Matching, TypeOK, User, AnyPID
  <2>2. Player[name] \in Someone
    BY NamesOfPlayers DEF Someone
  <2>3. auth' \in [Consoles -> AuthClient]
    BY <1>1, <2>1, <2>2, LoggedInTyped DEF LoginKnown
  <2> QED
    BY <1>1, <2>3 DEF LoginKnown, TypeOK, database, history
<1>2. CASE LoginNew(c, name)
  <2>1. [op |-> "next PID", handler |-> "login", name |-> name] \in CallRecords
    BY DEF CallRecords
  <2>2. call' \in [Consoles -> CallRecords]
    BY <1>2, <2>1, CallsTyped DEF LoginNew, NotFound
  <2> QED
    BY <1>2, <2>2 DEF LoginNew, TypeOK, database, history
<1>3. CASE LoginMachine(c)
  <2>1. PICK m \in WithCode(c) : LoggedIn(c, m.id, c)
    BY <1>3 DEF LoginMachine
  <2>2. m.id \in AnyPID /\ c \in Someone
    BY <2>1 DEF WithCode, TypeOK, Machine, Codes, AnyPID, Someone
  <2>3. auth' \in [Consoles -> AuthClient]
    BY <2>1, <2>2, LoggedInTyped
  <2> QED
    BY <1>3, <2>3 DEF LoginMachine, TypeOK, database, history
<1>4. CASE LoginNewMachine(c)
  <2>1. [op |-> "next machine ID"] \in CallRecords
    BY DEF CallRecords
  <2>2. call' \in [Consoles -> CallRecords]
    BY <1>4, <2>1, CallsTyped DEF LoginNewMachine
  <2> QED
    BY <1>4, <2>2 DEF LoginNewMachine, TypeOK, database, history
<1>5. CASE \E pid \in AnyPID : RequestTicket(c, pid)
  <2>1. PICK pid \in AnyPID : RequestTicket(c, pid)
    BY <1>5
  <2>2. auth[c].who \in Someone
    BY DEF TypeOK, AuthClient
  <2>3. [pid |-> pid, who |-> auth[c].who] \in AuthClient
    BY <2>2 DEF AuthClient
  <2>4. ticket' \in [Consoles -> AuthClient]
    BY <2>1, <2>3 DEF RequestTicket, TypeOK
  <2> QED
    BY <2>1, <2>4 DEF RequestTicket, TypeOK, database, memory, history
<1> QED
  BY <1>1, <1>2, <1>3, <1>4, <1>5

\* What OnConnection finds out makes a connected client with the PID it had.
LEMMA IdentifiedTyped ==
  ASSUME TypeOK, NEW before \in Client, NEW pid \in AnyPID, NEW identified \in Identified(before, pid)
  PROVE  identified \in Client /\ identified.stage = "connected" /\ identified.pid = before.pid
<1> DEFINE As(name, code, machine) ==
      [before EXCEPT !.stage = "connected", !.name = name, !.code = code, !.machine = machine]
<1>0. \/ \E u \in WithPID(pid) : identified = [before EXCEPT !.stage = "connected", !.name = u.name]
      \/ \E m \in WithMachineID(pid) : identified = As(m.code, m.code, m.id)
      \/ identified = As(NoCode, NoCode, 0)
  BY DEF Identified
<1>1. CASE \E u \in users : identified = [before EXCEPT !.stage = "connected", !.name = u.name]
  <2>1. \A u \in users : u.name \in Names
    BY DEF TypeOK, User
  <2> QED
    BY <1>1, <2>1 DEF Client
<1>2. CASE \E m \in machines : identified = As(m.code, m.code, m.id)
  <2>1. \A m \in machines : m.code \in Codes /\ m.id \in MachineIDs
    BY DEF TypeOK, Machine
  <2> QED
    BY <1>2, <2>1 DEF Client
<1>3. CASE identified = As(NoCode, NoCode, 0)
  <2>1. NoCode \in Codes
    BY DEF Codes
  <2> QED
    BY <1>3, <2>1 DEF Client
<1> QED
  BY <1>0, <1>1, <1>2, <1>3 DEF WithPID, WithMachineID

\* Who can register is numbered.
LEMMA RegistrantsTyped ==
  ASSUME TypeOK, NEW c \in Consoles
  PROVE  Registrants(c) \subseteq AnyPID
  BY DEF TypeOK, Registrants, WithCode, User, Machine, AnyPID

\* OnConnection in the words of the proofs: who the PID belongs to is found out, and
\* the ticket's owner is taken over if it is the ticket's PID.
LEMMA ConnectionClient ==
  ASSUME TypeOK, NEW c \in Consoles, NEW pid \in AnyPID, OnConnection(c, pid)
  PROVE  \E before \in {NewClient, client[c]} :
           /\ before \in Client
           /\ \E identified \in Identified(before, pid) :
                /\ identified \in Client
                /\ identified.stage = "connected" /\ identified.pid = before.pid
                /\ client' = [client EXCEPT ![c] =
                     [identified EXCEPT !.who = IF pid = ticket[c].pid THEN ticket[c].who ELSE NoCode]]
                /\ client'[c] \in Client
                /\ client'[c].stage = "connected" /\ client'[c].pid = before.pid
                /\ client'[c].name = identified.name
                /\ client'[c].who = IF pid = ticket[c].pid THEN ticket[c].who ELSE NoCode
<1>1. NewClient \in Client /\ client[c] \in Client /\ client \in [Consoles -> Client]
  BY NamesOfPlayers DEF TypeOK, NewClient, Client, Someone, Codes, AnyPID
<1> DEFINE who == IF pid = ticket[c].pid THEN ticket[c].who ELSE NoCode
<1>2. who \in Someone
  BY DEF TypeOK, AuthClient, Someone
<1>3. PICK before \in {NewClient, client[c]} :
        \E identified \in Identified(before, pid) :
          client' = [client EXCEPT ![c] = [identified EXCEPT !.who = who]]
  BY DEF OnConnection
<1>4. PICK identified \in Identified(before, pid) :
        client' = [client EXCEPT ![c] = [identified EXCEPT !.who = who]]
  BY <1>3
<1> HIDE DEF who
<1>5. before \in Client
  BY <1>1
<1>6. identified \in Client /\ identified.stage = "connected" /\ identified.pid = before.pid
  BY <1>5, IdentifiedTyped
<1>7. client'[c] = [identified EXCEPT !.who = who]
  BY <1>1, <1>4
<1>8. /\ client'[c] \in Client
      /\ client'[c].stage = identified.stage /\ client'[c].pid = identified.pid
      /\ client'[c].name = identified.name /\ client'[c].who = who
  BY <1>2, <1>6, <1>7 DEF Client
<1> QED
  BY <1>4, <1>5, <1>6, <1>8 DEF who

\* Of c's client object only the PID and the stage change.
Becomes(c, pid, stage) ==
    /\ client' \in [Consoles -> Client]
    /\ \A d \in Consoles \ {c} : client'[d] = client[d]
    /\ client'[c].pid = pid /\ client'[c].stage = stage
    /\ client'[c].name = client[c].name /\ client'[c].code = client[c].code
    /\ client'[c].who = client[c].who

\* What RegisterEx and the ways it ends do to the client object and the stack.
LEMMA RegisterClient ==
  ASSUME TypeOK, NEW c \in Consoles
  PROVE  /\ RegisterEx(c) => \E pid \in Registrants(c) :
                /\ pid \in AnyPID /\ Becomes(c, pid, client[c].stage)
                /\ stack' = [stack EXCEPT ![c] = PushPID(@, pid)]
         /\ RegisterAccepted(c) => Becomes(c, client[c].pid, "registered")
         /\ RegisterUnknownClass(c) => Becomes(c, client[c].pid, client[c].stage)
         /\ RegisterRefused(c) => Becomes(c, 0, "none")
<1>1. client \in [Consoles -> Client] /\ client[c] \in Client
  BY DEF TypeOK
<1>2. ASSUME NEW pid \in AnyPID, NEW stage \in {"none", "connected", "registered"},
             client' = [client EXCEPT ![c] = [@ EXCEPT !.pid = pid, !.stage = stage]]
      PROVE  Becomes(c, pid, stage)
  <2> DEFINE new == [client[c] EXCEPT !.pid = pid, !.stage = stage]
  <2>1. /\ new \in Client /\ new.pid = pid /\ new.stage = stage
        /\ new.name = client[c].name /\ new.code = client[c].code /\ new.who = client[c].who
    BY <1>1 DEF Client
  <2>2. client' = [client EXCEPT ![c] = new]
    BY <1>2
  <2> HIDE DEF new
  <2> QED
    BY <1>1, <2>1, <2>2 DEF Becomes
<1>3. ASSUME RegisterEx(c)
      PROVE  \E pid \in Registrants(c) :
                /\ pid \in AnyPID /\ Becomes(c, pid, client[c].stage)
                /\ stack' = [stack EXCEPT ![c] = PushPID(@, pid)]
  <2>1. PICK pid \in Registrants(c) :
          /\ client' = [client EXCEPT ![c] = [client[c] EXCEPT !.pid = pid]]
          /\ stack' = [stack EXCEPT ![c] = PushPID(@, pid)]
    BY <1>3 DEF RegisterEx
  <2>2. pid \in AnyPID
    BY <2>1, RegistrantsTyped
  <2>3. client[c].stage \in {"none", "connected", "registered"}
    BY <1>1 DEF Client
  <2>4. [client[c] EXCEPT !.pid = pid] = [client[c] EXCEPT !.pid = pid, !.stage = client[c].stage]
    BY <1>1 DEF Client
  <2> QED
    BY <1>2, <2>1, <2>2, <2>3, <2>4
<1>4. RegisterAccepted(c) => Becomes(c, client[c].pid, "registered")
  <2>1. [client[c] EXCEPT !.stage = "registered"] = [client[c] EXCEPT !.pid = client[c].pid, !.stage = "registered"]
    BY <1>1 DEF Client
  <2>2. client[c].pid \in AnyPID
    BY <1>1 DEF Client
  <2> QED
    BY <1>2, <2>1, <2>2 DEF RegisterAccepted
<1>5. RegisterUnknownClass(c) => Becomes(c, client[c].pid, client[c].stage)
  BY <1>1 DEF RegisterUnknownClass, Becomes
<1>6. RegisterRefused(c) => Becomes(c, 0, "none")
  BY <1>2 DEF RegisterRefused, AnyPID
<1> QED
  BY <1>3, <1>4, <1>5, <1>6

LEMMA SecureTyped ==
  ASSUME TypeOK, NEW c \in Consoles, NEW name \in Names,
         \/ \E pid \in AnyPID : OnConnection(c, pid)
         \/ RegisterEx(c) \/ RegisterEnds(c)
         \/ LookupKnown(c, name) \/ LookupNew(c, name)
         \/ \E pid \in PIDs : DeleteFind(c, pid)
  PROVE  TypeOK'
<1> USE DEF database, memory, history
<1>1. CASE \E pid \in AnyPID : OnConnection(c, pid)
  <2>1. PICK pid \in AnyPID : OnConnection(c, pid)
    BY <1>1
  <2>2. NoTicket \in AuthClient
    BY DEF NoTicket, AuthClient, Someone, AnyPID
  <2>3. client' \in [Consoles -> Client]
    BY <2>1, ConnectionClient DEF TypeOK
  <2>4. ticket' \in [Consoles -> AuthClient]
    BY <2>1, <2>2 DEF OnConnection, TypeOK
  <2> QED
    BY <2>1, <2>3, <2>4 DEF OnConnection, TypeOK
<1>2. CASE RegisterEx(c)
  <2>1. [op |-> "register"] \in CallRecords
    BY DEF CallRecords
  <2>2. call' \in [Consoles -> CallRecords]
    BY <1>2, <2>1, CallsTyped DEF RegisterEx
  <2>3. PICK pid \in Registrants(c) :
          /\ pid \in AnyPID /\ Becomes(c, pid, client[c].stage)
          /\ stack' = [stack EXCEPT ![c] = PushPID(@, pid)]
    BY <1>2, RegisterClient
  <2>4. /\ stack' \in [Consoles -> Seq(AnyPID)]
        /\ \A d \in Consoles : Len(stack'[d]) <= MaxStack
    BY <2>3, PushedTyped
  <2> QED
    BY <1>2, <2>2, <2>3, <2>4 DEF RegisterEx, Becomes, TypeOK
<1>3. CASE RegisterEnds(c)
  <2>1. call' \in [Consoles -> CallRecords]
    BY <1>3, IdleTyped, CallsTyped DEF RegisterEnds, RegisterAccepted, RegisterUnknownClass, RegisterRefused, Return
  <2>2. client' \in [Consoles -> Client]
    BY <1>3, RegisterClient DEF RegisterEnds, Becomes
  <2> QED
    BY <1>3, <2>1, <2>2 DEF RegisterEnds, RegisterAccepted, RegisterUnknownClass, RegisterRefused, TypeOK
<1>5. CASE LookupKnown(c, name)
  <2>1. \A u \in Matching(name) : u.pid \in AnyPID
    BY DEF Matching, TypeOK, User, AnyPID
  <2> QED
    BY <1>5, <2>1, SwitchedTyped DEF LookupKnown, TypeOK
<1>6. CASE LookupNew(c, name)
  <2>1. [op |-> "next PID", handler |-> "lookup", name |-> name] \in CallRecords
    BY DEF CallRecords
  <2>2. call' \in [Consoles -> CallRecords]
    BY <1>6, <2>1, CallsTyped DEF LookupNew, NotFound
  <2> QED
    BY <1>6, <2>2 DEF LookupNew, TypeOK
<1>7. CASE \E pid \in PIDs : DeleteFind(c, pid)
  <2>1. PICK pid \in PIDs : DeleteFind(c, pid)
    BY <1>7
  <2>2. [op |-> "delete", pid |-> pid] \in CallRecords
    BY DEF CallRecords
  <2>3. call' \in [Consoles -> CallRecords]
    BY <2>1, <2>2, CallsTyped DEF DeleteFind
  <2> QED
    BY <2>1, <2>3 DEF DeleteFind, TypeOK
<1> QED
  BY <1>1, <1>2, <1>3, <1>5, <1>6, <1>7

LEMMA ProcessTyped ==
  ASSUME TypeOK, CleanupFind \/ CleanupDelete \/ Restart
  PROVE  TypeOK'
<1> USE DEF database, memory, history
<1>1. CASE CleanupFind
  BY <1>1 DEF CleanupFind, Matching, TypeOK, User
<1>2. CASE CleanupDelete
  BY <1>2 DEF CleanupDelete, TypeOK
<1>3. CASE Restart
  <2>1. NoTicket \in AuthClient
    BY DEF NoTicket, AuthClient, Someone, AnyPID
  <2>2. NewClient \in Client
    BY NamesOfPlayers DEF NewClient, Client, Someone, Codes, AnyPID
  <2>3. << >> \in Seq(AnyPID) /\ Len(<< >>) = 0
    OBVIOUS
  <2>4. restarts' \in 0 .. MaxRestarts
    BY <1>3, Bounds DEF Restart, TypeOK
  <2> QED
    BY <1>3, <2>1, <2>2, <2>3, <2>4, IdleTyped, Bounds DEF Restart, TypeOK
<1> QED
  BY <1>1, <1>2, <1>3

TypeInv == TypeOK /\ MachineCalls

\* A machine's ID is asked for, and the machine stored, for Wiis only.
LEMMA MachineCallsKept ==
  ASSUME TypeInv, Next
  PROVE  MachineCalls'
<1> SUFFICES ASSUME NEW c \in Consoles, call'[c].op \in {"next machine ID", "insert machine"}
             PROVE  c \in Wiis
  BY DEF MachineCalls
<1>1. call \in [Consoles -> CallRecords]
  BY DEF TypeInv, TypeOK
<1>2. CASE call'[c] = call[c]
  BY <1>2 DEF TypeInv, MachineCalls
<1>3. CASE call'[c] # call[c]
  <2>1. PICK d \in Consoles :
          \/ Proceed(d)
          \/ \E name \in Names : LoginNew(d, name) \/ LookupNew(d, name)
          \/ LoginNewMachine(d)
          \/ \E pid \in PIDs : DeleteFind(d, pid)
          \/ RegisterEx(d) \/ RegisterEnds(d)
          \/ Restart
    BY <1>3, ConsoleKinds
    DEF Next, ConsoleNext, LoginKnown, LoginMachine, RequestTicket, OnConnection, LookupKnown,
        CleanupFind, CleanupDelete, memory
  <2>2. ~Restart
    BY IdleTyped DEF Restart
  <2>3. \E next : Continue(d, next)
    <3>1. CASE Proceed(d)
      BY <3>1
      DEF Proceed, GetNextPID, InsertUser, FindCreated, GetNextMachineID, InsertMachine, DeleteOne,
          Return
    <3>2. CASE \E name \in Names : LoginNew(d, name) \/ LookupNew(d, name)
      BY <3>2 DEF LoginNew, LookupNew, NotFound
    <3>3. CASE LoginNewMachine(d)
      BY <3>3 DEF LoginNewMachine
    <3>4. CASE \E pid \in PIDs : DeleteFind(d, pid)
      BY <3>4 DEF DeleteFind
    <3>5. CASE RegisterEx(d) \/ RegisterEnds(d)
      BY <3>5 DEF RegisterEx, RegisterEnds, RegisterAccepted, RegisterUnknownClass, RegisterRefused, Return
    <3> QED
      BY <2>1, <2>2, <3>1, <3>2, <3>3, <3>4, <3>5
  <2>5. d = c
    BY <1>1, <1>3, <2>3 DEF Continue
  <2>4. LoginNewMachine(c) \/ GetNextMachineID(c)
    <3>1. \A next : Continue(c, next) => call'[c] = next
      BY <1>1 DEF Continue
    <3>2. CASE Proceed(c)
      <4>1. CASE GetNextPID(c)
        <5>1. call'[c] = [op |-> "insert", handler |-> call[c].handler, name |-> call[c].name, pid |-> lastPID']
          BY <3>1, <4>1 DEF GetNextPID
        <5> QED
          BY <5>1
      <4>2. CASE InsertUser(c)
        <5>1. call'[c] = [op |-> "find", handler |-> call[c].handler, name |-> call[c].name]
          BY <3>1, <4>2 DEF InsertUser
        <5> QED
          BY <5>1
      <4>3. CASE FindCreated(c) \/ InsertMachine(c) \/ DeleteOne(c)
        <5>1. call'[c] = Idle
          BY <3>1, <4>3 DEF FindCreated, InsertMachine, DeleteOne, Return
        <5> QED
          BY <5>1, IdleTyped
      <4> QED
        BY <3>2, <4>1, <4>2, <4>3 DEF Proceed
    <3>3. CASE \E name \in Names : LoginNew(c, name) \/ LookupNew(c, name)
      <4>1. PICK h \in {"login", "lookup"}, n \in Names : NotFound(c, h, n)
        BY <3>3 DEF LoginNew, LookupNew
      <4>2. Continue(c, [op |-> "next PID", handler |-> h, name |-> n])
        BY <4>1 DEF NotFound
      <4>3. [op |-> "next PID", handler |-> h, name |-> n].op = "next PID"
        OBVIOUS
      <4>4. call'[c].op = "next PID"
        BY <3>1, <4>2, <4>3
      <4> QED
        BY <4>4
    <3>4. CASE \E pid \in PIDs : DeleteFind(c, pid)
      <4>1. \E pid : call'[c] = [op |-> "delete", pid |-> pid]
        BY <3>1, <3>4 DEF DeleteFind
      <4> QED
        BY <4>1
    <3>5. CASE RegisterEx(c) \/ RegisterEnds(c)
      <4>1. call'[c] = [op |-> "register"] \/ call'[c] = Idle
        BY <3>1, <3>5 DEF RegisterEx, RegisterEnds, RegisterAccepted, RegisterUnknownClass, RegisterRefused, Return
      <4>2. [op |-> "register"].op = "register"
        OBVIOUS
      <4>3. call'[c].op \in {"register", "idle"}
        BY <4>1, <4>2, IdleTyped
      <4> QED
        BY <4>3
    <3> QED
      BY <2>1, <2>2, <2>5, <3>2, <3>3, <3>4, <3>5
  <2> QED
    BY <2>4 DEF LoginNewMachine, GetNextMachineID, TypeInv, MachineCalls
<1> QED
  BY <1>2, <1>3

LEMMA TypeStep == TypeInv /\ [Next]_vars => TypeInv'
<1> SUFFICES ASSUME TypeInv, [Next]_vars PROVE TypeInv'
  OBVIOUS
<1>1. CASE UNCHANGED vars
  BY <1>1 DEF vars, database, memory, history, TypeInv, TypeOK, MachineCalls
<1>2. CASE Next
  <2>1. TypeOK'
    BY <1>2, NamesOfPlayers, ConsoleKinds, ProceedTyped, AuthenticationTyped, SecureTyped, ProcessTyped
    DEF Next, ConsoleNext, TypeInv
  <2> QED
    BY <1>2, <2>1, MachineCallsKept DEF TypeInv
<1> QED
  BY <1>1, <1>2

\* Every reachable state is typed: the PIDs pushed, the tickets, and what each
\* handler has in hand.
THEOREM TypeCorrect == Spec => []TypeOK
<1>1. Init => TypeInv
  BY InitTyped, IdleTyped DEF TypeInv, MachineCalls, Init
<1>2. TypeInv => TypeOK
  BY DEF TypeInv
<1> QED
  BY <1>1, <1>2, TypeStep, PTL DEF Spec
------------------------------------------------------------------------------
(* The client store: whoever is registered has their PID on the stack, and *)
(* whoever was refused has none, with no call under way that would set it. *)
(* A registration under way has pushed the PID it will register.           *)

LoggingIn(c) == call[c].op \in {"next PID", "insert", "find"} => call[c].handler = "login"

StoredOrOut(c) ==
    /\ client[c].stage = "registered" /\ client[c].pid # 0 => client[c].pid \in Range(stack[c])
    /\ c \in refused =>
        client[c].pid = 0 /\ client[c].stage # "registered" /\ LoggingIn(c)
    /\ call[c].op = "register" => client[c].pid \in Range(stack[c]) /\ c \notin refused

StoreInv == \A c \in Consoles : StoredOrOut(c)

\* A console's calls change nothing of another console's.
LEMMA StepsAreLocal ==
  ASSUME TypeInv, NEW c \in Consoles, ConsoleNext(c), NEW d \in Consoles, c # d
  PROVE  /\ client'[d] = client[d] /\ stack'[d] = stack[d] /\ call'[d] = call[d]
         /\ d \in refused' => d \in refused
<1> USE DEF database, memory, history, Continue, Return
<1>0. /\ client \in [Consoles -> Client] /\ stack \in [Consoles -> Seq(AnyPID)]
      /\ call \in [Consoles -> CallRecords]
  BY DEF TypeInv, TypeOK
<1>1. CASE Proceed(c)
  BY <1>0, <1>1
  DEF Proceed, GetNextPID, InsertUser, FindCreated, GetNextMachineID, InsertMachine, DeleteOne,
      Switched
<1>2. CASE \E name \in Typed[c] : LoginKnown(c, name) \/ LoginNew(c, name)
  BY <1>0, <1>2 DEF LoginKnown, LoginNew, NotFound
<1>3. CASE LoginMachine(c) \/ LoginNewMachine(c)
  BY <1>0, <1>3 DEF LoginMachine, LoginNewMachine
<1>4. CASE \E pid \in AnyPID : RequestTicket(c, pid)
  BY <1>4 DEF RequestTicket
<1>5. CASE \E pid \in AnyPID : OnConnection(c, pid)
  BY <1>0, <1>5 DEF OnConnection
<1>6. CASE RegisterEx(c) \/ RegisterEnds(c)
  BY <1>0, <1>6 DEF RegisterEx, RegisterEnds, RegisterAccepted, RegisterUnknownClass, RegisterRefused
<1>7. CASE \E name \in Typed[c] : LookupKnown(c, name) \/ LookupNew(c, name)
  BY <1>0, <1>7 DEF LookupKnown, LookupNew, NotFound, Switched
<1>8. CASE \E pid \in PIDs : DeleteFind(c, pid)
  BY <1>0, <1>8 DEF DeleteFind
<1> QED
  BY <1>1, <1>2, <1>3, <1>4, <1>5, <1>6, <1>7, <1>8 DEF ConsoleNext

\* What a handler does after its first call of the database.
LEMMA ProceedStored ==
  ASSUME TypeInv, NEW c \in Consoles, StoredOrOut(c), Proceed(c)
  PROVE  StoredOrOut(c)'
<1>0. /\ client \in [Consoles -> Client] /\ stack \in [Consoles -> Seq(AnyPID)]
      /\ call \in [Consoles -> CallRecords]
  BY DEF TypeInv, TypeOK
<1>1. \A next : Continue(c, next) => call'[c] = next
  BY <1>0 DEF Continue
<1>2. CASE GetNextPID(c)
  <2>1. call'[c] = [op |-> "insert", handler |-> call[c].handler, name |-> call[c].name, pid |-> lastPID']
    BY <1>1, <1>2 DEF GetNextPID
  <2>2. call'[c].handler = call[c].handler /\ call'[c].op = "insert"
    BY <2>1
  <2>3. call[c].op = "next PID" /\ UNCHANGED <<client, stack, refused>>
    BY <1>2 DEF GetNextPID, history
  <2> QED
    BY <2>2, <2>3 DEF StoredOrOut, LoggingIn
<1>3. CASE InsertUser(c)
  <2>1. call'[c] = [op |-> "find", handler |-> call[c].handler, name |-> call[c].name]
    BY <1>1, <1>3 DEF InsertUser
  <2>2. call'[c].handler = call[c].handler /\ call'[c].op = "find"
    BY <2>1
  <2>3. call[c].op = "insert" /\ UNCHANGED <<stack, refused>>
    BY <1>3 DEF InsertUser
  <2>4. \/ client'[c] = client[c]
        \/ client'[c] = [client[c] EXCEPT !.pid = 0]
    BY <1>0, <1>3 DEF InsertUser
  <2>5. client[c] \in Client
    BY <1>0
  <2>6. client'[c].stage = client[c].stage /\ client'[c].pid \in {0, client[c].pid}
    BY <2>4, <2>5 DEF Client
  <2> QED
    BY <2>2, <2>3, <2>6 DEF StoredOrOut, LoggingIn
<1>4. CASE FindCreated(c)
  <2>1. call'[c] = Idle
    BY <1>1, <1>4 DEF FindCreated, Return
  <2>2. LoggingIn(c)' /\ call'[c].op # "register"
    BY <2>1, IdleTyped DEF LoggingIn
  <2>3. call[c].op = "find" /\ UNCHANGED refused
    BY <1>4 DEF FindCreated, history
  <2>4. CASE UNCHANGED <<client, stack>>
    BY <2>2, <2>3, <2>4 DEF StoredOrOut
  <2>5. CASE \E user \in Matching(call[c].name) :
               call[c].handler = "lookup" /\ Switched(c, call[c].name, user.pid)
    <3>1. PICK user \in Matching(call[c].name) :
            call[c].handler = "lookup" /\ Switched(c, call[c].name, user.pid)
      BY <2>5
    <3>2. c \notin refused
      BY <2>3, <3>1 DEF StoredOrOut, LoggingIn
    <3>3. user.pid \in AnyPID /\ call[c].name \in Names
      BY <2>3, CallRecordKinds DEF TypeInv, TypeOK, Matching, User, AnyPID
    <3>4. user.pid \in Range(stack'[c])
      BY <3>1, <3>3, SwitchedTyped DEF TypeInv
    <3>5. client'[c] = [client[c] EXCEPT !.name = call[c].name, !.pid = user.pid,
                                        !.who = Player[call[c].name]]
      BY <1>0, <3>1 DEF Switched
    <3>6. client'[c].pid = user.pid
      BY <1>0, <3>5 DEF Client
    <3> QED
      BY <2>2, <2>3, <3>2, <3>4, <3>6 DEF StoredOrOut
  <2> QED
    BY <1>4, <2>4, <2>5 DEF FindCreated
<1>5. CASE GetNextMachineID(c)
  <2>1. call'[c] = [op |-> "insert machine", id |-> MaxPIDs + lastMachineID']
    BY <1>1, <1>5 DEF GetNextMachineID
  <2>2. [op |-> "insert machine", id |-> MaxPIDs + lastMachineID'].op = "insert machine"
    OBVIOUS
  <2>3. call'[c].op = "insert machine"
    BY <2>1, <2>2
  <2> QED
    BY <1>5, <2>3 DEF GetNextMachineID, StoredOrOut, LoggingIn, history
<1>6. CASE InsertMachine(c) \/ DeleteOne(c)
  <2>1. call'[c] = Idle
    BY <1>1, <1>6 DEF InsertMachine, DeleteOne, Return
  <2> QED
    BY <1>6, <2>1, IdleTyped DEF InsertMachine, DeleteOne, StoredOrOut, LoggingIn, history
<1> QED
  BY <1>2, <1>3, <1>4, <1>5, <1>6 DEF Proceed

\* The calls that a handler begins with.
LEMMA BeginStored ==
  ASSUME TypeInv, NEW c \in Consoles, StoredOrOut(c), NEW name \in Names,
         \/ LoginKnown(c, name) \/ LoginNew(c, name) \/ LoginMachine(c) \/ LoginNewMachine(c)
         \/ \E pid \in AnyPID : RequestTicket(c, pid)
         \/ LookupNew(c, name)
         \/ \E pid \in PIDs : DeleteFind(c, pid)
  PROVE  StoredOrOut(c)'
<1> USE DEF database, memory, history
<1>0. call \in [Consoles -> CallRecords]
  BY DEF TypeInv, TypeOK
<1>1. \A next : Continue(c, next) => call'[c] = next
  BY <1>0 DEF Continue
<1>2. CASE \/ LoginKnown(c, name) \/ LoginMachine(c)
           \/ \E pid \in AnyPID : RequestTicket(c, pid)
  BY <1>2 DEF LoginKnown, LoginMachine, RequestTicket, StoredOrOut, LoggingIn
<1>3. CASE LoginNew(c, name)
  <2>1. Continue(c, [op |-> "next PID", handler |-> "login", name |-> name])
    BY <1>3 DEF LoginNew, NotFound
  <2>2. /\ [op |-> "next PID", handler |-> "login", name |-> name].handler = "login"
        /\ [op |-> "next PID", handler |-> "login", name |-> name].op = "next PID"
    OBVIOUS
  <2>3. call'[c].handler = "login" /\ call'[c].op = "next PID"
    BY <1>1, <2>1, <2>2
  <2> QED
    BY <1>3, <2>3 DEF LoginNew, StoredOrOut, LoggingIn
<1>4. CASE LookupNew(c, name)
  <2>1. Continue(c, [op |-> "next PID", handler |-> "lookup", name |-> name])
    BY <1>4 DEF LookupNew, NotFound
  <2>2. [op |-> "next PID", handler |-> "lookup", name |-> name].op = "next PID"
    OBVIOUS
  <2>3. call'[c].op = "next PID"
    BY <1>1, <2>1, <2>2
  <2> QED
    BY <1>4, <2>3 DEF LookupNew, MayCall, StoredOrOut
<1>5. CASE LoginNewMachine(c)
  <2>1. Continue(c, [op |-> "next machine ID"])
    BY <1>5 DEF LoginNewMachine
  <2>2. [op |-> "next machine ID"].op = "next machine ID"
    OBVIOUS
  <2>3. call'[c].op = "next machine ID"
    BY <1>1, <2>1, <2>2
  <2> QED
    BY <1>5, <2>3 DEF LoginNewMachine, StoredOrOut, LoggingIn
<1>6. CASE \E pid \in PIDs : DeleteFind(c, pid)
  <2>1. PICK pid \in PIDs : Continue(c, [op |-> "delete", pid |-> pid])
    BY <1>6 DEF DeleteFind
  <2>2. [op |-> "delete", pid |-> pid].op = "delete"
    OBVIOUS
  <2>3. call'[c].op = "delete"
    BY <1>1, <2>1, <2>2
  <2> QED
    BY <1>6, <2>3 DEF DeleteFind, MayCall, StoredOrOut
<1> QED
  BY <1>2, <1>3, <1>4, <1>5, <1>6

\* The calls that replace the client object, its PID or its place in the store.
LEMMA ConnectedStored ==
  ASSUME TypeInv, NEW c \in Consoles, StoredOrOut(c), NEW name \in Names,
         \/ \E pid \in AnyPID : OnConnection(c, pid)
         \/ RegisterEx(c) \/ RegisterEnds(c)
         \/ LookupKnown(c, name)
  PROVE  StoredOrOut(c)'
<1> USE DEF database, memory, history
<1>0. /\ client \in [Consoles -> Client] /\ client[c] \in Client
      /\ call \in [Consoles -> CallRecords]
  BY DEF TypeInv, TypeOK
<1>1. CASE \E pid \in AnyPID : OnConnection(c, pid)
  <2>1. PICK pid \in AnyPID : OnConnection(c, pid)
    BY <1>1
  <2>2. client'[c].stage = "connected" /\ client'[c].pid \in {0, client[c].pid}
    BY <2>1, ConnectionClient DEF TypeInv, NewClient
  <2>3. call[c].op = "idle" /\ UNCHANGED <<call, stack, refused>>
    BY <2>1, IdleTyped DEF OnConnection
  <2> QED
    BY <2>2, <2>3 DEF StoredOrOut, LoggingIn
<1>2. CASE RegisterEx(c)
  <2>1. PICK pid \in Registrants(c) :
          /\ pid \in AnyPID /\ Becomes(c, pid, client[c].stage)
          /\ stack' = [stack EXCEPT ![c] = PushPID(@, pid)]
    BY <1>2, RegisterClient DEF TypeInv
  <2>2. pid \in Range(stack'[c])
    BY <2>1, PushedTyped DEF TypeInv
  <2>3. c \notin refused'
    BY <1>2 DEF RegisterEx
  <2> QED
    BY <2>1, <2>2, <2>3 DEF StoredOrOut, Becomes
<1>3. CASE RegisterEnds(c)
  <2>1. call[c].op = "register" /\ call'[c].op = "idle" /\ UNCHANGED stack
    BY <1>0, <1>3, IdleTyped
    DEF RegisterEnds, RegisterAccepted, RegisterUnknownClass, RegisterRefused, Return, Continue
  <2>2. client[c].pid \in Range(stack[c]) /\ c \notin refused
    BY <2>1 DEF StoredOrOut
  <2>3. LoggingIn(c)'
    BY <2>1 DEF LoggingIn
  <2>4. CASE RegisterAccepted(c) \/ RegisterUnknownClass(c)
    <3>1. client'[c].pid = client[c].pid /\ c \notin refused'
      BY <2>2, <2>4, RegisterClient DEF TypeInv, Becomes, RegisterAccepted, RegisterUnknownClass
    <3> QED
      BY <2>1, <2>2, <3>1 DEF StoredOrOut
  <2>5. CASE RegisterRefused(c)
    <3>1. client'[c].pid = 0 /\ client'[c].stage = "none"
      BY <2>5, RegisterClient DEF TypeInv, Becomes
    <3> QED
      BY <2>1, <2>3, <3>1 DEF StoredOrOut
  <2> QED
    BY <1>3, <2>4, <2>5 DEF RegisterEnds
<1>5. CASE LookupKnown(c, name)
  <2>1. PICK user \in Matching(name) : Switched(c, name, user.pid)
    BY <1>5 DEF LookupKnown
  <2>2. c \notin refused /\ UNCHANGED refused
    BY <1>5 DEF LookupKnown, MayCall, StoredOrOut
  <2>3. user.pid \in AnyPID
    BY DEF TypeInv, TypeOK, Matching, User, AnyPID
  <2>4. user.pid \in Range(stack'[c])
    BY <2>1, <2>3, SwitchedTyped DEF TypeInv
  <2>5. client'[c] = [client[c] EXCEPT !.name = name, !.pid = user.pid, !.who = Player[name]]
    BY <1>0, <2>1 DEF Switched
  <2>6. client'[c].pid = user.pid
    BY <1>0, <2>5 DEF Client
  <2>7. call'[c].op = "idle"
    BY <1>5, IdleTyped DEF LookupKnown, MayCall
  <2> QED
    BY <2>2, <2>4, <2>6, <2>7 DEF StoredOrOut
<1> QED
  BY <1>1, <1>2, <1>3, <1>5

LEMMA StoreStep == TypeInv /\ StoreInv /\ [Next]_vars => StoreInv'
<1> SUFFICES ASSUME TypeInv, StoreInv, [Next]_vars, NEW d \in Consoles
             PROVE  StoredOrOut(d)'
  BY DEF StoreInv
<1>0. StoredOrOut(d)
  BY DEF StoreInv
<1>1. ASSUME client'[d] = client[d], stack'[d] = stack[d], call'[d] = call[d],
             d \in refused' => d \in refused
      PROVE  StoredOrOut(d)'
  BY <1>0, <1>1 DEF StoredOrOut, LoggingIn
<1>2. CASE UNCHANGED vars \/ CleanupFind \/ CleanupDelete
  BY <1>1, <1>2 DEF vars, CleanupFind, CleanupDelete, database, memory, history
<1>3. CASE Restart
  <2>1. client'[d].stage = "none" /\ client'[d].pid = 0
    BY <1>3 DEF Restart, NewClient
  <2>2. LoggingIn(d)' /\ call'[d].op # "register"
    BY <1>3, IdleTyped DEF Restart, LoggingIn
  <2> QED
    BY <2>1, <2>2 DEF StoredOrOut
<1>4. ASSUME NEW c \in Consoles, ConsoleNext(c)
      PROVE  StoredOrOut(d)'
  <2>1. CASE c # d
    BY <1>1, <1>4, <2>1, StepsAreLocal
  <2>2. CASE c = d
    BY <1>0, <1>4, <2>2, NamesOfPlayers, ConsoleKinds, ProceedStored, BeginStored, ConnectedStored
    DEF ConsoleNext
  <2> QED
    BY <2>1, <2>2
<1> QED
  BY <1>2, <1>3, <1>4 DEF Next

LEMMA StoreInvariant == Spec => [](TypeInv /\ StoreInv)
<1>1. Init => TypeInv /\ StoreInv
  <2> SUFFICES ASSUME Init PROVE TypeInv /\ StoreInv
    OBVIOUS
  <2>1. TypeInv
    BY InitTyped, IdleTyped DEF TypeInv, MachineCalls, Init
  <2>2. \A c \in Consoles : client[c].stage = "none" /\ c \notin refused /\ call[c].op = "idle"
    BY IdleTyped DEF Init, NewClient
  <2> QED
    BY <2>1, <2>2 DEF StoreInv, StoredOrOut
<1> QED
  BY <1>1, TypeStep, StoreStep, PTL DEF Spec

\* Eviction from a full stack never takes the PID a console acts under (PushPID,
\* ValidateClientPID).
THEOREM CurrentPIDStaysValid == Spec => []CurrentPIDIsValid
<1>1. TypeInv /\ StoreInv => CurrentPIDIsValid
  BY DEF TypeInv, TypeOK, StoreInv, StoredOrOut, CurrentPIDIsValid, IsValid
<1> QED
  BY <1>1, StoreInvariant, PTL

\* A console whose ticket was refused passes no validation from its kick until it asks
\* to be registered again, whatever it does meanwhile and whatever its stack still holds
\* (registerex.go:138).
THEOREM RefusedStayOut == Spec => []RefusedStaysOut
<1>1. TypeInv /\ StoreInv => RefusedStaysOut
  BY DEF TypeInv, TypeOK, StoreInv, StoredOrOut, RefusedStaysOut, IsValid
<1> QED
  BY <1>1, StoreInvariant, PTL
------------------------------------------------------------------------------
(* The registry of accounts.  A PID that GetNextPID gave out belongs to    *)
(* one call or one account, and while a first login is under way there is  *)
(* no account of its player and no other first login of theirs.            *)

Creating(c) == call[c].op \in {"next PID", "insert"}
Inserting(c) == call[c].op = "insert"

PIDsUnique ==
    /\ users \subseteq issued
    /\ \A u \in issued : u.pid <= lastPID
    /\ \A u, v \in issued : u.pid = v.pid => u = v

PIDsInHand ==
    \A c \in Consoles : Inserting(c) =>
        /\ call[c].pid <= lastPID
        /\ \A u \in issued : u.pid # call[c].pid
        /\ \A d \in Consoles : Inserting(d) /\ call[d].pid = call[c].pid => d = c

FirstLogins ==
    \A c \in Consoles : Creating(c) /\ Player[call[c].name] \notin Racing =>
        /\ Matching(call[c].name) = {}
        /\ \A d \in Consoles :
            Creating(d) /\ Player[call[d].name] = Player[call[c].name] => d = c

RegistryInv == PIDsUnique /\ PIDsInHand /\ FirstLogins

\* Nothing is created: at most one account is removed.
NothingCreated ==
    /\ UNCHANGED <<issued, lastPID>>
    /\ users' = users \/ \E u \in users : users' = users \ {u}
    /\ \A c \in Consoles : call'[c] = call[c] \/ ~Creating(c)'

LEMMA StepKinds ==
  ASSUME TypeInv, [Next]_vars
  PROVE  \/ \E c \in Consoles : GetNextPID(c) \/ InsertUser(c)
         \/ \E c \in Consoles, h \in {"login", "lookup"}, n \in Names :
              NotFound(c, h, n) /\ UNCHANGED <<users, issued, lastPID>>
         \/ NothingCreated
<1> USE DEF database, memory, history
<1>0. call \in [Consoles -> CallRecords]
  BY DEF TypeInv, TypeOK
<1>1. ASSUME NEW c \in Consoles, NEW next, Continue(c, next), next.op \notin {"next PID", "insert"}
      PROVE  \A d \in Consoles : call'[d] = call[d] \/ ~Creating(d)'
  BY <1>0, <1>1 DEF Continue, Creating
<1>2. ASSUME NEW c \in Consoles, Return(c)
      PROVE  \A d \in Consoles : call'[d] = call[d] \/ ~Creating(d)'
  BY <1>1, <1>2, IdleTyped DEF Return
<1>3. CASE UNCHANGED vars \/ CleanupFind
  BY <1>3 DEF vars, CleanupFind, NothingCreated
<1>4. CASE CleanupDelete
  BY <1>4 DEF CleanupDelete, WithPID, NothingCreated
<1>5. CASE Restart
  BY <1>5, IdleTyped DEF Restart, NothingCreated, Creating
<1>6. ASSUME NEW c \in Consoles, Proceed(c)
      PROVE  GetNextPID(c) \/ InsertUser(c) \/ NothingCreated
  <2>1. CASE FindCreated(c)
    BY <1>2, <2>1 DEF FindCreated, NothingCreated
  <2>2. CASE GetNextMachineID(c)
    <3>1. [op |-> "insert machine", id |-> MaxPIDs + lastMachineID'].op = "insert machine"
      OBVIOUS
    <3> QED
      BY <1>1, <2>2, <3>1 DEF GetNextMachineID, NothingCreated
  <2>3. CASE InsertMachine(c)
    BY <1>2, <2>3 DEF InsertMachine, NothingCreated
  <2>4. CASE DeleteOne(c)
    BY <1>2, <2>4 DEF DeleteOne, WithPID, NothingCreated
  <2> QED
    BY <1>6, <2>1, <2>2, <2>3, <2>4 DEF Proceed
<1>7. ASSUME NEW c \in Consoles, NEW name \in Names, LoginNew(c, name) \/ LookupNew(c, name)
      PROVE  \E h \in {"login", "lookup"} :
                NotFound(c, h, name) /\ UNCHANGED <<users, issued, lastPID>>
  BY <1>7 DEF LoginNew, LookupNew
<1>8. ASSUME NEW c \in Consoles, LoginNewMachine(c)
      PROVE  NothingCreated
  <2>1. [op |-> "next machine ID"].op = "next machine ID"
    OBVIOUS
  <2> QED
    BY <1>1, <1>8, <2>1 DEF LoginNewMachine, NothingCreated
<1>9. ASSUME NEW c \in Consoles, NEW pid \in PIDs, DeleteFind(c, pid)
      PROVE  NothingCreated
  <2>1. [op |-> "delete", pid |-> pid].op = "delete"
    OBVIOUS
  <2> QED
    BY <1>1, <1>9, <2>1 DEF DeleteFind, NothingCreated
<1>10. ASSUME NEW c \in Consoles, NEW name \in Names,
              \/ LoginKnown(c, name) \/ LoginMachine(c)
              \/ \E pid \in AnyPID : RequestTicket(c, pid) \/ OnConnection(c, pid)
              \/ LookupKnown(c, name)
      PROVE  NothingCreated
  BY <1>10 DEF LoginKnown, LoginMachine, OnConnection, RequestTicket, LookupKnown, NothingCreated
<1>11. ASSUME NEW c \in Consoles, RegisterEx(c)
       PROVE  NothingCreated
  <2>1. [op |-> "register"].op = "register"
    OBVIOUS
  <2> QED
    BY <1>1, <1>11, <2>1 DEF RegisterEx, NothingCreated
<1>12. ASSUME NEW c \in Consoles, RegisterEnds(c)
       PROVE  NothingCreated
  BY <1>2, <1>12 DEF RegisterEnds, RegisterAccepted, RegisterUnknownClass, RegisterRefused, NothingCreated
<1> QED
  BY <1>3, <1>4, <1>5, <1>6, <1>7, <1>8, <1>9, <1>10, <1>11, <1>12, NamesOfPlayers, ConsoleKinds
  DEF Next, ConsoleNext

\* What GetNextPID, InsertUser and NotFound leave in c's call.
LEMMA CreatingSteps ==
  ASSUME TypeInv, NEW c \in Consoles
  PROVE  /\ GetNextPID(c) =>
              /\ call[c].op = "next PID" /\ lastPID' = lastPID + 1
              /\ Inserting(c)' /\ call'[c].name = call[c].name /\ call'[c].pid = lastPID'
         /\ InsertUser(c) => ~Creating(c)'
         /\ \A h \in {"login", "lookup"}, n \in Names : NotFound(c, h, n) =>
              ~Inserting(c)' /\ call'[c].name = n
         /\ GetNextPID(c) \/ InsertUser(c) \/ (\E h, n : NotFound(c, h, n)) =>
              \A d \in Consoles \ {c} : call'[d] = call[d]
<1>0. call \in [Consoles -> CallRecords]
  BY DEF TypeInv, TypeOK
<1>1. ASSUME NEW next, Continue(c, next)
      PROVE  call'[c] = next /\ \A d \in Consoles \ {c} : call'[d] = call[d]
  BY <1>0, <1>1 DEF Continue
<1>2. ASSUME GetNextPID(c)
      PROVE  /\ call[c].op = "next PID" /\ lastPID' = lastPID + 1
             /\ Inserting(c)' /\ call'[c].name = call[c].name /\ call'[c].pid = lastPID'
             /\ \A d \in Consoles \ {c} : call'[d] = call[d]
  <2> DEFINE next == [op |-> "insert", handler |-> call[c].handler, name |-> call[c].name, pid |-> lastPID']
  <2>1. Continue(c, next) /\ call[c].op = "next PID" /\ lastPID' = lastPID + 1
    BY <1>2 DEF GetNextPID
  <2>2. next.op = "insert" /\ next.name = call[c].name /\ next.pid = lastPID'
    OBVIOUS
  <2> HIDE DEF next
  <2> QED
    BY <1>1, <2>1, <2>2 DEF Inserting
<1>3. ASSUME InsertUser(c)
      PROVE  ~Creating(c)' /\ \A d \in Consoles \ {c} : call'[d] = call[d]
  <2> DEFINE next == [op |-> "find", handler |-> call[c].handler, name |-> call[c].name]
  <2>1. Continue(c, next)
    BY <1>3 DEF InsertUser
  <2>2. next.op = "find"
    OBVIOUS
  <2> HIDE DEF next
  <2> QED
    BY <1>1, <2>1, <2>2 DEF Creating
<1>4. ASSUME NEW h, NEW n, NotFound(c, h, n)
      PROVE  /\ ~Inserting(c)' /\ call'[c].name = n
             /\ \A d \in Consoles \ {c} : call'[d] = call[d]
  <2> DEFINE next == [op |-> "next PID", handler |-> h, name |-> n]
  <2>1. Continue(c, next)
    BY <1>4 DEF NotFound
  <2>2. next.op = "next PID" /\ next.name = n
    OBVIOUS
  <2> HIDE DEF next
  <2> QED
    BY <1>1, <2>1, <2>2 DEF Inserting
<1> QED
  BY <1>2, <1>3, <1>4

\* The account InsertUser stores.
NewUser(c) ==
    [name |-> call[c].name, pid |-> call[c].pid,
     machine |-> IF call[c].handler = "lookup" THEN client[c].machine ELSE 0]

LEMMA InsertStores ==
  ASSUME TypeInv, NEW c \in Consoles, InsertUser(c)
  PROVE  /\ Inserting(c) /\ Creating(c) /\ UNCHANGED lastPID
         /\ users' = users \cup {NewUser(c)} /\ issued' = issued \cup {NewUser(c)}
         /\ NewUser(c) \in User
         /\ NewUser(c).name = call[c].name /\ NewUser(c).pid = call[c].pid
<1>1. call[c].op = "insert" /\ call[c] \in CallRecords /\ client[c] \in Client
  BY DEF InsertUser, TypeInv, TypeOK
<1>2. call[c].name \in Names /\ call[c].pid \in PIDs
  BY <1>1, CallRecordKinds
<1>3. client[c].machine \in {0} \cup MachineIDs
  BY <1>1 DEF Client
<1>4. NewUser(c) \in User /\ NewUser(c).name = call[c].name /\ NewUser(c).pid = call[c].pid
  BY <1>2, <1>3 DEF NewUser, User
<1>5. UNCHANGED lastPID /\ users' = users \cup {NewUser(c)} /\ issued' = issued \cup {NewUser(c)}
  BY DEF InsertUser, NewUser
<1> QED
  BY <1>1, <1>4, <1>5 DEF Inserting, Creating

LEMMA RegistryStep == TypeInv /\ RegistryInv /\ [Next]_vars => RegistryInv'
<1> SUFFICES ASSUME TypeInv, RegistryInv, [Next]_vars PROVE RegistryInv'
  OBVIOUS
<1>0. /\ lastPID \in Nat
      /\ \A u \in issued : u.pid \in Nat
      /\ \A c \in Consoles : Inserting(c) => Creating(c) /\ call[c].pid \in Nat
  <2>1. \A c \in Consoles : Inserting(c) => call[c].pid \in PIDs
    BY CallRecordKinds DEF TypeInv, TypeOK, Inserting
  <2>2. lastPID \in Nat
    BY Bounds DEF TypeInv, TypeOK
  <2>3. \A u \in issued : u.pid \in PIDs
    BY DEF TypeInv, TypeOK, User
  <2> QED
    <3>1. \A pid \in PIDs : pid \in Nat
      BY Bounds DEF PIDs
    <3>2. \A c \in Consoles : Inserting(c) => Creating(c)
      BY DEF Inserting, Creating
    <3> QED
      BY <2>1, <2>2, <2>3, <3>1, <3>2
<1>1. ASSUME NEW c \in Consoles, GetNextPID(c)
      PROVE  RegistryInv'
  <2>1. UNCHANGED <<users, issued>> /\ lastPID' = lastPID + 1
    BY <1>1 DEF GetNextPID, history
  <2>2. PIDsUnique'
    BY <1>0, <2>1 DEF RegistryInv, PIDsUnique
  <2>3. /\ Creating(c) /\ Inserting(c)' /\ call'[c].name = call[c].name /\ call'[c].pid = lastPID'
        /\ \A d \in Consoles \ {c} : call'[d] = call[d]
    BY <1>1, CreatingSteps DEF Creating
  <2>4. PIDsInHand'
    BY <1>0, <2>1, <2>3 DEF RegistryInv, PIDsUnique, PIDsInHand, Inserting
  <2>5. FirstLogins'
    <3>1. \A d \in Consoles : Creating(d)' => Creating(d) /\ call'[d].name = call[d].name
      BY <2>3 DEF Creating
    <3> QED
      BY <2>1, <3>1 DEF RegistryInv, FirstLogins, Matching
  <2> QED
    BY <2>2, <2>4, <2>5 DEF RegistryInv
<1>2. ASSUME NEW c \in Consoles, InsertUser(c)
      PROVE  RegistryInv'
  <2>1. ~Creating(c)' /\ \A d \in Consoles \ {c} : call'[d] = call[d]
    BY <1>2, CreatingSteps
  <2>2. PIDsUnique'
    BY <1>0, <1>2, InsertStores DEF RegistryInv, PIDsUnique, PIDsInHand
  <2>3. PIDsInHand'
    <3>1. \A d \in Consoles : Inserting(d)' =>
            d # c /\ Inserting(d) /\ call'[d] = call[d]
      BY <2>1 DEF Inserting, Creating
    <3>2. /\ Inserting(c) /\ UNCHANGED lastPID
          /\ \A u \in issued' : u \in issued \/ u.pid = call[c].pid
      BY <1>2, InsertStores
    <3> QED
      BY <3>1, <3>2 DEF RegistryInv, PIDsInHand
  <2>4. FirstLogins'
    <3>1. \A d \in Consoles : Creating(d)' =>
            d # c /\ Creating(d) /\ call'[d] = call[d]
      BY <2>1 DEF Creating
    <3>2. /\ Creating(c)
          /\ \A u \in users' : u \in users \/ u.name = call[c].name
      BY <1>2, InsertStores
    <3> QED
      BY <3>1, <3>2 DEF RegistryInv, FirstLogins, Matching
  <2> QED
    BY <2>2, <2>3, <2>4 DEF RegistryInv
<1>3. ASSUME NEW c \in Consoles, NEW h \in {"login", "lookup"}, NEW n \in Names,
             NotFound(c, h, n), UNCHANGED <<users, issued, lastPID>>
      PROVE  RegistryInv'
  <2>1. ~Inserting(c)' /\ call'[c].name = n /\ \A d \in Consoles \ {c} : call'[d] = call[d]
    BY <1>3, CreatingSteps
  <2>2. PIDsUnique'
    BY <1>3 DEF RegistryInv, PIDsUnique
  <2>3. PIDsInHand'
    BY <1>3, <2>1 DEF RegistryInv, PIDsInHand, Inserting
  <2>4. FirstLogins'
    <3>1. \A d \in Consoles \ {c} : Creating(d)' => Creating(d) /\ call'[d] = call[d]
      BY <2>1 DEF Creating
    <3>2. /\ Matching(n) = {}
          /\ \/ Player[n] \in Racing
             \/ \A d \in Consoles \ {c} : Creating(d) => Player[call[d].name] # Player[n]
      BY <1>3 DEF NotFound, MayCreate, Creating
    <3>3. UNCHANGED users
      BY <1>3
    <3> QED
      BY <2>1, <3>1, <3>2, <3>3 DEF RegistryInv, FirstLogins, Matching
  <2> QED
    BY <2>2, <2>3, <2>4 DEF RegistryInv
<1>4. ASSUME NothingCreated
      PROVE  RegistryInv'
  <2>1. \A c \in Consoles : Inserting(c)' => Creating(c)'
    BY DEF Inserting, Creating
  <2>2. PIDsUnique'
    BY <1>4 DEF RegistryInv, PIDsUnique, NothingCreated
  <2>3. PIDsInHand'
    BY <1>4, <2>1 DEF RegistryInv, PIDsInHand, NothingCreated, Inserting
  <2>4. FirstLogins'
    BY <1>4 DEF RegistryInv, FirstLogins, Matching, NothingCreated, Creating
  <2> QED
    BY <2>2, <2>3, <2>4 DEF RegistryInv
<1> QED
  BY <1>1, <1>2, <1>3, <1>4, StepKinds

\* One step of the sessions is one step of the registry, or none.
LEMMA RegistrySimulated ==
  TypeInv /\ RegistryInv /\ [Next]_vars => [registry!Next]_(registry!vars)
<1> SUFFICES ASSUME TypeInv, RegistryInv, [Next]_vars
             PROVE  [registry!Next]_(registry!vars)
  OBVIOUS
<1> DEFINE Lone(u) == Player[u.name] \notin Racing
           Entry(u) == [player |-> Player[u.name], pid |-> u.pid]
           accounts == {Entry(u) : u \in {v \in users : Lone(v)}}
           used == {u.pid : u \in {v \in issued : Lone(v)}}
<1>1. ASSUME UNCHANGED <<users, issued>>
      PROVE  UNCHANGED registry!vars
  BY <1>1 DEF registry!vars
<1>2. ASSUME NEW c \in Consoles, InsertUser(c)
      PROVE  [registry!Next]_(registry!vars)
  <2> DEFINE new == NewUser(c)
  <2>1. /\ users' = users \cup {new} /\ issued' = issued \cup {new}
        /\ new.name = call[c].name /\ new.pid = call[c].pid /\ new \in User
        /\ Inserting(c) /\ Creating(c)
    BY <1>2, InsertStores
  <2> HIDE DEF new
  <2>2. CASE Lone(new)
    <3>1. Matching(new.name) = {}
      BY <2>1, <2>2 DEF RegistryInv, FirstLogins
    <3>2. \A u \in issued : u.pid # new.pid
      BY <2>1 DEF RegistryInv, PIDsInHand
    <3>3. accounts' = accounts \cup {Entry(new)}
      BY <2>1, <2>2
    <3>4. used' = used \cup {new.pid}
      BY <2>1, <2>2
    <3>5. \A a \in accounts : a.player # Player[new.name]
      BY <3>1 DEF Matching
    <3>6. new.pid \notin used
      BY <3>2
    <3>7. PICK player \in Players \ Racing, pid \in PIDs : player = Player[new.name] /\ pid = new.pid
      BY <2>1, <2>2, NamesOfPlayers DEF User
    <3>8. registry!Register(player, pid)
      BY <3>3, <3>4, <3>5, <3>6, <3>7 DEF registry!Register
    <3> QED
      BY <3>8 DEF registry!Next
  <2>3. CASE ~Lone(new)
    <3>1. accounts' = accounts /\ used' = used
      BY <2>1, <2>3
    <3> QED
      BY <3>1 DEF registry!vars
  <2> QED
    BY <2>2, <2>3
<1>3. ASSUME NEW u \in users, users' = users \ {u}, UNCHANGED issued
      PROVE  [registry!Next]_(registry!vars)
  <2>1. used' = used
    BY <1>3
  <2>2. CASE Lone(u)
    <3>1. \A v \in users : v.pid = u.pid => v = u
      BY DEF RegistryInv, PIDsUnique
    <3>2. accounts' = accounts \ {Entry(u)}
      BY <1>3, <2>2, <3>1
    <3>3. Entry(u) \in accounts
      BY <2>2
    <3>4. registry!Remove(Entry(u))
      BY <2>1, <3>2 DEF registry!Remove
    <3> QED
      BY <3>3, <3>4 DEF registry!Next
  <2>3. CASE ~Lone(u)
    <3>1. accounts' = accounts
      BY <1>3, <2>3
    <3> QED
      BY <2>1, <3>1 DEF registry!vars
  <2> QED
    BY <2>2, <2>3
<1>4. ASSUME NEW c \in Consoles, GetNextPID(c)
      PROVE  UNCHANGED <<users, issued>>
  BY <1>4 DEF GetNextPID, history
<1> QED
  BY <1>1, <1>2, <1>3, <1>4, StepKinds DEF NothingCreated

\* Accounts, for all interleavings of logins, LookupOrCreateAccount, DeleteAccount
\* and housekeeping, are a registry: one PID per player, no PID of two players or
\* given out again, as long as a player's first logins do not overlap.
THEOREM RegistryImplemented == Spec => ImplementsRegistry
<1>1. Init => TypeInv /\ RegistryInv /\ registry!Init
  <2> SUFFICES ASSUME Init PROVE TypeInv /\ RegistryInv /\ registry!Init
    OBVIOUS
  <2>1. TypeInv
    BY InitTyped, IdleTyped DEF TypeInv, MachineCalls, Init
  <2>2. \A c \in Consoles : ~Inserting(c) /\ ~Creating(c)
    BY IdleTyped DEF Init, Inserting, Creating
  <2>3. RegistryInv
    BY <2>2 DEF RegistryInv, PIDsUnique, PIDsInHand, FirstLogins, Init
  <2>4. registry!Init
    BY DEF registry!Init, Init
  <2> QED
    BY <2>1, <2>3, <2>4
<1> QED
  BY <1>1, TypeStep, RegistryStep, RegistrySimulated, PTL DEF Spec, ImplementsRegistry, registry!Spec
------------------------------------------------------------------------------
(* From Login to RegisterEx: the PID that Login answers with belongs to    *)
(* the player or the Wii, and what OnConnection makes of it means the same *)
(* one when RegisterEx makes a PID of that again.                          *)

InsertingMachine(c) == call[c].op = "insert machine"

\* Machine IDs are drawn like PIDs, and no machine is ever removed.
MachineInv ==
    /\ \A m \in machines : m.code \in Wiis /\ m.id <= MaxPIDs + lastMachineID
    /\ \A m, n \in machines : m.id = n.id => m = n
    /\ \A c \in Consoles : InsertingMachine(c) =>
        /\ call[c].id <= MaxPIDs + lastMachineID
        /\ \A m \in machines : m.id # call[c].id
        /\ \A d \in Consoles : InsertingMachine(d) /\ call[d].id = call[c].id => d = c

\* What Login assigned to console c: the ID of its machine, or none yet; or the PID
\* of an account that the player has or had.
FromLogin(c, t, accounts, stored) ==
    \/ t = NoTicket
    \/ c \in Wiis /\ t.who = c /\ (t.pid = 0 \/ \E m \in stored : m.id = t.pid /\ m.code = c)
    \/ c \notin Wiis /\ \E u \in accounts : u.pid = t.pid /\ Player[u.name] = t.who

CreatingFor(c) ==
    call[c].op \in {"next PID", "insert", "find"} =>
        IF call[c].handler = "login" THEN c \notin Wiis ELSE client[c].stage = "registered"

\* Of a console that connected with the PID of its ticket: the username in the client
\* object is the player's, and a Wii is itself.
Means(c, object) ==
    /\ object.stage # "none" /\ object.who # NoCode /\ object.name \in Names =>
         Player[object.name] = object.who
    /\ c \in Wiis /\ object.stage = "connected" => object.who \in {NoCode, c}

\* The PID was issued to who logged in.
RegistersAs(pid, who, accounts, stored) ==
    \/ \E u \in accounts : u.pid = pid /\ Player[u.name] = who
    \/ \E m \in stored : m.id = pid /\ m.code = who

RegisteringAs(c, accounts, stored) ==
    call[c].op = "register" =>
        /\ client[c].stage = "connected"
        /\ AsTicketed(c) => RegistersAs(client[c].pid, client[c].who, accounts, stored)

IdentityOK(c) ==
    /\ FromLogin(c, auth[c], issued, machines)
    /\ FromLogin(c, ticket[c], issued, machines)
    /\ CreatingFor(c)
    /\ Means(c, client[c])
    /\ RegisteringAs(c, issued, machines)

IdentityInv == \A c \in Consoles : IdentityOK(c)

LEMMA IDsApart ==
  /\ \A id \in MachineIDs : id \notin PIDs /\ id # 0 /\ id \in Nat
  /\ 0 \notin PIDs
  BY Bounds DEF MachineIDs, PIDs

LEMMA CodesApart ==
  /\ NoCode \notin Names
  /\ NoCode \notin Wiis
  /\ \A w \in Wiis : w \notin Names
  BY SessionsAssumption

\* Steps that store no machine and draw no ID for one.
LEMMA MachineStepKinds ==
  ASSUME TypeInv, [Next]_vars
  PROVE  \/ \E c \in Consoles : GetNextMachineID(c) \/ InsertMachine(c)
         \/ /\ UNCHANGED <<machines, lastMachineID>>
            /\ \A d \in Consoles : call'[d] = call[d] \/ ~InsertingMachine(d)'
<1> USE DEF database, memory, history
<1>0. call \in [Consoles -> CallRecords]
  BY DEF TypeInv, TypeOK
<1> DEFINE Others == /\ UNCHANGED <<machines, lastMachineID>>
                     /\ \A d \in Consoles : call'[d] = call[d] \/ ~InsertingMachine(d)'
<1>1. ASSUME NEW c \in Consoles, NEW next, Continue(c, next), next.op # "insert machine",
             UNCHANGED <<machines, lastMachineID>>
      PROVE  Others
  BY <1>0, <1>1 DEF Continue, InsertingMachine
<1>2. ASSUME NEW c \in Consoles, Return(c), UNCHANGED <<machines, lastMachineID>>
      PROVE  Others
  BY <1>1, <1>2, IdleTyped DEF Return
<1>3. CASE UNCHANGED vars \/ CleanupFind \/ CleanupDelete
  BY <1>3 DEF vars, CleanupFind, CleanupDelete
<1>4. CASE Restart
  BY <1>4, IdleTyped DEF Restart, InsertingMachine
<1>5. ASSUME NEW c \in Consoles, GetNextPID(c) \/ InsertUser(c)
      PROVE  Others
  <2>1. [op |-> "insert", handler |-> call[c].handler, name |-> call[c].name, pid |-> lastPID'].op = "insert"
    OBVIOUS
  <2>2. [op |-> "find", handler |-> call[c].handler, name |-> call[c].name].op = "find"
    OBVIOUS
  <2> HIDE DEF Others
  <2>3. CASE GetNextPID(c)
    BY <1>1, <2>1, <2>3 DEF GetNextPID
  <2>4. CASE InsertUser(c)
    BY <1>1, <2>2, <2>4 DEF InsertUser
  <2> QED
    BY <1>5, <2>3, <2>4
<1>6. ASSUME NEW c \in Consoles, FindCreated(c) \/ DeleteOne(c)
      PROVE  Others
  <2> HIDE DEF Others
  <2> QED
    BY <1>2, <1>6 DEF FindCreated, DeleteOne
<1>7. ASSUME NEW c \in Consoles, NEW h, NEW n, NotFound(c, h, n), UNCHANGED <<machines, lastMachineID>>
      PROVE  Others
  <2>1. [op |-> "next PID", handler |-> h, name |-> n].op = "next PID"
    OBVIOUS
  <2> HIDE DEF Others
  <2> QED
    BY <1>1, <1>7, <2>1 DEF NotFound
<1>8. ASSUME NEW c \in Consoles, LoginNewMachine(c)
      PROVE  Others
  <2>1. [op |-> "next machine ID"].op = "next machine ID"
    OBVIOUS
  <2> HIDE DEF Others
  <2> QED
    BY <1>1, <1>8, <2>1 DEF LoginNewMachine
<1>9. ASSUME NEW c \in Consoles, NEW pid \in PIDs, DeleteFind(c, pid)
      PROVE  Others
  <2>1. [op |-> "delete", pid |-> pid].op = "delete"
    OBVIOUS
  <2> HIDE DEF Others
  <2> QED
    BY <1>1, <1>9, <2>1 DEF DeleteFind
<1>10. ASSUME NEW c \in Consoles, NEW name \in Names,
              \/ LoginKnown(c, name) \/ LoginMachine(c)
              \/ \E pid \in AnyPID : RequestTicket(c, pid) \/ OnConnection(c, pid)
              \/ LookupKnown(c, name)
      PROVE  Others
  BY <1>10 DEF LoginKnown, LoginMachine, OnConnection, RequestTicket, LookupKnown
<1>13. ASSUME NEW c \in Consoles, RegisterEx(c) \/ RegisterEnds(c)
       PROVE  Others
  <2>1. [op |-> "register"].op = "register"
    OBVIOUS
  <2> HIDE DEF Others
  <2>2. CASE RegisterEx(c)
    BY <1>1, <2>1, <2>2 DEF RegisterEx
  <2>3. CASE RegisterEnds(c)
    BY <1>2, <2>3 DEF RegisterEnds, RegisterAccepted, RegisterUnknownClass, RegisterRefused
  <2> QED
    BY <1>13, <2>2, <2>3
<1>11. ASSUME NEW c \in Consoles, NEW name \in Names, LoginNew(c, name) \/ LookupNew(c, name)
       PROVE  Others
  <2> HIDE DEF Others
  <2> QED
    BY <1>7, <1>11 DEF LoginNew, LookupNew
<1>12. ASSUME NEW c \in Consoles, ConsoleNext(c)
       PROVE  GetNextMachineID(c) \/ InsertMachine(c) \/ Others
  <2> HIDE DEF Others
  <2> QED
    BY <1>5, <1>6, <1>8, <1>9, <1>10, <1>11, <1>12, <1>13, NamesOfPlayers, ConsoleKinds
    DEF ConsoleNext, Proceed
<1> QED
  BY <1>3, <1>4, <1>12 DEF Next

LEMMA MachineStep == TypeInv /\ MachineInv /\ [Next]_vars => MachineInv'
<1> SUFFICES ASSUME TypeInv, MachineInv, [Next]_vars PROVE MachineInv'
  OBVIOUS
<1>0. /\ call \in [Consoles -> CallRecords] /\ lastMachineID \in Nat
      /\ \A m \in machines : m.id \in Nat
      /\ \A c \in Consoles : InsertingMachine(c) => call[c].id \in Nat
      /\ MaxPIDs \in Nat
  <2>1. call \in [Consoles -> CallRecords] /\ lastMachineID \in Nat
    BY Bounds DEF TypeInv, TypeOK
  <2>2. \A m \in machines : m.id \in MachineIDs
    BY DEF TypeInv, TypeOK, Machine
  <2>3. \A c \in Consoles : InsertingMachine(c) => call[c].id \in MachineIDs
    BY <2>1, CallRecordKinds DEF InsertingMachine
  <2> QED
    BY <2>1, <2>2, <2>3, IDsApart, Bounds
<1>1. ASSUME NEW c \in Consoles, GetNextMachineID(c)
      PROVE  MachineInv'
  <2> DEFINE next == [op |-> "insert machine", id |-> MaxPIDs + lastMachineID']
  <2>1. /\ lastMachineID' = lastMachineID + 1 /\ UNCHANGED machines
        /\ call' = [call EXCEPT ![c] = next]
    BY <1>1 DEF GetNextMachineID, Continue
  <2>2. next.op = "insert machine" /\ next.id = MaxPIDs + (lastMachineID + 1)
    BY <2>1
  <2> HIDE DEF next
  <2>3. /\ InsertingMachine(c)' /\ call'[c].id = MaxPIDs + (lastMachineID + 1)
        /\ \A d \in Consoles \ {c} : call'[d] = call[d]
    BY <1>0, <2>1, <2>2 DEF InsertingMachine
  <2>4. \A d \in Consoles \ {c} : InsertingMachine(d)' => InsertingMachine(d)
    BY <2>3 DEF InsertingMachine
  <2> QED
    BY <1>0, <2>1, <2>3, <2>4 DEF MachineInv
<1>2. ASSUME NEW c \in Consoles, InsertMachine(c)
      PROVE  MachineInv'
  <2> DEFINE new == [code |-> c, id |-> call[c].id]
  <2>1. /\ machines' = machines \cup {new} /\ UNCHANGED lastMachineID
        /\ call' = [call EXCEPT ![c] = Idle] /\ InsertingMachine(c)
    BY <1>2 DEF InsertMachine, Return, Continue, InsertingMachine
  <2>2. new.code = c /\ new.id = call[c].id /\ c \in Wiis
    BY <2>1 DEF TypeInv, MachineCalls, InsertingMachine
  <2> HIDE DEF new
  <2>3. \A d \in Consoles : InsertingMachine(d)' => d # c /\ call'[d] = call[d] /\ InsertingMachine(d)
    BY <1>0, <2>1, IdleTyped DEF InsertingMachine
  <2> QED
    BY <1>0, <2>1, <2>2, <2>3 DEF MachineInv
<1>3. ASSUME UNCHANGED <<machines, lastMachineID>>,
             \A d \in Consoles : call'[d] = call[d] \/ ~InsertingMachine(d)'
      PROVE  MachineInv'
  <2>1. \A d \in Consoles : InsertingMachine(d)' => call'[d] = call[d] /\ InsertingMachine(d)
    BY <1>3 DEF InsertingMachine
  <2> QED
    BY <1>3, <2>1 DEF MachineInv
<1> QED
  BY <1>1, <1>2, <1>3, MachineStepKinds

\* Accounts remain issued, machines stored, and what was assigned from them assigned.
LEMMA NothingForgotten ==
  ASSUME TypeInv, [Next]_vars
  PROVE  issued \subseteq issued' /\ machines \subseteq machines'
<1>1. issued \subseteq issued'
  BY StepKinds, InsertStores DEF GetNextPID, NothingCreated, history
<1>2. machines \subseteq machines'
  BY MachineStepKinds DEF GetNextMachineID, InsertMachine
<1> QED
  BY <1>1, <1>2

LEMMA FromLoginKept ==
  ASSUME NEW c, NEW t, NEW accounts, NEW stored, NEW accounts2, NEW stored2,
         accounts \subseteq accounts2, stored \subseteq stored2, FromLogin(c, t, accounts, stored)
  PROVE  FromLogin(c, t, accounts2, stored2)
  BY DEF FromLogin

LEMMA LoggedInAs ==
  ASSUME TypeInv, NEW c \in Consoles, NEW pid, NEW who, LoggedIn(c, pid, who)
  PROVE  auth'[c] = [pid |-> pid, who |-> who] /\ auth'[c].pid = pid /\ auth'[c].who = who
  BY DEF TypeInv, TypeOK, LoggedIn

\* What Login answers with.
LEMMA AuthIdentity ==
  ASSUME TypeInv, RegistryInv, NEW c \in Consoles, IdentityOK(c), ConsoleNext(c)
  PROVE  FromLogin(c, auth'[c], issued', machines')
<1> USE DEF database, memory, history
<1>1. ASSUME auth'[c] = auth[c]
      PROVE  FromLogin(c, auth'[c], issued', machines')
  BY <1>1, NothingForgotten, FromLoginKept DEF IdentityOK, Next
<1>2. ASSUME NEW name, NEW user \in Matching(name), c \notin Wiis, LoggedIn(c, user.pid, Player[name]),
             UNCHANGED <<issued, machines>>
      PROVE  FromLogin(c, auth'[c], issued', machines')
  <2>1. user \in issued' /\ Player[user.name] = Player[name]
    BY <1>2 DEF Matching, RegistryInv, PIDsUnique
  <2>2. auth'[c].pid = user.pid /\ auth'[c].who = Player[name]
    BY <1>2, LoggedInAs
  <2> QED
    BY <1>2, <2>1, <2>2 DEF FromLogin
<1>3. CASE FindCreated(c)
  <2>1. UNCHANGED <<issued, machines>> /\ call[c].op = "find"
    BY <1>3 DEF FindCreated
  <2>2. \/ UNCHANGED auth
        \/ \E user \in Matching(call[c].name) :
              call[c].handler = "login" /\ LoggedIn(c, user.pid, Player[call[c].name])
    BY <1>3 DEF FindCreated
  <2>3. call[c].handler = "login" => c \notin Wiis
    BY <2>1 DEF IdentityOK, CreatingFor
  <2> QED
    BY <1>1, <1>2, <2>1, <2>2, <2>3
<1>4. CASE \E name \in Typed[c] : LoginKnown(c, name)
  BY <1>2, <1>4 DEF LoginKnown
<1>5. CASE LoginMachine(c)
  <2>1. PICK m \in WithCode(c) : LoggedIn(c, m.id, c)
    BY <1>5 DEF LoginMachine
  <2>2. m \in machines' /\ m.code = c /\ c \in Wiis
    BY <1>5, SessionsAssumption DEF LoginMachine, WithCode, TypeInv, TypeOK, Machine, Codes
  <2>3. auth'[c].pid = m.id /\ auth'[c].who = c
    BY <2>1, LoggedInAs
  <2> QED
    BY <2>2, <2>3 DEF FromLogin
<1>6. CASE InsertMachine(c)
  <2>1. LoggedIn(c, 0, c) /\ c \in Wiis
    BY <1>6 DEF InsertMachine, TypeInv, MachineCalls
  <2> QED
    BY <2>1, LoggedInAs DEF FromLogin
<1>7. CASE \/ GetNextPID(c) \/ InsertUser(c) \/ GetNextMachineID(c) \/ DeleteOne(c)
           \/ \E name \in Typed[c] : LoginNew(c, name) \/ LookupKnown(c, name) \/ LookupNew(c, name)
           \/ LoginNewMachine(c)
           \/ \E pid \in AnyPID : RequestTicket(c, pid)
           \/ \E pid \in AnyPID : OnConnection(c, pid)
           \/ RegisterEx(c) \/ RegisterEnds(c)
           \/ \E pid \in PIDs : DeleteFind(c, pid)
  <2>1. UNCHANGED auth
    BY <1>7
    DEF GetNextPID, InsertUser, GetNextMachineID, DeleteOne, LoginNew, LookupKnown, LookupNew, LoginNewMachine,
        RequestTicket, OnConnection, RegisterEx, RegisterEnds, RegisterAccepted, RegisterUnknownClass,
        RegisterRefused, DeleteFind
  <2> QED
    BY <1>1, <2>1
<1> QED
  BY <1>3, <1>4, <1>5, <1>6, <1>7 DEF ConsoleNext, Proceed

\* The ticket is made out for what Login assigned.
LEMMA TicketIdentity ==
  ASSUME TypeInv, NEW c \in Consoles, IdentityOK(c), ConsoleNext(c)
  PROVE  FromLogin(c, ticket'[c], issued', machines')
<1> USE DEF database, memory, history
<1>0. ticket \in [Consoles -> AuthClient]
  BY DEF TypeInv, TypeOK
<1>1. ASSUME ticket'[c] = ticket[c]
      PROVE  FromLogin(c, ticket'[c], issued', machines')
  BY <1>1, NothingForgotten, FromLoginKept DEF IdentityOK, Next
<1>2. CASE \E pid \in AnyPID : RequestTicket(c, pid)
  <2> DEFINE made == [pid |-> auth[c].pid, who |-> auth[c].who]
  <2>1. auth[c].who # NoCode /\ ticket'[c] = made /\ UNCHANGED <<issued, machines>>
    BY <1>0, <1>2 DEF RequestTicket
  <2>2. auth[c] # NoTicket /\ made.pid = auth[c].pid /\ made.who = auth[c].who
    BY <2>1 DEF NoTicket
  <2> HIDE DEF made
  <2> QED
    BY <2>1, <2>2 DEF IdentityOK, FromLogin
<1>3. CASE \E pid \in AnyPID : OnConnection(c, pid)
  <2>1. ticket'[c] = NoTicket
    BY <1>0, <1>3 DEF OnConnection
  <2> QED
    BY <2>1 DEF FromLogin
<1>4. CASE \/ Proceed(c)
           \/ \E name \in Typed[c] : LoginKnown(c, name) \/ LoginNew(c, name)
           \/ LoginMachine(c) \/ LoginNewMachine(c)
           \/ RegisterEx(c) \/ RegisterEnds(c)
           \/ \E name \in Typed[c] : LookupKnown(c, name) \/ LookupNew(c, name)
           \/ \E pid \in PIDs : DeleteFind(c, pid)
  <2>1. UNCHANGED ticket
    BY <1>4
    DEF Proceed, GetNextPID, InsertUser, FindCreated, GetNextMachineID, InsertMachine, DeleteOne, LoginKnown,
        LoginNew, LoginMachine, LoginNewMachine, RegisterEx, RegisterEnds, RegisterAccepted,
        RegisterUnknownClass, RegisterRefused, LookupKnown, LookupNew, DeleteFind
  <2> QED
    BY <1>1, <2>1
<1> QED
  BY <1>2, <1>3, <1>4 DEF ConsoleNext

\* Who creates an account logs in and is no Wii, or is registered.
LEMMA CreatingIdentity ==
  ASSUME TypeInv, NEW c \in Consoles, IdentityOK(c), ConsoleNext(c)
  PROVE  CreatingFor(c)'
<1> USE DEF database, memory, history
<1>0. call \in [Consoles -> CallRecords] /\ client \in [Consoles -> Client] /\ client[c] \in Client
  BY DEF TypeInv, TypeOK
<1>1. \A next : Continue(c, next) => call'[c] = next
  BY <1>0 DEF Continue
<1>2. CASE GetNextPID(c) \/ InsertUser(c)
  <2>1. call[c].op \in {"next PID", "insert"} /\ call'[c].handler = call[c].handler
    <3>1. CASE GetNextPID(c)
      <4> DEFINE next == [op |-> "insert", handler |-> call[c].handler, name |-> call[c].name, pid |-> lastPID']
      <4>1. call'[c] = next /\ call[c].op = "next PID"
        BY <1>1, <3>1 DEF GetNextPID
      <4>2. next.handler = call[c].handler
        OBVIOUS
      <4> HIDE DEF next
      <4> QED
        BY <4>1, <4>2
    <3>2. CASE InsertUser(c)
      <4> DEFINE next == [op |-> "find", handler |-> call[c].handler, name |-> call[c].name]
      <4>1. call'[c] = next /\ call[c].op = "insert"
        BY <1>1, <3>2 DEF InsertUser
      <4>2. next.handler = call[c].handler
        OBVIOUS
      <4> HIDE DEF next
      <4> QED
        BY <4>1, <4>2
    <3> QED
      BY <1>2, <3>1, <3>2
  <2>2. client'[c].stage = client[c].stage
    <3>1. client'[c] \in {client[c], [client[c] EXCEPT !.pid = 0]}
      BY <1>0, <1>2 DEF GetNextPID, InsertUser
    <3> QED
      BY <1>0, <3>1 DEF Client
  <2> QED
    BY <2>1, <2>2 DEF IdentityOK, CreatingFor
<1>3. CASE FindCreated(c) \/ InsertMachine(c) \/ DeleteOne(c)
  <2>1. call'[c].op = "idle"
    BY <1>1, <1>3, IdleTyped DEF FindCreated, InsertMachine, DeleteOne, Return
  <2> QED
    BY <2>1 DEF CreatingFor
<1>4. CASE GetNextMachineID(c) \/ LoginNewMachine(c) \/ \E pid \in PIDs : DeleteFind(c, pid)
  <2>1. /\ [op |-> "insert machine", id |-> MaxPIDs + lastMachineID'].op = "insert machine"
        /\ [op |-> "next machine ID"].op = "next machine ID"
        /\ \A pid : [op |-> "delete", pid |-> pid].op = "delete"
    OBVIOUS
  <2>2. call'[c].op \in {"insert machine", "next machine ID", "delete"}
    BY <1>1, <1>4, <2>1 DEF GetNextMachineID, LoginNewMachine, DeleteFind
  <2> QED
    BY <2>2 DEF CreatingFor
<1>5. CASE \E name \in Typed[c] : LoginNew(c, name)
  <2>1. \A n : [op |-> "next PID", handler |-> "login", name |-> n].handler = "login"
    OBVIOUS
  <2>2. call'[c].handler = "login" /\ c \notin Wiis
    BY <1>1, <1>5, <2>1 DEF LoginNew, NotFound
  <2> QED
    BY <2>2 DEF CreatingFor
<1>6. CASE \E name \in Typed[c] : LookupNew(c, name)
  <2>1. \A n : [op |-> "next PID", handler |-> "lookup", name |-> n].handler = "lookup"
    OBVIOUS
  <2>2. call'[c].handler = "lookup" /\ client'[c].stage = "registered"
    BY <1>1, <1>6, <2>1 DEF LookupNew, NotFound, MayCall
  <2> QED
    BY <2>2 DEF CreatingFor
<1>7. CASE \/ \E name \in Typed[c] : LoginKnown(c, name)
           \/ LoginMachine(c) \/ \E pid \in AnyPID : RequestTicket(c, pid)
  BY <1>7 DEF LoginKnown, LoginMachine, RequestTicket, IdentityOK, CreatingFor
<1>8. CASE \/ \E pid \in AnyPID : OnConnection(c, pid)
           \/ RegisterEx(c) \/ RegisterEnds(c)
           \/ \E name \in Typed[c] : LookupKnown(c, name)
  <2>1. [op |-> "register"].op = "register"
    OBVIOUS
  <2>2. call'[c].op \in {"idle", "register"}
    BY <1>1, <1>8, <2>1, IdleTyped
    DEF OnConnection, RegisterEx, RegisterEnds, RegisterAccepted, RegisterUnknownClass, RegisterRefused,
        Return, LookupKnown, MayCall
  <2> QED
    BY <2>2 DEF CreatingFor
<1> QED
  BY <1>2, <1>3, <1>4, <1>5, <1>6, <1>7, <1>8 DEF ConsoleNext, Proceed

\* OnConnection finds the player or the Wii that the ticket is for, if anyone, when its
\* PID is stated.
LEMMA ConnectedMeans ==
  ASSUME TypeInv, RegistryInv, MachineInv, NEW c \in Consoles, IdentityOK(c),
         NEW pid \in AnyPID, OnConnection(c, pid)
  PROVE  Means(c, client'[c])
<1> DEFINE t == ticket[c]
           new == client'[c]
<1>1. PICK before \in {NewClient, client[c]} :
        /\ before \in Client
        /\ \E identified \in Identified(before, pid) :
             /\ new.stage = "connected" /\ new.name = identified.name
             /\ new.who = IF pid = t.pid THEN t.who ELSE NoCode
  BY ConnectionClient DEF TypeInv
<1>2. PICK identified \in Identified(before, pid) :
        /\ new.stage = "connected" /\ new.name = identified.name
        /\ new.who = IF pid = t.pid THEN t.who ELSE NoCode
  BY <1>1
<1> HIDE DEF new
<1>3. FromLogin(c, t, issued, machines)
  BY DEF IdentityOK
<1>4. t = NoTicket => t.who = NoCode
  BY DEF NoTicket
<1> HIDE DEF t
<1>5. /\ \A u \in users : u \in issued /\ u.pid \in PIDs /\ u.name \in Names
      /\ \A u \in issued : u.pid \in PIDs
      /\ \A m \in machines : m.id \in MachineIDs /\ m.code \in Wiis
      /\ \A u, v \in issued : u.pid = v.pid => u = v
  BY DEF TypeInv, TypeOK, User, Machine, RegistryInv, PIDsUnique, MachineInv
<1>6. identified.name \in {u.name : u \in WithPID(pid)} \cup {m.code : m \in WithMachineID(pid)} \cup {NoCode}
  <2>1. \/ \E u \in WithPID(pid) : identified = [before EXCEPT !.stage = "connected", !.name = u.name]
        \/ \E m \in WithMachineID(pid) :
              identified = [before EXCEPT !.stage = "connected", !.name = m.code, !.code = m.code, !.machine = m.id]
        \/ identified = [before EXCEPT !.stage = "connected", !.name = NoCode, !.code = NoCode, !.machine = 0]
    BY <1>2 DEF Identified
  <2> QED
    BY <1>1, <2>1 DEF Client
<1>7. \A m \in machines : m.code \notin Names
  BY <1>5, CodesApart
<1>8. CASE new.who = NoCode
  BY <1>8 DEF Means, new
<1>9. CASE new.who # NoCode
  <2>1. pid = t.pid /\ new.who = t.who /\ t # NoTicket
    BY <1>2, <1>4, <1>9
  <2>2. CASE c \notin Wiis
    <3>1. PICK u \in issued : u.pid = t.pid /\ Player[u.name] = t.who
      BY <1>3, <2>1, <2>2 DEF FromLogin
    <3>2. \A v \in WithPID(pid) : v = u
      BY <1>5, <2>1, <3>1 DEF WithPID
    <3>3. new.name \in Names => new.name = u.name
      BY <1>2, <1>6, <1>7, <3>2, CodesApart DEF WithMachineID
    <3> QED
      BY <2>1, <2>2, <3>1, <3>3 DEF Means, new
  <2>3. CASE c \in Wiis
    <3>1. t.who = c /\ (t.pid = 0 \/ t.pid \in MachineIDs)
      BY <1>3, <1>5, <2>1, <2>3 DEF FromLogin
    <3>2. WithPID(pid) = {}
      BY <1>5, <2>1, <3>1, IDsApart DEF WithPID
    <3>3. new.name \notin Names
      BY <1>2, <1>6, <1>7, <3>2, CodesApart DEF WithMachineID
    <3> QED
      BY <2>1, <3>1, <3>3 DEF Means, new
  <2> QED
    BY <2>2, <2>3
<1> QED
  BY <1>8, <1>9

\* The client object goes on meaning the same one.
LEMMA ClientIdentity ==
  ASSUME TypeInv, RegistryInv, MachineInv, NEW c \in Consoles, IdentityOK(c), ConsoleNext(c)
  PROVE  Means(c, client'[c])
<1> USE DEF database, memory, history
<1>0. client \in [Consoles -> Client] /\ client[c] \in Client /\ Means(c, client[c])
  BY DEF TypeInv, TypeOK, IdentityOK
<1>1. ASSUME client'[c] = client[c]
      PROVE  Means(c, client'[c])
  BY <1>0, <1>1
<1>2. ASSUME NEW pid, NEW stage, client[c].stage = "connected" \/ stage \in {"none", client[c].stage},
             Becomes(c, pid, stage)
      PROVE  Means(c, client'[c])
  BY <1>0, <1>2 DEF Means, Becomes
<1>3. ASSUME NEW name, NEW pid, Switched(c, name, pid), client[c].stage = "registered"
      PROVE  Means(c, client'[c])
  <2>1. client'[c] = [client[c] EXCEPT !.name = name, !.pid = pid, !.who = Player[name]]
    BY <1>0, <1>3 DEF Switched
  <2>2. /\ client'[c].stage = "registered" /\ client'[c].name = name
        /\ client'[c].code = client[c].code /\ client'[c].who = Player[name]
    BY <1>0, <1>3, <2>1 DEF Client
  <2> QED
    BY <1>0, <2>2 DEF Means
<1>4. CASE InsertUser(c)
  <2>1. client'[c] \in {client[c], [client[c] EXCEPT !.pid = 0]}
    BY <1>0, <1>4 DEF InsertUser
  <2>2. /\ client'[c].stage = client[c].stage /\ client'[c].name = client[c].name
        /\ client'[c].who = client[c].who
    BY <1>0, <2>1 DEF Client
  <2> QED
    BY <1>0, <2>2 DEF Means
<1>5. CASE FindCreated(c)
  <2>1. call[c].op = "find"
    BY <1>5 DEF FindCreated
  <2>2. call[c].handler = "lookup" => client[c].stage = "registered"
    BY <2>1 DEF IdentityOK, CreatingFor
  <2>3. \/ UNCHANGED client
        \/ \E user \in Matching(call[c].name) :
              call[c].handler = "lookup" /\ Switched(c, call[c].name, user.pid)
    BY <1>5 DEF FindCreated
  <2> QED
    BY <1>1, <1>3, <2>2, <2>3
<1>6. CASE \E pid \in AnyPID : OnConnection(c, pid)
  BY <1>6, ConnectedMeans
<1>7. CASE RegisterEx(c) \/ RegisterEnds(c)
  <2>1. CASE RegisterEx(c)
    BY <1>2, <2>1, RegisterClient DEF TypeInv
  <2>2. CASE RegisterEnds(c)
    <3>1. call[c].op = "register"
      BY <2>2 DEF RegisterEnds, RegisterAccepted, RegisterUnknownClass, RegisterRefused
    <3>2. client[c].stage = "connected"
      BY <3>1 DEF IdentityOK, RegisteringAs
    <3> QED
      BY <1>2, <2>2, <3>2, RegisterClient DEF TypeInv, RegisterEnds
  <2> QED
    BY <1>7, <2>1, <2>2
<1>8. CASE \E name \in Typed[c] : LookupKnown(c, name)
  BY <1>3, <1>8 DEF LookupKnown, MayCall
<1>9. CASE \/ GetNextPID(c) \/ GetNextMachineID(c) \/ InsertMachine(c) \/ DeleteOne(c)
           \/ \E name \in Typed[c] : LoginKnown(c, name) \/ LoginNew(c, name) \/ LookupNew(c, name)
           \/ LoginMachine(c) \/ LoginNewMachine(c)
           \/ \E pid \in AnyPID : RequestTicket(c, pid)
           \/ \E pid \in PIDs : DeleteFind(c, pid)
  <2>1. UNCHANGED client
    BY <1>9
    DEF GetNextPID, GetNextMachineID, InsertMachine, DeleteOne, LoginKnown, LoginNew, LookupNew, LoginMachine,
        LoginNewMachine, RequestTicket, DeleteFind
  <2> QED
    BY <1>1, <2>1
<1> QED
  BY <1>4, <1>5, <1>6, <1>7, <1>8, <1>9 DEF ConsoleNext, Proceed

\* Nor is another console's ticket changed, or what was assigned to it.
LEMMA TicketsAreLocal ==
  ASSUME TypeInv, NEW c \in Consoles, ConsoleNext(c), NEW d \in Consoles, c # d
  PROVE  auth'[d] = auth[d] /\ ticket'[d] = ticket[d]
<1> USE DEF database, memory, history
<1>0. auth \in [Consoles -> AuthClient] /\ ticket \in [Consoles -> AuthClient]
  BY DEF TypeInv, TypeOK
<1>1. CASE Proceed(c)
  BY <1>0, <1>1
  DEF Proceed, GetNextPID, InsertUser, FindCreated, GetNextMachineID, InsertMachine, DeleteOne, LoggedIn
<1>2. CASE \/ \E name \in Typed[c] : LoginKnown(c, name) \/ LoginNew(c, name)
           \/ LoginMachine(c) \/ LoginNewMachine(c)
           \/ \E pid \in AnyPID : RequestTicket(c, pid)
  BY <1>0, <1>2 DEF LoginKnown, LoginNew, LoginMachine, LoginNewMachine, RequestTicket, LoggedIn
<1>3. CASE \/ \E pid \in AnyPID : OnConnection(c, pid)
           \/ RegisterEx(c) \/ RegisterEnds(c)
           \/ \E name \in Typed[c] : LookupKnown(c, name) \/ LookupNew(c, name)
           \/ \E pid \in PIDs : DeleteFind(c, pid)
  BY <1>0, <1>3
  DEF OnConnection, RegisterEx, RegisterEnds, RegisterAccepted, RegisterUnknownClass, RegisterRefused,
      LookupKnown, LookupNew, DeleteFind
<1> QED
  BY <1>1, <1>2, <1>3 DEF ConsoleNext

\* The PID that RegisterEx sets is one of who logged in, if the console stated its PID.
LEMMA RegisteringIdentity ==
  ASSUME TypeInv, MachineInv, RegistryInv, NEW c \in Consoles, IdentityOK(c), ConsoleNext(c)
  PROVE  RegisteringAs(c, issued, machines)'
<1> USE DEF database, memory, history
<1>0. call \in [Consoles -> CallRecords] /\ Means(c, client[c])
  BY DEF TypeInv, TypeOK, IdentityOK
<1>1. \A next : Continue(c, next) => call'[c] = next
  BY <1>0 DEF Continue
<1>2. ASSUME call'[c].op # "register"
      PROVE  RegisteringAs(c, issued, machines)'
  BY <1>2 DEF RegisteringAs
<1>3. CASE RegisterEx(c)
  <2>1. PICK pid \in Registrants(c) : pid \in AnyPID /\ Becomes(c, pid, client[c].stage)
    BY <1>3, RegisterClient DEF TypeInv
  <2>2. client[c].stage = "connected" /\ UNCHANGED <<issued, machines>>
    BY <1>3 DEF RegisterEx, MayRegister
  <2>3. AsTicketed(c)' => AsTicketed(c)
    BY <2>1 DEF AsTicketed, Becomes
  <2>4. ASSUME AsTicketed(c)
        PROVE  RegistersAs(pid, client[c].who, issued, machines)
    <3>1. CASE \E u \in users : u.name = client[c].name /\ pid = u.pid
      <4>1. PICK u \in users : u.name = client[c].name /\ pid = u.pid
        BY <3>1
      <4>2. u.name \in Names /\ u \in issued
        BY DEF TypeInv, TypeOK, User, RegistryInv, PIDsUnique
      <4>3. Player[u.name] = client[c].who
        BY <1>0, <2>2, <2>4, <4>1, <4>2 DEF Means, AsTicketed
      <4> QED
        BY <4>1, <4>2, <4>3 DEF RegistersAs
    <3>2. CASE \E m \in WithCode(client[c].code) : pid = m.id
      <4>1. PICK m \in WithCode(client[c].code) : pid = m.id
        BY <3>2
      <4>2. m \in machines /\ m.code = client[c].code /\ m.code \in Wiis
        BY DEF WithCode, MachineInv
      <4>3. client[c].code = c /\ c \in Wiis
        BY <2>4, <4>2, CodesApart DEF AsTicketed
      <4>4. client[c].who = c
        BY <1>0, <2>2, <2>4, <4>3 DEF Means, AsTicketed
      <4> QED
        BY <4>1, <4>2, <4>3, <4>4 DEF RegistersAs
    <3> QED
      BY <2>1, <3>1, <3>2 DEF Registrants
  <2> QED
    BY <2>1, <2>2, <2>3, <2>4 DEF RegisteringAs, Becomes
<1>4. CASE RegisterEnds(c)
  BY <1>1, <1>2, <1>4, IdleTyped
  DEF RegisterEnds, RegisterAccepted, RegisterUnknownClass, RegisterRefused, Return
<1>5. CASE \/ \E name \in Typed[c] : LoginKnown(c, name) \/ LookupKnown(c, name)
           \/ LoginMachine(c)
           \/ \E pid \in AnyPID : RequestTicket(c, pid) \/ OnConnection(c, pid)
  <2>1. call'[c].op = "idle"
    BY <1>5, IdleTyped DEF LoginKnown, LookupKnown, LoginMachine, RequestTicket, OnConnection, MayCall
  <2> QED
    BY <1>2, <2>1
<1>6. CASE GetNextPID(c) \/ InsertUser(c) \/ GetNextMachineID(c) \/ LoginNewMachine(c)
  <2>1. ASSUME NEW next, Continue(c, next), next.op # "register"
        PROVE  RegisteringAs(c, issued, machines)'
    BY <1>1, <1>2, <2>1
  <2>2. CASE GetNextPID(c)
    <3>1. [op |-> "insert", handler |-> call[c].handler, name |-> call[c].name, pid |-> lastPID'].op = "insert"
      OBVIOUS
    <3> QED
      BY <2>1, <2>2, <3>1 DEF GetNextPID
  <2>3. CASE InsertUser(c)
    <3>1. [op |-> "find", handler |-> call[c].handler, name |-> call[c].name].op = "find"
      OBVIOUS
    <3> QED
      BY <2>1, <2>3, <3>1 DEF InsertUser
  <2>4. CASE GetNextMachineID(c)
    <3>1. [op |-> "insert machine", id |-> MaxPIDs + lastMachineID'].op = "insert machine"
      OBVIOUS
    <3> QED
      BY <2>1, <2>4, <3>1 DEF GetNextMachineID
  <2>5. CASE LoginNewMachine(c)
    <3>1. [op |-> "next machine ID"].op = "next machine ID"
      OBVIOUS
    <3> QED
      BY <2>1, <2>5, <3>1 DEF LoginNewMachine
  <2> QED
    BY <1>6, <2>2, <2>3, <2>4, <2>5
<1>7. CASE FindCreated(c) \/ InsertMachine(c) \/ DeleteOne(c)
  BY <1>1, <1>2, <1>7, IdleTyped DEF FindCreated, InsertMachine, DeleteOne, Return
<1>8. CASE \E name \in Typed[c] : LoginNew(c, name) \/ LookupNew(c, name)
  <2>1. PICK h \in {"login", "lookup"}, n \in Typed[c] : NotFound(c, h, n)
    BY <1>8 DEF LoginNew, LookupNew
  <2>2. [op |-> "next PID", handler |-> h, name |-> n].op = "next PID"
    OBVIOUS
  <2>3. call'[c] = [op |-> "next PID", handler |-> h, name |-> n]
    BY <1>1, <2>1 DEF NotFound
  <2> QED
    BY <1>2, <2>2, <2>3
<1>9. CASE \E pid \in PIDs : DeleteFind(c, pid)
  <2>1. PICK pid \in PIDs : DeleteFind(c, pid)
    BY <1>9
  <2>2. [op |-> "delete", pid |-> pid].op = "delete"
    OBVIOUS
  <2>3. call'[c] = [op |-> "delete", pid |-> pid]
    BY <1>1, <2>1 DEF DeleteFind
  <2> QED
    BY <1>2, <2>2, <2>3
<1> QED
  BY <1>3, <1>4, <1>5, <1>6, <1>7, <1>8, <1>9 DEF ConsoleNext, Proceed

LEMMA IdentityStep == TypeInv /\ RegistryInv /\ MachineInv /\ IdentityInv /\ [Next]_vars => IdentityInv'
<1> SUFFICES ASSUME TypeInv, RegistryInv, MachineInv, IdentityInv, [Next]_vars, NEW d \in Consoles
             PROVE  IdentityOK(d)'
  BY DEF IdentityInv
<1>0. IdentityOK(d)
  BY DEF IdentityInv
<1>1. ASSUME client'[d] = client[d], call'[d] = call[d], auth'[d] = auth[d], ticket'[d] = ticket[d]
      PROVE  IdentityOK(d)'
  <2>1. FromLogin(d, auth[d], issued', machines') /\ FromLogin(d, ticket[d], issued', machines')
    BY <1>0, NothingForgotten, FromLoginKept DEF IdentityOK
  <2>2. AsTicketed(d)' <=> AsTicketed(d)
    BY <1>1 DEF AsTicketed
  <2>3. RegisteringAs(d, issued, machines)'
    BY <1>0, <1>1, <2>2, NothingForgotten DEF IdentityOK, RegisteringAs, RegistersAs
  <2> QED
    BY <1>0, <1>1, <2>1, <2>3 DEF IdentityOK, CreatingFor
<1>2. CASE UNCHANGED vars \/ CleanupFind \/ CleanupDelete
  BY <1>1, <1>2 DEF vars, CleanupFind, CleanupDelete, database, memory, history
<1>3. CASE Restart
  <2>1. auth'[d] = NoTicket /\ client'[d] = NewClient /\ call'[d].op = "idle" /\ UNCHANGED <<ticket, issued, machines>>
    BY <1>3, IdleTyped DEF Restart, database
  <2>2. Means(d, NewClient)
    BY DEF Means, NewClient
  <2> QED
    BY <1>0, <2>1, <2>2 DEF IdentityOK, CreatingFor, FromLogin, RegisteringAs
<1>4. ASSUME NEW c \in Consoles, ConsoleNext(c)
      PROVE  IdentityOK(d)'
  <2>1. CASE c # d
    BY <1>1, <1>4, <2>1, StepsAreLocal, TicketsAreLocal
  <2>2. CASE c = d
    BY <1>0, <1>4, <2>2, AuthIdentity, TicketIdentity, CreatingIdentity, ClientIdentity, RegisteringIdentity
    DEF IdentityOK
  <2> QED
    BY <2>1, <2>2
<1> QED
  BY <1>2, <1>3, <1>4 DEF Next

\* Who becomes registered in a step is the one who logged in.
LEMMA RegisterStep ==
  ASSUME TypeInv, MachineInv, IdentityInv, [Next]_vars, NEW c \in Consoles,
         client[c].stage = "connected", client'[c].stage = "registered", AsTicketed(c)
  PROVE  \/ \E u \in issued : u.pid = client'[c].pid /\ Player[u.name] = client[c].who
         \/ \E m \in WithMachineID(client'[c].pid) : m.code = client[c].who
<1> USE DEF database, memory, history
<1>0. client \in [Consoles -> Client] /\ client[c] \in Client /\ CreatingFor(c) /\ RegisteringAs(c, issued, machines)
  BY DEF TypeInv, TypeOK, IdentityInv, IdentityOK
<1>1. client'[c].stage # client[c].stage
  OBVIOUS
<1>2. PICK d \in Consoles : ConsoleNext(d)
  <2>1. ~(UNCHANGED vars \/ CleanupFind \/ CleanupDelete)
    BY <1>1 DEF vars, CleanupFind, CleanupDelete
  <2>2. ~Restart
    <3>1. Restart => client'[c].stage = "none"
      BY DEF Restart, NewClient
    <3> QED
      BY <3>1
  <2> QED
    BY <2>1, <2>2 DEF Next
<1>3. d = c
  BY <1>1, <1>2, StepsAreLocal
<1>4. ~Proceed(c)
  <2>1. ~(GetNextPID(c) \/ GetNextMachineID(c) \/ InsertMachine(c) \/ DeleteOne(c))
    BY <1>1 DEF GetNextPID, GetNextMachineID, InsertMachine, DeleteOne
  <2>2. ~InsertUser(c)
    <3> SUFFICES ASSUME InsertUser(c) PROVE client'[c].stage = client[c].stage
      BY <1>1
    <3>1. client'[c] \in {client[c], [client[c] EXCEPT !.pid = 0]}
      BY <1>0 DEF InsertUser
    <3> QED
      BY <1>0, <3>1 DEF Client
  <2>3. ~FindCreated(c)
    <3> SUFFICES ASSUME FindCreated(c) PROVE FALSE
      OBVIOUS
    <3>1. call[c].op = "find" /\ call[c].handler # "lookup"
      BY <1>0, <1>1 DEF FindCreated, CreatingFor
    <3> QED
      BY <1>1, <3>1 DEF FindCreated
  <2> QED
    BY <2>1, <2>2, <2>3 DEF Proceed
<1>5. ~\E pid \in AnyPID : OnConnection(c, pid)
  <2> SUFFICES ASSUME NEW pid \in AnyPID, OnConnection(c, pid) PROVE client'[c].stage = "connected"
    OBVIOUS
  <2> QED
    BY ConnectionClient DEF TypeInv
<1>6. RegisterAccepted(c)
  <2>1. ~(RegisterEx(c) \/ RegisterUnknownClass(c) \/ RegisterRefused(c))
    BY RegisterClient DEF TypeInv, Becomes
  <2> QED
    BY <1>1, <1>2, <1>3, <1>4, <1>5, <2>1
    DEF ConsoleNext, RegisterEnds, LoginKnown, LoginNew, LoginMachine, LoginNewMachine, RequestTicket,
        LookupKnown, LookupNew, DeleteFind, MayCall
<1>7. call[c].op = "register" /\ client'[c].pid = client[c].pid
  BY <1>6, RegisterClient DEF TypeInv, Becomes, RegisterAccepted
<1> QED
  BY <1>0, <1>7 DEF RegisteringAs, RegistersAs, WithMachineID

\* A console that connects with the PID of its ticket registers as the one who logged in
\* on it, for all interleavings with the logins, deletions and restarts of others, and with
\* consoles that state any PID: no PID that a ticket was made out for is ever another one's
\* (RequestTicket, OnConnection, RegisterEx).
THEOREM RegisterAsLoggedIn == Spec => RegisteredAsLoggedIn
<1>1. Init => TypeInv /\ RegistryInv /\ MachineInv /\ IdentityInv
  <2> SUFFICES ASSUME Init PROVE TypeInv /\ RegistryInv /\ MachineInv /\ IdentityInv
    OBVIOUS
  <2>1. TypeInv
    BY InitTyped, IdleTyped DEF TypeInv, MachineCalls, Init
  <2>2. \A c \in Consoles : call[c].op = "idle"
    BY IdleTyped DEF Init
  <2>3. RegistryInv
    BY <2>2 DEF RegistryInv, PIDsUnique, PIDsInHand, FirstLogins, Init, Inserting, Creating
  <2>4. MachineInv
    BY <2>2 DEF MachineInv, InsertingMachine, Init
  <2>5. \A c \in Consoles : Means(c, NewClient)
    BY DEF Means, NewClient
  <2>6. IdentityInv
    BY <2>2, <2>5 DEF IdentityInv, IdentityOK, CreatingFor, RegisteringAs, FromLogin, Init
  <2> QED
    BY <2>1, <2>3, <2>4, <2>6
<1>2. TypeInv /\ MachineInv /\ IdentityInv /\ [Next]_vars =>
        [\A c \in Consoles :
          client[c].stage = "connected" /\ client'[c].stage = "registered" /\ AsTicketed(c) =>
              \/ \E u \in issued : u.pid = client'[c].pid /\ Player[u.name] = client[c].who
              \/ \E m \in WithMachineID(client'[c].pid) : m.code = client[c].who]_vars
  BY RegisterStep
<1> QED
  BY <1>1, <1>2, TypeStep, RegistryStep, MachineStep, IdentityStep, PTL DEF Spec, RegisteredAsLoggedIn
==============================================================================
