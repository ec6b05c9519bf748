--------------------------- MODULE Gatherings_proofs ---------------------------
(***************************************************************************)
(* Proofs about gatherings, for any consoles, accounts, goroutines and     *)
(* bounds: each player and each machine has one, an owner passes the       *)
(* check, nobody else writes and everything has its type.                  *)
(***************************************************************************)
EXTENDS Gatherings, FiniteSetTheorems, TLAPS

------------------------------------------------------------------------------
(* What the theorems assume beyond ConsolesAssumption, as does the run: a  *)
(* console waits for the answer to a call, an account is played on one     *)
(* console, and nobody is called "Player".                                 *)

Separate ==
  /\ ~Overlap
  /\ \A c, d \in Consoles : c # d => AccountsOf[c] \cap AccountsOf[d] = {}
  /\ "Player" \notin Names

LEMMA Distinct ==
  /\ Consoles \cap Accounts = {}
  /\ NoMachine \notin Consoles
  /\ Wii \subseteq Consoles
  /\ \A c \in Consoles : AccountsOf[c] \subseteq Accounts /\ Platform[c] \in 0 .. 3
  /\ 0 \in SessionStates
<1>1. \A a \in Accounts : a \in Spellings[a]
  BY ConsolesAssumption
<1>2. Consoles \cap UNION {Spellings[a] : a \in Accounts} = {}
  BY ConsolesAssumption
<1>3. Consoles \cap Accounts = {}
  BY <1>1, <1>2
<1> QED
  BY <1>3, ConsolesAssumption

\* The names of console c: its own and those typed on it.
Spelled(c) == {c} \cup UNION {Spellings[a] : a \in AccountsOf[c]}

LEMMA HomesApart ==
  ASSUME Separate
  PROVE  /\ \A c, d \in Consoles : c # d => PlayedOn(c) \cap PlayedOn(d) = {}
         /\ \A c, d \in Consoles : c # d => Spelled(c) \cap Spelled(d) = {}
         /\ \A c \in Consoles : PlayedOn(c) \cap Consoles = {c} /\ Spelled(c) \cap Consoles = {c}
<1>1. \A c, d \in Consoles : c # d => PlayedOn(c) \cap PlayedOn(d) = {}
  BY Distinct DEF Separate, PlayedOn
<1>2. ASSUME NEW c \in Consoles, NEW d \in Consoles, c # d,
             NEW n \in Spelled(c), n \in Spelled(d)
      PROVE  FALSE
  <2>1. n # c /\ n # d
    BY <1>2, Distinct, ConsolesAssumption DEF Spelled
  <2>2. PICK a \in AccountsOf[c], b \in AccountsOf[d] : n \in Spellings[a] /\ n \in Spellings[b]
    BY <1>2, <2>1 DEF Spelled
  <2>3. a \in Accounts /\ b \in Accounts /\ a # b
    BY <1>2, <2>2, Distinct DEF Separate
  <2> QED
    BY <2>2, <2>3, ConsolesAssumption
<1>3. \A c \in Consoles : PlayedOn(c) \cap Consoles = {c} /\ Spelled(c) \cap Consoles = {c}
  BY Distinct, ConsolesAssumption DEF PlayedOn, Spelled
<1> QED
  BY <1>1, <1>2, <1>3

LEMMA PlayersAreNames ==
  \A c \in Consoles : Spelled(c) \subseteq Names /\ PlayedOn(c) \subseteq Consoles \cup Accounts
  BY Distinct, ConsolesAssumption DEF PlayedOn, Spelled, Names

\* A name the holder of a PID goes by.
Spells(name, pid) == IF pid \in Accounts THEN name \in Spellings[pid] ELSE name = pid

LEMMA SpelledAtHome ==
  ASSUME Separate, NEW c \in Consoles, NEW pid \in PlayedOn(c), NEW name, Spells(name, pid)
  PROVE  /\ name \in Spelled(c) /\ name \in Names
         /\ pid \in Consoles \cup Accounts
         /\ pid = c <=> name = c
         /\ name \in Consoles => name = c
         /\ name \in Steady => name = pid
<1>1. CASE pid = c
  <2>1. name = c
    BY <1>1, Distinct DEF Spells
  <2> QED
    BY <1>1, <2>1, PlayersAreNames DEF Spelled
<1>2. CASE pid # c
  <2>1. pid \in AccountsOf[c] /\ pid \in Accounts /\ name \in Spellings[pid]
    BY <1>2, Distinct DEF PlayedOn, Spells
  <2>2. name \notin Consoles /\ pid \in Spellings[pid]
    BY <2>1, ConsolesAssumption
  <2>3. name \in Spelled(c)
    BY <2>1 DEF Spelled
  <2>4. name \in Steady => name = pid
    BY <2>1, <2>2 DEF Steady
  <2> QED
    BY <1>2, <2>1, <2>2, <2>3, <2>4, PlayersAreNames
<1> QED
  BY <1>1, <1>2

LEMMA ConsolesAreSteady == Consoles \subseteq Steady
  BY ConsolesAssumption DEF Steady, Names
------------------------------------------------------------------------------
(* The invariant.                                                          *)

\* A client object of console c stands for one of its players, who is in users.
SessionOK(s, c, known) ==
  /\ Spells(s.name, s.pid)
  /\ s.pid \in PlayedOn(c)
  /\ s.pid = c => c \in Wii
  /\ s.pid = c \/ s.pid \in known

SessionsOK ==
  /\ session \in [Consoles -> Sessions]
  /\ \A c \in Consoles : SessionOK(session[c], c, users)

\* A document's creator and machine are those of one console, and a Master User's
\* carries the machine.
DocOK(g) ==
  /\ g \in Gathering
  /\ Spells(g.creator, g.owner)
  /\ \E c \in Consoles : g.owner \in PlayedOn(c) /\ g.machine \in {c, NoMachine}
  /\ g.creator \in Consoles => g.machine = g.creator

DocsOK ==
  /\ created \in Nat
  /\ DOMAIN gatherings \subseteq 1 .. created
  /\ \A id \in DOMAIN gatherings : DocOK(gatherings[id])

CallOK(r, last) ==
  /\ r # Idle => r.op # "idle" /\ r.client \in Consoles
  /\ r.op = "update" => r.public \in BOOLEAN
  /\ r.op = "setstate" => r.state \in SessionStates
  /\ r.op \in {"update", "setstate", "terminate"} => r.id \in 1 .. last
  /\ r.op \in {"clear", "transfer"} => r.client \in Wii

Busy(r, c) == r # Idle /\ r.client = c

CallsOK ==
  /\ call = [k \in Calls |-> call[k]]
  /\ \A k \in Calls : CallOK(call[k], created)
  /\ \A k, m \in Calls : k # m /\ call[k] # Idle /\ call[m] # Idle => call[k].client # call[m].client

\* The players of c with one name, and the machine, have one gathering each.
OneEach(c) ==
  \A i, j \in DOMAIN gatherings :
    /\ gatherings[i].creator \in Spelled(c)
    /\ \/ gatherings[i].creator = gatherings[j].creator /\ gatherings[i].creator \in Steady
       \/ gatherings[i].machine = gatherings[j].machine /\ gatherings[i].machine # NoMachine
    => i = j

\* A gathering the machine may still hand over does not belong to another player beside
\* one of the player who is logged in: an update would make two of the player's. Only
\* LookupOrCreateAccount, before it has cleared, finds both.
NoRival(c) ==
  /\ c \in Wii
  /\ session[c].name \in Steady
  /\ \A k \in Calls : ~(call[k].op = "clear" /\ call[k].client = c)
  => \A i, j \in DOMAIN gatherings :
       gatherings[i].creator = session[c].name /\ gatherings[j].machine = c => i = j

Holds(g, c, name) == g.creator = name \/ g.machine = c

\* What a handler has found and relies on.
Relies(k) ==
  LET r == call[k]
      c == call[k].client
      name == session[call[k].client].name
  IN
  /\ r.op = "insert" => \A id \in DOMAIN gatherings : ~Holds(gatherings[id], c, name)
  /\ r.op \in {"update", "setstate", "terminate"} /\ r.id \in DOMAIN gatherings =>
       /\ gatherings[r.id].creator \in Spelled(c)
       /\ name \in Steady => Holds(gatherings[r.id], c, name)
  /\ r.op \in {"clear", "transfer"} => name # c
  /\ r.op = "transfer" => \A id \in DOMAIN gatherings : gatherings[id].creator # name

Inv ==
  /\ SessionsOK
  /\ DocsOK
  /\ CallsOK
  /\ \A c \in Consoles : OneEach(c) /\ NoRival(c)
  /\ \A k \in Calls : Relies(k)
------------------------------------------------------------------------------
(* Whose a gathering is.                                                   *)

\* A gathering has one home.
LEMMA HomeOfDoc ==
  ASSUME Separate, NEW g, DocOK(g), NEW c \in Consoles
  PROVE  /\ g.creator \in Spelled(c) => g.machine \in {c, NoMachine} /\ g.owner \in PlayedOn(c)
         /\ g.machine = c => g.creator \in Spelled(c) /\ c \in Wii
         /\ g.owner \in PlayedOn(c) => g.creator \in Spelled(c)
         /\ g.creator = c => g.machine = c
<1>1. PICK home \in Consoles : g.owner \in PlayedOn(home) /\ g.machine \in {home, NoMachine}
  BY DEF DocOK
<1>2. g.machine \in Wii \cup {NoMachine} /\ Spells(g.creator, g.owner)
  BY DEF DocOK, Gathering
<1>3. g.creator \in Spelled(home)
  BY <1>1, <1>2, SpelledAtHome
<1>4. g.creator \in Spelled(c) \/ g.owner \in PlayedOn(c) => c = home
  BY <1>1, <1>3, HomesApart
<1>5. g.machine = c => c = home /\ c \in Wii
  BY <1>1, <1>2, Distinct
<1> QED
  BY <1>1, <1>3, <1>4, <1>5 DEF DocOK

\* What console c holds is at home there.
LEMMA HeldAtHome ==
  ASSUME Separate, NEW g, DocOK(g), NEW c \in Consoles, NEW name \in Spelled(c), Holds(g, c, name)
  PROVE  g.creator \in Spelled(c) /\ g.machine \in {c, NoMachine}
  BY HomeOfDoc DEF Holds

\* The ownership check.
LEMMA OwnsMeansHolds ==
  ASSUME Separate, NEW g, DocOK(g), NEW c \in Consoles, SessionsOK, Owns(c, g)
  PROVE  /\ g.creator \in Spelled(c)
         /\ session[c].name \in Steady => Holds(g, c, session[c].name)
<1>1. /\ g.creator \in Names
      /\ session[c].pid \in PlayedOn(c)
      /\ session[c].name \in Steady => session[c].name = session[c].pid
  BY SpelledAtHome DEF SessionsOK, SessionOK, DocOK, Gathering
<1>2. CASE g.creator = UsernameForPID(session[c].pid)
  <2>1. g.creator = session[c].pid
    BY <1>1, <1>2 DEF UsernameForPID, Separate
  <2>2. g.creator \in Spelled(c)
    <3>1. \/ session[c].pid = c
          \/ session[c].pid \in Spellings[session[c].pid] /\ session[c].pid \in AccountsOf[c]
      BY <1>1, Distinct, ConsolesAssumption DEF PlayedOn
    <3> QED
      BY <2>1, <3>1 DEF Spelled
  <2> QED
    BY <1>1, <2>1, <2>2 DEF Holds
<1>3. CASE g.machine # NoMachine /\ g.machine = MachineID(c)
  <2>1. g.machine = c
    BY <1>3 DEF MachineID
  <2> QED
    BY <2>1, HomeOfDoc DEF Holds
<1>4. CASE /\ MachineIDFromUsername(g.creator) # NoMachine
           /\ MachineIDFromUsername(g.creator) = MachineID(c)
  <2>1. g.creator = c
    BY <1>4 DEF MachineIDFromUsername, MachineID
  <2> QED
    BY <2>1, HomeOfDoc DEF Holds
<1> QED
  BY <1>2, <1>3, <1>4 DEF Owns

LEMMA SessionOfConsole ==
  ASSUME Separate, SessionsOK, NEW c \in Consoles
  PROVE  /\ session[c].name \in Spelled(c)
         /\ session[c].name \in Names
         /\ session[c].pid \in PlayedOn(c) /\ session[c].pid \in Consoles \cup Accounts
         /\ Spells(session[c].name, session[c].pid)
         /\ session[c].name \in Consoles => session[c].name = c
         /\ IsMaster(c) <=> session[c].name = c
         /\ IsMaster(c) => c \in Wii /\ session[c].name \in Steady
<1>1. Spells(session[c].name, session[c].pid) /\ session[c].pid \in PlayedOn(c) /\ (session[c].pid = c => c \in Wii)
  BY DEF SessionsOK, SessionOK
<1>2. session[c].pid \in Consoles <=> session[c].pid = c
  BY <1>1, HomesApart
<1> QED
  BY <1>1, <1>2, SpelledAtHome, ConsolesAreSteady DEF IsMaster

\* A console waits for the answer to its call.
Alone(k, c) == \A m \in Calls : m # k /\ call[m] # Idle => call[m].client # c

LEMMA CallerAlone ==
  ASSUME Separate, CallsOK, NEW k \in Calls
  PROVE  /\ \A c \in Consoles : Accept(k, c) => call[k] = Idle /\ Alone(k, c)
         /\ call[k] # Idle => call[k].client \in Consoles /\ Alone(k, call[k].client)
  BY DEF Separate, CallsOK, CallOK, Accept, Alone
------------------------------------------------------------------------------
(* A step of console c disturbs neither the gatherings nor the calls of    *)
(* others; a step of nobody (C is empty) is one of the housekeeping.       *)

\* What a step of nobody may change of a gathering is its age.
Kept(old, new) ==
  /\ new.creator = old.creator
  /\ new.machine = old.machine

\* The gatherings after the step are kept, or those of a console in C.
OnlyOf(C) ==
  \A id \in DOMAIN gatherings' :
    \/ id \in DOMAIN gatherings /\ Kept(gatherings[id], gatherings'[id])
    \/ \E c \in C :
         /\ gatherings'[id].creator \in Spelled(c)
         /\ id \in 1 .. created => id \in DOMAIN gatherings /\ gatherings[id].creator \in Spelled(c)

OnlyCallsOf(C) ==
  \A k \in Calls :
    \/ call'[k] = call[k]
    \/ /\ call[k] # Idle => call[k].client \in C
       /\ call'[k] # Idle => call'[k].client \in C

LEMMA OthersKept ==
  ASSUME Separate, Inv, DocsOK', NEW C \in SUBSET Consoles, OnlyOf(C),
         NEW d \in Consoles \ C, NEW id \in DOMAIN gatherings'
  PROVE  /\ gatherings'[id].creator \in Spelled(d) \/ gatherings'[id].machine = d =>
              /\ id \in DOMAIN gatherings
              /\ Kept(gatherings[id], gatherings'[id])
         /\ id \in 1 .. created =>
              /\ id \in DOMAIN gatherings
              /\ gatherings[id].creator \in Spelled(d) => Kept(gatherings[id], gatherings'[id])
<1>1. DocOK(gatherings'[id])
  BY DEF DocsOK, DocOK
<1>2. gatherings'[id].machine = d => gatherings'[id].creator \in Spelled(d)
  BY <1>1, HomeOfDoc
<1>3. \A c \in C : Spelled(c) \cap Spelled(d) = {}
  BY HomesApart
<1> QED
  BY <1>2, <1>3 DEF OnlyOf

LEMMA OthersOneEach ==
  ASSUME Separate, Inv, DocsOK', NEW C \in SUBSET Consoles, OnlyOf(C), NEW d \in Consoles \ C
  PROVE  OneEach(d)'
<1>1. \A i \in DOMAIN gatherings' : DocOK(gatherings'[i])
  BY DEF DocsOK, DocOK
<1> SUFFICES ASSUME NEW i \in DOMAIN gatherings', NEW j \in DOMAIN gatherings',
                    gatherings'[i].creator \in Spelled(d),
                    \/ gatherings'[i].creator = gatherings'[j].creator /\ gatherings'[i].creator \in Steady
                    \/ /\ gatherings'[i].machine = gatherings'[j].machine
                       /\ gatherings'[i].machine # NoMachine
             PROVE  i = j
  BY DEF OneEach, Spelled, Steady, Names
<1>2. gatherings'[i].machine \in {d, NoMachine}
  BY <1>1, HomeOfDoc
<1>3. gatherings'[j].creator \in Spelled(d) \/ gatherings'[j].machine = d
  BY <1>2
<1>4. /\ i \in DOMAIN gatherings /\ Kept(gatherings[i], gatherings'[i])
      /\ j \in DOMAIN gatherings /\ Kept(gatherings[j], gatherings'[j])
  BY <1>3, OthersKept
<1> QED
  BY <1>4 DEF Inv, OneEach, Kept

LEMMA OthersNoRival ==
  ASSUME Separate, Inv, DocsOK', NEW C \in SUBSET Consoles, OnlyOf(C), OnlyCallsOf(C),
         NEW d \in Consoles \ C, session'[d] = session[d]
  PROVE  NoRival(d)'
<1> SUFFICES ASSUME d \in Wii, session[d].name \in Steady,
                    \A k \in Calls : ~(call'[k].op = "clear" /\ call'[k].client = d),
                    NEW i \in DOMAIN gatherings', NEW j \in DOMAIN gatherings',
                    gatherings'[i].creator = session[d].name, gatherings'[j].machine = d
             PROVE  i = j
  BY DEF NoRival, Steady, Names
<1>1. \A k \in Calls : ~(call[k].op = "clear" /\ call[k].client = d)
  <2> SUFFICES ASSUME NEW k \in Calls, call[k].op = "clear", call[k].client = d PROVE FALSE
    OBVIOUS
  <2>1. call[k] # Idle
    BY DEF Idle
  <2>2. call'[k] = call[k]
    BY <2>1 DEF OnlyCallsOf
  <2> QED
    BY <2>2
<1>2. session[d].name \in Spelled(d)
  BY SessionOfConsole DEF Inv
<1>3. /\ i \in DOMAIN gatherings /\ Kept(gatherings[i], gatherings'[i])
      /\ j \in DOMAIN gatherings /\ Kept(gatherings[j], gatherings'[j])
  BY <1>2, OthersKept
<1> QED
  BY <1>1, <1>3 DEF Inv, NoRival, Kept

LEMMA OthersRely ==
  ASSUME Separate, Inv, DocsOK', NEW C \in SUBSET Consoles, OnlyOf(C),
         \A d \in Consoles \ C : session'[d] = session[d],
         NEW k \in Calls, call'[k] = call[k], call[k] # Idle, call[k].client \notin C
  PROVE  Relies(k)'
<1> DEFINE r == call[k]
           d == call[k].client
           name == session[d].name
<1>1. CallOK(r, created) /\ Relies(k)
  BY DEF Inv, CallsOK
<1>2. d \in Consoles \ C
  BY <1>1 DEF CallOK
<1>3. session'[d].name = name /\ name \in Spelled(d)
  BY <1>2, SessionOfConsole DEF Inv
<1>4. \A id \in DOMAIN gatherings' :
        Holds(gatherings'[id], d, name) =>
          id \in DOMAIN gatherings /\ Kept(gatherings[id], gatherings'[id])
  BY <1>2, <1>3, OthersKept DEF Holds
<1>5. \A id \in DOMAIN gatherings' :
        gatherings'[id].creator = name =>
          id \in DOMAIN gatherings /\ gatherings[id].creator = name
  BY <1>4 DEF Holds, Kept
<1>6. r.op = "insert" => \A id \in DOMAIN gatherings' : ~Holds(gatherings'[id], d, name)
  BY <1>1, <1>4 DEF Relies, Holds, Kept
<1>7. ASSUME r.op \in {"update", "setstate", "terminate"}, r.id \in DOMAIN gatherings'
      PROVE  /\ r.id \in DOMAIN gatherings
             /\ gatherings[r.id].creator \in Spelled(d)
             /\ name \in Steady => Holds(gatherings[r.id], d, name)
             /\ Kept(gatherings[r.id], gatherings'[r.id])
  <2>1. r.id \in 1 .. created
    BY <1>1, <1>7 DEF CallOK
  <2>2. r.id \in DOMAIN gatherings
    BY <1>2, <1>7, <2>1, OthersKept
  <2>3. /\ gatherings[r.id].creator \in Spelled(d)
        /\ name \in Steady => Holds(gatherings[r.id], d, name)
    BY <1>1, <1>7, <2>2 DEF Relies
  <2> QED
    BY <1>2, <1>7, <2>1, <2>2, <2>3, OthersKept
<1>8. r.op = "transfer" => \A id \in DOMAIN gatherings' : gatherings'[id].creator # name
  BY <1>1, <1>5 DEF Relies
<1>9. r.op \in {"update", "setstate", "terminate"} /\ r.id \in DOMAIN gatherings' =>
        /\ gatherings'[r.id].creator \in Spelled(d)
        /\ name \in Steady => Holds(gatherings'[r.id], d, name)
  BY <1>7 DEF Holds, Kept
<1> QED
  BY <1>1, <1>3, <1>6, <1>8, <1>9 DEF Relies, Holds, Spelled, Steady, Names

\* What is left to show of a step.
LEMMA LocalStep ==
  ASSUME Separate, Inv, SessionsOK', DocsOK', CallsOK', NEW C \in SUBSET Consoles,
         OnlyOf(C), OnlyCallsOf(C),
         \A d \in Consoles \ C : session'[d] = session[d],
         \A c \in C : OneEach(c)' /\ NoRival(c)',
         \A k \in Calls : call'[k] # Idle /\ call'[k].client \in C => Relies(k)'
  PROVE  Inv'
<1>1. ASSUME NEW d \in Consoles PROVE OneEach(d)' /\ NoRival(d)'
  BY <1>1, OthersOneEach, OthersNoRival
<1>2. ASSUME NEW k \in Calls PROVE Relies(k)'
  <2>1. CASE call'[k] = Idle
    BY <2>1 DEF Relies, Idle
  <2>2. CASE call'[k] # Idle /\ call'[k].client \in C
    BY <2>2
  <2>3. CASE call'[k] # Idle /\ call'[k].client \notin C
    <3>1. call'[k] = call[k]
      BY <2>3 DEF OnlyCallsOf
    <3> QED
      BY <2>3, <3>1, OthersRely
  <2> QED
    BY <2>1, <2>2, <2>3
<1> QED
  BY <1>1, <1>2 DEF Inv
------------------------------------------------------------------------------
(* A step of one handler.                                                  *)

\* What console c writes, adds and removes is its own, and nothing comes back.
OwnWrites(c) ==
  /\ \A id \in DOMAIN gatherings' :
       \/ id \in DOMAIN gatherings /\ gatherings'[id] = gatherings[id]
       \/ gatherings'[id].creator \in Spelled(c)
  /\ \A id \in DOMAIN gatherings :
       \/ id \in DOMAIN gatherings' /\ gatherings'[id] = gatherings[id]
       \/ gatherings[id].creator \in Spelled(c)
  /\ \A id \in 1 .. created : id \in DOMAIN gatherings' => id \in DOMAIN gatherings

LEMMA HandlerStep ==
  ASSUME Separate, Inv, NEW c \in Consoles, NEW k \in Calls, Alone(k, c),
         call[k] # Idle => call[k].client = c,
         NEW next, Continue(k, next), CallOK(next, created'),
         next # Idle => next.client = c /\ Relies(k)',
         created <= created', SessionsOK', DocsOK', OwnWrites(c),
         \A d \in Consoles \ {c} : session'[d] = session[d],
         OneEach(c)', NoRival(c)'
  PROVE  Inv'
<1>1. call'[k] = next /\ \A m \in Calls \ {k} : call'[m] = call[m]
  BY DEF Continue, Inv, CallsOK
<1>2. created \in Nat /\ created' \in Nat
  BY DEF Inv, DocsOK
<1>3. \A m \in Calls : CallOK(call'[m], created')
  <2>1. \A m \in Calls : CallOK(call[m], created)
    BY DEF Inv, CallsOK
  <2>2. 1 .. created \subseteq 1 .. created'
    BY <1>2
  <2> QED
    BY <1>1, <2>1, <2>2 DEF CallOK
<1>4. \A l, m \in Calls : l # m /\ call'[l] # Idle /\ call'[m] # Idle => call'[l].client # call'[m].client
  BY <1>1 DEF Inv, CallsOK, Alone
<1>5. call' = [m \in Calls |-> call'[m]]
  BY DEF Continue, Inv, CallsOK
<1>6. CallsOK'
  BY <1>3, <1>4, <1>5 DEF CallsOK, CallOK
<1>7. OnlyOf({c})
  BY DEF OwnWrites, OnlyOf, Kept
<1>8. OnlyCallsOf({c})
  BY <1>1 DEF OnlyCallsOf
<1>9. \A m \in Calls : call'[m] # Idle /\ call'[m].client \in {c} => m = k
  BY <1>1 DEF Alone
<1>10. ASSUME NEW m \in Calls, call'[m] # Idle, call'[m].client \in {c} PROVE Relies(m)'
  BY <1>1, <1>9, <1>10
<1> QED
  BY <1>6, <1>7, <1>8, <1>10, LocalStep

\* Outside LookupOrCreateAccount, before it has cleared, a machine has no rival.
LEMMA NoRivalNow ==
  ASSUME Inv, NEW c \in Wii, NEW k \in Calls, Alone(k, c), call[k].op # "clear",
         session[c].name \in Steady
  PROVE  \A i, j \in DOMAIN gatherings :
           gatherings[i].creator = session[c].name /\ gatherings[j].machine = c => i = j
<1>1. \A m \in Calls : ~(call[m].op = "clear" /\ call[m].client = c)
  BY DEF Alone, Idle
<1> QED
  BY <1>1, Distinct DEF Inv, NoRival

\* Deleting keeps what is said of each gathering and of each two.
LEMMA DeletingKeeps ==
  ASSUME Inv, NEW S, gatherings' = Without(S), UNCHANGED created, NEW c \in Consoles
  PROVE  /\ DocsOK'
         /\ OneEach(c)'
         /\ DOMAIN gatherings' = DOMAIN gatherings \ S
         /\ \A id \in DOMAIN gatherings' : gatherings'[id] = gatherings[id]
         /\ (\A id \in S \cap DOMAIN gatherings : gatherings[id].creator \in Spelled(c)) => OwnWrites(c)
<1>1. /\ DOMAIN gatherings' = DOMAIN gatherings \ S
      /\ \A id \in DOMAIN gatherings' : gatherings'[id] = gatherings[id]
  BY DEF Without
<1>2. DocsOK'
  BY <1>1 DEF Inv, DocsOK, DocOK
<1>3. OneEach(c)'
  BY <1>1 DEF Inv, OneEach, Spelled, Steady, Names
<1> QED
  BY <1>1, <1>2, <1>3 DEF OwnWrites

\* A handler that only reads, or finishes.
LEMMA ReadingKeeps ==
  ASSUME Inv, UNCHANGED <<gatherings, created>>, NEW c \in Consoles
  PROVE  DocsOK' /\ OneEach(c)' /\ OwnWrites(c)
  BY DEF Inv, DocsOK, DocOK, OneEach, PlayedOn, OwnWrites

LEMMA SameSessions ==
  ASSUME Inv, UNCHANGED <<users, session>>
  PROVE  SessionsOK'
  BY DEF Inv, SessionsOK, SessionOK

LEMMA ReadingStep ==
  ASSUME Separate, Inv, NEW c \in Consoles, NEW k \in Calls, Alone(k, c),
         call[k] # Idle => call[k].client = c, call[k].op # "clear",
         NEW next, Continue(k, next), CallOK(next, created),
         next # Idle => next.client = c /\ Relies(k)',
         UNCHANGED <<gatherings, created, users, session>>
  PROVE  Inv' /\ OwnWrites(c)
<1>1. NoRival(c)'
  BY NoRivalNow DEF NoRival, Steady, Names
<1>2. created <= created'
  BY DEF Inv, DocsOK
<1> QED
  BY <1>1, <1>2, ReadingKeeps, SameSessions, HandlerStep
------------------------------------------------------------------------------
(* The actions.                                                            *)

\* Each keeps the invariant and writes what is its console's.
Good(k, c) == Inv' /\ OwnWrites(c) /\ Acting(k) /\ c = ActingConsole(k)

\* A call that has begun, or one that goes on or returns, is at work.
LEMMA AtWork ==
  ASSUME Inv, NEW c \in Consoles, NEW k \in Calls, NEW next, Continue(k, next),
         \/ call[k] = Idle /\ next # Idle /\ next.client = c
         \/ call[k] # Idle /\ call[k].client = c /\ next # call[k]
  PROVE  Acting(k) /\ c = ActingConsole(k)
<1>1. call'[k] = next
  BY DEF Continue, Inv, CallsOK
<1> QED
  BY <1>1 DEF Acting, ActingConsole

LEMMA RegisterClearGood ==
  ASSUME Separate, Inv, NEW c \in Consoles, NEW k \in Calls, RegisterClear(k, c)
  PROVE  Good(k, c)
<1> DEFINE name == session[c].name
           stale == {id \in DOMAIN gatherings :
                       \/ gatherings[id].creator = name
                       \/ MachineID(c) # NoMachine /\ gatherings[id].machine = MachineID(c)}
<1> DEFINE next == [op |-> "insert", client |-> c]
<1>1. Continue(k, next)
  BY DEF RegisterClear
<1>2. /\ gatherings' = Without(stale)
      /\ UNCHANGED <<created, users, session>>
      /\ Accept(k, c)
  BY DEF RegisterClear
<1>3. call[k] = Idle /\ Alone(k, c)
  BY <1>2, CallerAlone DEF Inv
<1>4. name \in Spelled(c)
  BY SessionOfConsole DEF Inv
<1>5. \A id \in DOMAIN gatherings : DocOK(gatherings[id])
  BY DEF Inv, DocsOK
<1>6. \A id \in stale \cap DOMAIN gatherings : gatherings[id].creator \in Spelled(c)
  BY <1>4, <1>5, HeldAtHome DEF Holds, MachineID
<1>7. /\ DocsOK' /\ OneEach(c)' /\ OwnWrites(c)
      /\ DOMAIN gatherings' = DOMAIN gatherings \ stale
      /\ \A id \in DOMAIN gatherings' : gatherings'[id] = gatherings[id]
  <2> HIDE DEF stale
  <2> QED
    BY <1>2, <1>6, DeletingKeeps
<1>8. \A id \in DOMAIN gatherings' : ~Holds(gatherings'[id], c, name)
  <2> SUFFICES ASSUME NEW id \in DOMAIN gatherings', Holds(gatherings[id], c, name) PROVE FALSE
    BY <1>7
  <2>1. id \in DOMAIN gatherings /\ id \notin stale
    BY <1>7
  <2>2. gatherings[id].machine = c => c \in Wii
    BY <1>5, <2>1, HomeOfDoc
  <2> QED
    BY <2>1, <2>2, Distinct DEF Holds, MachineID
<1>9. next # Idle /\ next.client = c /\ CallOK(next, created')
  BY DEF CallOK, Idle
<1>10. Relies(k)'
  <2>1. call'[k] = next
    BY <1>1 DEF Continue, Inv, CallsOK
  <2> QED
    BY <1>2, <1>8, <2>1 DEF Relies, Holds
<1>11. NoRival(c)'
  BY <1>8 DEF Holds, NoRival
<1>12. created <= created' /\ SessionsOK'
  BY <1>2, SameSessions DEF Inv, DocsOK
<1> HIDE DEF next, stale
<1>13. Inv'
  BY <1>1, <1>2, <1>3, <1>7, <1>9, <1>10, <1>11, <1>12, HandlerStep DEF next
<1> QED
  BY <1>1, <1>3, <1>7, <1>9, <1>13, AtWork DEF Good, next

LEMMA RegisterInsertGood ==
  ASSUME Separate, Inv, NEW c \in Consoles, NEW k \in Calls, call[k].client = c, RegisterInsert(k)
  PROVE  Good(k, c)
<1> DEFINE name == session[c].name
           doc == [creator |-> session[c].name, machine |-> MachineID(c),
                   public |-> FALSE, state |-> 0, age |-> Fresh, console |-> Platform[c],
                   owner |-> session[c].pid]
           id == created + 1
<1>1. /\ call[k].op = "insert"
      /\ created' = id
      /\ gatherings' = [i \in DOMAIN gatherings \cup {id} |-> IF i = id THEN doc ELSE gatherings[i]]
      /\ Continue(k, Idle)
      /\ UNCHANGED <<users, session>>
  BY DEF RegisterInsert, Return
<1>2. call[k] # Idle /\ Alone(k, c)
  BY <1>1, CallerAlone DEF Idle, Inv, CallsOK, CallOK
<1>3. /\ name \in Spelled(c) /\ name \in Names /\ Spells(name, session[c].pid)
      /\ session[c].pid \in PlayedOn(c) /\ session[c].pid \in Consoles \cup Accounts
      /\ name \in Consoles => name = c /\ c \in Wii
  BY <1>2, SessionOfConsole DEF Inv
<1>4. /\ doc.creator = name /\ doc.owner = session[c].pid /\ doc.machine = MachineID(c)
      /\ MachineID(c) \in {c, NoMachine} /\ (name \in Consoles => MachineID(c) = name)
  BY <1>3 DEF MachineID
<1>5. doc \in Gathering
  BY <1>2, <1>3, Distinct, PlayersAreNames DEF Gathering, MachineID, Fresh, Stale, Expired
<1>6. DocOK(doc)
  BY <1>2, <1>3, <1>4, <1>5 DEF DocOK
<1> HIDE DEF doc
<1>7. created \in Nat /\ DOMAIN gatherings \subseteq 1 .. created
  BY DEF Inv, DocsOK
<1>8. /\ DOMAIN gatherings' = DOMAIN gatherings \cup {id} /\ id \notin DOMAIN gatherings
      /\ gatherings'[id] = doc
      /\ \A i \in DOMAIN gatherings : gatherings'[i] = gatherings[i]
  BY <1>1, <1>7
<1>9. DocsOK'
  <2>1. \A i \in DOMAIN gatherings' : DocOK(gatherings'[i])
    BY <1>6, <1>8 DEF Inv, DocsOK
  <2> QED
    BY <1>1, <1>7, <1>8, <2>1 DEF DocsOK, DocOK
<1>10. \A i \in DOMAIN gatherings : gatherings[i].creator # name /\ gatherings[i].machine # c
  BY <1>1 DEF Inv, Relies, Holds
<1>11. OneEach(c)'
  <2> SUFFICES ASSUME NEW i \in DOMAIN gatherings', NEW j \in DOMAIN gatherings',
                      gatherings'[i].creator \in Spelled(c),
                      \/ gatherings'[i].creator = gatherings'[j].creator /\ gatherings'[i].creator \in Steady
                      \/ /\ gatherings'[i].machine = gatherings'[j].machine
                         /\ gatherings'[i].machine # NoMachine
               PROVE  i = j
    BY DEF OneEach, Spelled, Steady, Names
  <2>1. CASE i = id \/ j = id
    BY <1>4, <1>8, <1>10, <2>1
  <2>2. CASE i # id /\ j # id
    BY <1>2, <1>8, <2>2 DEF Inv, OneEach
  <2> QED
    BY <2>1, <2>2
<1>12. NoRival(c)'
  BY <1>1, <1>4, <1>8, <1>10 DEF NoRival
<1>13. OwnWrites(c)
  BY <1>3, <1>4, <1>7, <1>8 DEF OwnWrites
<1>14. created <= created' /\ SessionsOK' /\ CallOK(Idle, created')
  BY <1>1, <1>7, SameSessions DEF CallOK, Idle
<1>15. Inv'
  BY <1>1, <1>2, <1>9, <1>11, <1>12, <1>13, <1>14, HandlerStep
<1> QED
  BY <1>1, <1>2, <1>13, <1>15, AtWork DEF Good

\* What the three handlers with an ownership check find.
LEMMA FindGood ==
  ASSUME Separate, Inv, NEW c \in Consoles, NEW k \in Calls, Accept(k, c),
         NEW id \in DOMAIN gatherings, Owns(c, gatherings[id]),
         NEW next, next.op \in {"update", "setstate", "terminate"}, next.client = c, next.id = id,
         next.op = "update" => next.public \in BOOLEAN,
         next.op = "setstate" => next.state \in SessionStates,
         Continue(k, next), UNCHANGED <<gatherings, created, users, session>>
  PROVE  Good(k, c)
<1>1. call[k] = Idle /\ Alone(k, c) /\ call[k].op # "clear"
  BY CallerAlone DEF Inv, Idle
<1>2. next # Idle
  BY DEF Idle
<1>3. /\ gatherings[id].creator \in Spelled(c)
      /\ session[c].name \in Steady => Holds(gatherings[id], c, session[c].name)
  BY OwnsMeansHolds DEF Inv, DocsOK
<1>4. CallOK(next, created)
  BY DEF CallOK, Inv, DocsOK
<1>5. Relies(k)'
  <2>1. call'[k] = next
    BY DEF Continue, Inv, CallsOK
  <2> QED
    BY <1>3, <2>1 DEF Relies, Holds, Spelled, Steady, Names
<1> QED
  BY <1>1, <1>2, <1>4, <1>5, ReadingStep, AtWork DEF Good

LEMMA FindsGood ==
  ASSUME Separate, Inv, NEW c \in Consoles, NEW k \in Calls, NEW id \in IDs,
         UpdateFind(k, c, id) \/ SetStateFind(k, c, id) \/ TerminateFind(k, c, id)
  PROVE  Good(k, c)
<1>1. CASE UpdateFind(k, c, id)
  <2>1. PICK public \in BOOLEAN :
          Continue(k, [op |-> "update", client |-> c, id |-> id, public |-> public])
    BY <1>1 DEF UpdateFind
  <2> DEFINE next == [op |-> "update", client |-> c, id |-> id, public |-> public]
  <2>2. /\ next.op = "update" /\ next.client = c /\ next.id = id /\ next.public \in BOOLEAN
        /\ Continue(k, next)
    BY <2>1
  <2> HIDE DEF next
  <2> QED
    BY <1>1, <2>2, FindGood DEF UpdateFind, Find
<1>2. CASE SetStateFind(k, c, id)
  <2>1. PICK state \in SessionStates :
          Continue(k, [op |-> "setstate", client |-> c, id |-> id, state |-> state])
    BY <1>2 DEF SetStateFind
  <2> DEFINE next == [op |-> "setstate", client |-> c, id |-> id, state |-> state]
  <2>2. /\ next.op = "setstate" /\ next.client = c /\ next.id = id /\ next.state \in SessionStates
        /\ Continue(k, next)
    BY <2>1
  <2> HIDE DEF next
  <2> QED
    BY <1>2, <2>2, FindGood DEF SetStateFind, Find
<1>3. CASE TerminateFind(k, c, id)
  <2> DEFINE next == [op |-> "terminate", client |-> c, id |-> id]
  <2>1. /\ next.op = "terminate" /\ next.client = c /\ next.id = id
        /\ Continue(k, next)
    BY <1>3 DEF TerminateFind
  <2> HIDE DEF next
  <2> QED
    BY <1>3, <2>1, FindGood DEF TerminateFind, Find
<1> QED
  BY <1>1, <1>2, <1>3

\* A document the handler writes in place of one it holds.
LEMMA WriteKeeps ==
  ASSUME Separate, Inv, NEW c \in Consoles, NEW id \in DOMAIN gatherings, NEW doc,
         gatherings[id].creator \in Spelled(c), DocOK(doc), doc.creator \in Spelled(c),
         gatherings' = SetFields(id, doc), UNCHANGED created
  PROVE  /\ DocsOK' /\ OwnWrites(c)
         /\ DOMAIN gatherings' = DOMAIN gatherings
         /\ gatherings'[id] = doc
         /\ \A i \in DOMAIN gatherings \ {id} : gatherings'[i] = gatherings[i]
<1>1. /\ DOMAIN gatherings' = DOMAIN gatherings
      /\ gatherings'[id] = doc
      /\ \A i \in DOMAIN gatherings \ {id} : gatherings'[i] = gatherings[i]
  BY DEF SetFields
<1>2. \A i \in DOMAIN gatherings' : DocOK(gatherings'[i])
  BY <1>1 DEF Inv, DocsOK
<1>3. DocsOK'
  BY <1>1, <1>2 DEF Inv, DocsOK, DocOK
<1> QED
  BY <1>1, <1>3 DEF OwnWrites

LEMMA UpdateWriteGood ==
  ASSUME Separate, Inv, NEW c \in Consoles, NEW k \in Calls, call[k].client = c, UpdateWrite(k)
  PROVE  Good(k, c)
<1> DEFINE name == session[c].name
           id == call[k].id
           g == gatherings[id]
           doc == [g EXCEPT !.public = call[k].public, !.age = Fresh,
                            !.owner = session[c].pid, !.creator = session[c].name,
                            !.machine = IF IsMaster(c) THEN @ ELSE NoMachine]
<1>1. /\ call[k].op = "update"
      /\ gatherings' = IF Find(id) THEN SetFields(id, doc) ELSE gatherings
      /\ Continue(k, Idle)
      /\ UNCHANGED <<created, users, session>>
  BY DEF UpdateWrite, Return
<1>2. call[k] # Idle /\ Alone(k, c) /\ call[k].public \in BOOLEAN /\ call[k].op # "clear"
  BY <1>1, CallerAlone DEF Idle, Inv, CallsOK, CallOK
<1>3. CallOK(Idle, created) /\ created <= created' /\ SessionsOK'
  BY <1>1, SameSessions DEF CallOK, Idle, Inv, DocsOK
<1>4. Acting(k) /\ c = ActingConsole(k)
  BY <1>1, <1>2, AtWork
<1>5. CASE ~Find(id)
  BY <1>1, <1>2, <1>3, <1>4, <1>5, ReadingStep DEF Good
<1>6. CASE Find(id)
  <2>1. /\ id \in DOMAIN gatherings /\ DocOK(g)
        /\ g.creator \in Spelled(c) /\ (name \in Steady => Holds(g, c, name))
    BY <1>1, <1>6 DEF Find, Inv, DocsOK, Relies
  <2>2. /\ name \in Spelled(c) /\ name \in Names /\ Spells(name, session[c].pid)
        /\ session[c].pid \in PlayedOn(c) /\ session[c].pid \in Consoles \cup Accounts
        /\ IsMaster(c) <=> name = c
        /\ name \in Consoles => name = c /\ c \in Wii /\ name \in Steady
    BY SessionOfConsole DEF Inv
  <2>3. g.machine \in {c, NoMachine} /\ (g.creator = c => g.machine = c)
    BY <2>1, HomeOfDoc
  <2>4. IsMaster(c) => g.machine = c
    BY <2>1, <2>2, <2>3 DEF Holds
  <2>5. /\ doc.creator = name /\ doc.owner = session[c].pid
        /\ doc.machine = IF IsMaster(c) THEN c ELSE NoMachine
        /\ doc \in Gathering
    BY <1>2, <2>1, <2>2, <2>4
    DEF DocOK, Gathering, Fresh, Stale, Expired
  <2>6. DocOK(doc)
    BY <2>2, <2>5 DEF DocOK
  <2> HIDE DEF doc
  <2>7. gatherings' = SetFields(id, doc)
    BY <1>1, <1>6
  <2>8. /\ DocsOK' /\ OwnWrites(c)
        /\ DOMAIN gatherings' = DOMAIN gatherings
        /\ gatherings'[id] = doc
        /\ \A i \in DOMAIN gatherings \ {id} : gatherings'[i] = gatherings[i]
    <3> HIDE DEF id
    <3> QED
      BY <1>1, <2>1, <2>2, <2>5, <2>6, <2>7, WriteKeeps
  <2>9. name \in Steady => \A i \in DOMAIN gatherings \ {id} : gatherings[i].creator # name
    <3> SUFFICES ASSUME name \in Steady,
                        NEW i \in DOMAIN gatherings, gatherings[i].creator = name
                 PROVE  i = id
      OBVIOUS
    <3>1. CASE g.creator = name
      BY <2>1, <2>2, <3>1 DEF Inv, OneEach
    <3>2. CASE g.machine = c
      <4>1. c \in Wii
        BY <2>1, <3>2, HomeOfDoc
      <4> QED
        BY <1>2, <2>1, <3>2, <4>1, NoRivalNow
    <3> QED
      BY <2>1, <3>1, <3>2 DEF Holds
  <2>10. IsMaster(c) => \A i \in DOMAIN gatherings \ {id} : gatherings[i].machine # c
    BY <2>1, <2>3, <2>4, Distinct DEF Inv, OneEach
  <2>11. OneEach(c)'
    <3> SUFFICES ASSUME NEW i \in DOMAIN gatherings', NEW j \in DOMAIN gatherings',
                        gatherings'[i].creator \in Spelled(c),
                        \/ gatherings'[i].creator = gatherings'[j].creator /\ gatherings'[i].creator \in Steady
                        \/ /\ gatherings'[i].machine = gatherings'[j].machine
                           /\ gatherings'[i].machine # NoMachine
                 PROVE  i = j
      BY DEF OneEach, Spelled, Steady, Names
    <3>1. CASE i = id \/ j = id
      BY <2>5, <2>8, <2>9, <2>10, <3>1
    <3>2. CASE i # id /\ j # id
      BY <2>8, <3>2 DEF Inv, OneEach
    <3> QED
      BY <3>1, <3>2
  <2>12. NoRival(c)'
    <3> SUFFICES ASSUME c \in Wii, name \in Steady,
                        NEW i \in DOMAIN gatherings', NEW j \in DOMAIN gatherings',
                        gatherings'[i].creator = name, gatherings'[j].machine = c
                 PROVE  i = j
      BY <1>1 DEF NoRival, Steady, Names
    <3>1. i = id
      BY <2>8, <2>9
    <3>2. ASSUME j # id PROVE FALSE
      <4>1. j \in DOMAIN gatherings /\ gatherings[j].machine = c
        BY <2>8, <3>2
      <4>2. CASE g.creator = name
        BY <1>2, <2>1, <3>2, <4>1, <4>2, NoRivalNow
      <4>3. CASE g.machine = c
        BY <2>1, <2>3, <3>2, <4>1, <4>3, Distinct DEF Inv, OneEach
      <4> QED
        BY <2>1, <4>2, <4>3 DEF Holds
    <3> QED
      BY <3>1, <3>2
  <2>13. Inv'
    BY <1>1, <1>2, <1>3, <2>8, <2>11, <2>12, HandlerStep
  <2> QED
    BY <1>4, <2>8, <2>13 DEF Good
<1> QED
  BY <1>5, <1>6

LEMMA SetStateWriteGood ==
  ASSUME Separate, Inv, NEW c \in Consoles, NEW k \in Calls, call[k].client = c, SetStateWrite(k)
  PROVE  Good(k, c)
<1> DEFINE id == call[k].id
           g == gatherings[id]
           doc == [g EXCEPT !.state = call[k].state, !.age = Fresh]
<1>1. /\ call[k].op = "setstate"
      /\ gatherings' = IF Find(id) THEN SetFields(id, doc) ELSE gatherings
      /\ Continue(k, Idle)
      /\ UNCHANGED <<created, users, session>>
  BY DEF SetStateWrite, Return
<1>2. /\ call[k] # Idle /\ Alone(k, c) /\ call[k].op # "clear"
      /\ call[k].state \in SessionStates
  BY <1>1, CallerAlone DEF Idle, Inv, CallsOK, CallOK
<1>3. CallOK(Idle, created) /\ created <= created' /\ SessionsOK'
  BY <1>1, SameSessions DEF CallOK, Idle, Inv, DocsOK
<1>4. Acting(k) /\ c = ActingConsole(k)
  BY <1>1, <1>2, AtWork
<1>5. CASE ~Find(id)
  BY <1>1, <1>2, <1>3, <1>4, <1>5, ReadingStep DEF Good
<1>6. CASE Find(id)
  <2>1. id \in DOMAIN gatherings /\ DocOK(g) /\ g.creator \in Spelled(c)
    BY <1>1, <1>6 DEF Find, Inv, DocsOK, Relies
  <2>3. /\ doc.creator = g.creator /\ doc.owner = g.owner /\ doc.machine = g.machine
        /\ doc \in Gathering
    BY <1>2, <2>1 DEF DocOK, Gathering, Fresh
  <2>4. DocOK(doc)
    BY <2>1, <2>3 DEF DocOK
  <2> HIDE DEF doc
  <2>5. gatherings' = SetFields(id, doc)
    BY <1>1, <1>6
  <2>6. /\ DocsOK' /\ OwnWrites(c)
        /\ DOMAIN gatherings' = DOMAIN gatherings
        /\ gatherings'[id] = doc
        /\ \A i \in DOMAIN gatherings \ {id} : gatherings'[i] = gatherings[i]
    <3> HIDE DEF id
    <3> QED
      BY <1>1, <2>1, <2>3, <2>4, <2>5, WriteKeeps
  <2>7. \A i \in DOMAIN gatherings :
          gatherings'[i].creator = gatherings[i].creator /\ gatherings'[i].machine = gatherings[i].machine
    BY <2>3, <2>6
  <2>8. OneEach(c)'
    BY <2>6, <2>7 DEF Inv, OneEach, Spelled, Steady, Names
  <2>9. NoRival(c)'
    BY <1>1, <1>2, <2>6, <2>7, NoRivalNow DEF NoRival, Steady, Names
  <2>10. Inv'
    BY <1>1, <1>2, <1>3, <2>6, <2>8, <2>9, HandlerStep
  <2> QED
    BY <1>4, <2>6, <2>10 DEF Good
<1> QED
  BY <1>5, <1>6

LEMMA TerminateDeleteGood ==
  ASSUME Separate, Inv, NEW c \in Consoles, NEW k \in Calls, call[k].client = c, TerminateDelete(k)
  PROVE  Good(k, c)
<1> DEFINE id == call[k].id
<1>1. /\ call[k].op = "terminate"
      /\ gatherings' = Without({id})
      /\ Continue(k, Idle)
      /\ UNCHANGED <<created, users, session>>
  BY DEF TerminateDelete, Return
<1>2. call[k] # Idle /\ Alone(k, c) /\ call[k].op # "clear"
  BY <1>1, CallerAlone DEF Idle, Inv
<1>3. \A i \in {id} \cap DOMAIN gatherings : gatherings[i].creator \in Spelled(c)
  BY <1>1 DEF Inv, Relies
<1>4. /\ DocsOK' /\ OneEach(c)' /\ OwnWrites(c)
      /\ DOMAIN gatherings' = DOMAIN gatherings \ {id}
      /\ \A i \in DOMAIN gatherings' : gatherings'[i] = gatherings[i]
  <2> HIDE DEF id
  <2> QED
    BY <1>1, <1>3, DeletingKeeps
<1>5. NoRival(c)'
  <2> SUFFICES ASSUME c \in Wii, session[c].name \in Steady,
                      NEW i \in DOMAIN gatherings', NEW j \in DOMAIN gatherings',
                      gatherings'[i].creator = session[c].name, gatherings'[j].machine = c
               PROVE  i = j
    BY <1>1 DEF NoRival, Steady, Names
  <2>1. /\ i \in DOMAIN gatherings /\ gatherings[i].creator = session[c].name
        /\ j \in DOMAIN gatherings /\ gatherings[j].machine = c
    BY <1>4
  <2> QED
    BY <1>2, <2>1, NoRivalNow
<1>6. CallOK(Idle, created) /\ created <= created' /\ SessionsOK'
  BY <1>1, SameSessions DEF CallOK, Idle, Inv, DocsOK
<1>7. Inv'
  BY <1>1, <1>2, <1>4, <1>5, <1>6, HandlerStep
<1> QED
  BY <1>1, <1>2, <1>4, <1>7, AtWork DEF Good

LEMMA LookupAccountGood ==
  ASSUME Separate, Inv, NEW c \in Consoles, NEW k \in Calls, NEW a \in AccountsOf[c],
         LookupAccount(k, c, a)
  PROVE  /\ Inv'
         /\ UNCHANGED <<gatherings, created>>
<1>1. PICK spelling \in Spellings[a] :
        /\ Accept(k, c)
        /\ users' = users \cup {a}
        /\ session' = [session EXCEPT ![c] = AccountSession(a, spelling)]
        /\ UNCHANGED <<gatherings, created>>
        /\ IF c \in Wii THEN Continue(k, [op |-> "clear", client |-> c]) ELSE UNCHANGED call
  BY DEF LookupAccount
<1>2. call[k] = Idle /\ Alone(k, c)
  BY <1>1, CallerAlone DEF Inv
<1>3. /\ a \in Accounts /\ a \notin Consoles /\ a \in PlayedOn(c)
      /\ spelling \in Names /\ spelling \notin Consoles /\ Spells(spelling, a)
  BY Distinct, ConsolesAssumption DEF PlayedOn, Names, Spells
<1>4. /\ session'[c] = AccountSession(a, spelling)
      /\ \A d \in Consoles \ {c} : session'[d] = session[d]
      /\ session' \in [Consoles -> Sessions]
  BY <1>1, <1>3 DEF Inv, SessionsOK, AccountSession, Sessions
<1>5. SessionsOK'
  <2>1. \A d \in Consoles : SessionOK(session'[d], d, users')
    BY <1>1, <1>3, <1>4 DEF Inv, SessionsOK, SessionOK, AccountSession
  <2> QED
    BY <1>4, <2>1 DEF SessionsOK, SessionOK, PlayedOn
<1>6. DocsOK' /\ OneEach(c)' /\ OwnWrites(c)
  BY <1>1, ReadingKeeps
<1>7. created <= created'
  BY <1>1 DEF Inv, DocsOK
<1>8. CASE c \in Wii
  <2> DEFINE next == [op |-> "clear", client |-> c]
  <2>1. Continue(k, next) /\ call'[k] = next /\ next # Idle /\ next.client = c /\ CallOK(next, created')
    BY <1>1, <1>8 DEF Continue, Inv, CallsOK, CallOK, Idle
  <2>2. Relies(k)'
    BY <1>3, <1>4, <2>1 DEF Relies, AccountSession
  <2>3. NoRival(c)'
    BY <2>1 DEF NoRival
  <2> HIDE DEF next
  <2>4. Inv'
    BY <1>2, <1>4, <1>5, <1>6, <1>7, <2>1, <2>2, <2>3, HandlerStep
  <2> QED
    BY <1>1, <2>4
<1>9. CASE c \notin Wii
  <2>1. NoRival(c)'
    BY <1>9 DEF NoRival
  <2>2. call' = [call EXCEPT ![k] = Idle]
    BY <1>1, <1>2, <1>9 DEF Inv, CallsOK
  <2>3. CallOK(Idle, created')
    BY DEF CallOK, Idle
  <2>4. Inv'
    BY <1>2, <1>4, <1>5, <1>6, <1>7, <2>1, <2>2, <2>3, HandlerStep DEF Continue
  <2> QED
    BY <1>1, <2>4
<1> QED
  BY <1>8, <1>9

LEMMA LookupClearGood ==
  ASSUME Separate, Inv, NEW c \in Consoles, NEW k \in Calls, call[k].client = c, LookupClear(k)
  PROVE  Good(k, c)
<1> DEFINE name == session[c].name
           S == {id \in DOMAIN gatherings : gatherings[id].creator = name}
           next == [op |-> "transfer", client |-> c]
<1>1. /\ call[k].op = "clear"
      /\ gatherings' = Without(S)
      /\ Continue(k, next)
      /\ UNCHANGED <<created, users, session>>
  BY DEF LookupClear
<1>2. call[k] # Idle /\ Alone(k, c) /\ c \in Wii /\ name # c
  BY <1>1, CallerAlone DEF Idle, Inv, CallsOK, CallOK, Relies
<1>3. \A i \in S \cap DOMAIN gatherings : gatherings[i].creator \in Spelled(c)
  BY SessionOfConsole DEF Inv
<1>4. /\ DocsOK' /\ OneEach(c)' /\ OwnWrites(c)
      /\ DOMAIN gatherings' = DOMAIN gatherings \ S
      /\ \A i \in DOMAIN gatherings' : gatherings'[i] = gatherings[i]
  <2> HIDE DEF S
  <2> QED
    BY <1>1, <1>3, DeletingKeeps
<1>5. \A i \in DOMAIN gatherings' : gatherings'[i].creator # name
  BY <1>4
<1>6. NoRival(c)'
  BY <1>1, <1>5 DEF NoRival
<1>7. next # Idle /\ next.client = c /\ next # call[k] /\ CallOK(next, created')
  BY <1>1, <1>2 DEF Idle, CallOK
<1>8. Relies(k)'
  <2>1. call'[k] = next
    BY <1>1 DEF Continue, Inv, CallsOK
  <2> QED
    BY <1>1, <1>2, <1>5, <2>1 DEF Relies
<1>9. created <= created' /\ SessionsOK'
  BY <1>1, SameSessions DEF Inv, DocsOK
<1> HIDE DEF next
<1>10. Inv'
  BY <1>1, <1>2, <1>4, <1>6, <1>7, <1>8, <1>9, HandlerStep
<1> QED
  BY <1>1, <1>2, <1>4, <1>7, <1>10, AtWork DEF Good

LEMMA LookupTransferGood ==
  ASSUME Separate, Inv, NEW c \in Consoles, NEW k \in Calls, call[k].client = c, LookupTransfer(k)
  PROVE  Good(k, c)
<1> DEFINE name == session[c].name
           Handed(g) == [g EXCEPT !.creator = session[c].name, !.machine = NoMachine,
                                  !.owner = session[c].pid]
<1>1. /\ call[k].op = "transfer"
      /\ gatherings' = [id \in DOMAIN gatherings |->
                          IF gatherings[id].machine = c THEN Handed(gatherings[id])
                          ELSE gatherings[id]]
      /\ Continue(k, Idle)
      /\ UNCHANGED <<created, users, session>>
  BY DEF LookupTransfer, Return
<1>2. /\ call[k] # Idle /\ Alone(k, c) /\ c \in Wii /\ name # c
      /\ \A i \in DOMAIN gatherings : gatherings[i].creator # name
  <2>1. call[k].op = "transfer"
    BY <1>1
  <2>2. call[k] # Idle /\ Alone(k, c) /\ CallOK(call[k], created) /\ Relies(k)
    BY <2>1, CallerAlone DEF Idle, Inv, CallsOK
  <2> QED
    BY <2>1, <2>2 DEF CallOK, Relies
<1>3. /\ name \in Spelled(c) /\ name \in Names /\ name \notin Consoles
      /\ session[c].pid \in PlayedOn(c) /\ session[c].pid \in Consoles \cup Accounts
      /\ Spells(name, session[c].pid)
  BY <1>2, SessionOfConsole DEF Inv
<1>4. \A i \in DOMAIN gatherings : DocOK(gatherings[i])
  BY DEF Inv, DocsOK
<1>5. ASSUME NEW i \in DOMAIN gatherings, gatherings[i].machine = c
      PROVE  /\ gatherings'[i].creator = name /\ gatherings'[i].machine = NoMachine
             /\ DocOK(gatherings'[i])
             /\ gatherings[i].creator \in Spelled(c)
  <2> DEFINE doc == Handed(gatherings[i])
  <2>1. gatherings'[i] = doc
    BY <1>1, <1>5
  <2>2. gatherings[i] \in Gathering
    BY <1>4 DEF DocOK
  <2>3. /\ doc \in Gathering
        /\ doc.creator = name /\ doc.machine = NoMachine /\ doc.owner = session[c].pid
    BY <1>3, <2>2 DEF Gathering
  <2> HIDE DEF doc
  <2>4. DocOK(doc)
    BY <1>3, <2>3 DEF DocOK
  <2>5. gatherings[i].creator \in Spelled(c)
    BY <1>4, <1>5, HomeOfDoc
  <2> QED
    BY <2>1, <2>3, <2>4, <2>5
<1>6. /\ DOMAIN gatherings' = DOMAIN gatherings
      /\ \A i \in DOMAIN gatherings : gatherings[i].machine # c => gatherings'[i] = gatherings[i]
  BY <1>1
<1>7. DocsOK'
  <2>1. \A i \in DOMAIN gatherings' : DocOK(gatherings'[i])
    BY <1>4, <1>5, <1>6
  <2> QED
    BY <1>1, <1>6, <2>1 DEF Inv, DocsOK, DocOK
<1>8. OwnWrites(c)
  BY <1>3, <1>5, <1>6 DEF OwnWrites
<1>9. OneEach(c)'
  <2> SUFFICES ASSUME NEW i \in DOMAIN gatherings', NEW j \in DOMAIN gatherings',
                      gatherings'[i].creator \in Spelled(c),
                      \/ gatherings'[i].creator = gatherings'[j].creator /\ gatherings'[i].creator \in Steady
                      \/ /\ gatherings'[i].machine = gatherings'[j].machine
                         /\ gatherings'[i].machine # NoMachine
               PROVE  i = j
    BY DEF OneEach, Spelled, Steady, Names
  <2>1. CASE gatherings[i].machine = c /\ gatherings[j].machine = c
    BY <1>5, <1>6, <2>1, Distinct DEF Inv, OneEach
  <2>2. CASE gatherings[i].machine # c /\ gatherings[j].machine # c
    BY <1>6, <2>2 DEF Inv, OneEach
  <2>3. CASE gatherings[i].machine = c /\ gatherings[j].machine # c
    BY <1>2, <1>5, <1>6, <2>3
  <2>4. CASE gatherings[i].machine # c /\ gatherings[j].machine = c
    BY <1>2, <1>5, <1>6, <2>4
  <2> QED
    BY <2>1, <2>2, <2>3, <2>4
<1>10. NoRival(c)'
  <2>1. \A j \in DOMAIN gatherings' : gatherings'[j].machine # c
    BY <1>5, <1>6, Distinct
  <2> QED
    BY <2>1 DEF NoRival
<1>11. CallOK(Idle, created') /\ created <= created' /\ SessionsOK'
  <2>1. UNCHANGED <<created, users, session>>
    BY <1>1
  <2> QED
    BY <2>1, SameSessions DEF CallOK, Idle, Inv, DocsOK
<1>12. Inv'
  BY <1>1, <1>2, <1>7, <1>8, <1>9, <1>10, <1>11, HandlerStep
<1> QED
  BY <1>1, <1>2, <1>8, <1>12, AtWork DEF Good

LEMMA LookupTransferFailsGood ==
  ASSUME Separate, Inv, NEW c \in Consoles, NEW k \in Calls, call[k].client = c, LookupTransferFails(k)
  PROVE  Good(k, c)
<1>1. /\ call[k].op = "transfer"
      /\ Continue(k, Idle)
      /\ UNCHANGED <<gatherings, created, users, session>>
  BY DEF LookupTransferFails, Return
<1>2. call[k] # Idle /\ Alone(k, c) /\ call[k].op # "clear"
  BY <1>1, CallerAlone DEF Idle, Inv
<1> QED
  BY <1>1, <1>2, ReadingStep, AtWork DEF Good, CallOK, Idle

LEMMA FindReplyGood ==
  ASSUME Separate, Inv, NEW c \in Consoles, NEW k \in Calls, call[k].client = c, FindReply(k)
  PROVE  Good(k, c)
<1>1. /\ call[k].op = "reply"
      /\ Continue(k, Idle)
      /\ UNCHANGED <<gatherings, created, users, session>>
  BY DEF FindReply, Return
<1>2. call[k] # Idle /\ Alone(k, c) /\ call[k].op # "clear"
  BY <1>1, CallerAlone DEF Idle, Inv
<1> QED
  BY <1>1, <1>2, ReadingStep, AtWork DEF Good, CallOK, Idle

LEMMA FindAggregateKeeps ==
  ASSUME Separate, Inv, NEW c \in Consoles, NEW k \in Calls, FindAggregate(k, c)
  PROVE  Inv' /\ UNCHANGED <<gatherings, created>>
<1>1. PICK next :
        /\ next # Idle => next.op = "reply" /\ next.client = c
        /\ Continue(k, next)
  <2>1. PICK sample \in SUBSET {id \in DOMAIN gatherings : Matches(c, gatherings[id])} :
          IF sample = {} THEN UNCHANGED call
          ELSE Continue(k, [op |-> "reply", client |-> c,
                            hosts |-> [id \in sample |-> gatherings[id].creator]])
    BY DEF FindAggregate
  <2>2. CASE sample = {}
    <3>1. Continue(k, Idle)
      BY <2>1, <2>2 DEF FindAggregate, Accept, Inv, CallsOK, Continue
    <3> QED
      BY <3>1
  <2>3. CASE sample # {}
    BY <2>1, <2>3
  <2> QED
    BY <2>2, <2>3
<1>2. Accept(k, c) /\ UNCHANGED <<gatherings, created, users, session>>
  BY DEF FindAggregate
<1>3. call[k] = Idle /\ Alone(k, c) /\ call[k].op # "clear"
  BY <1>2, CallerAlone DEF Inv, Idle
<1>4. CallOK(next, created)
  BY <1>1 DEF CallOK, Idle
<1>5. next # Idle => next.client = c /\ Relies(k)'
  <2>1. call'[k] = next
    BY <1>1 DEF Continue, Inv, CallsOK
  <2> QED
    BY <1>1, <2>1 DEF Relies
<1> QED
  BY <1>1, <1>2, <1>3, <1>4, <1>5, ReadingStep

LEMMA ReconnectKeeps ==
  ASSUME Separate, Inv, NEW c \in Consoles, Reconnect(c)
  PROVE  Inv' /\ UNCHANGED <<gatherings, created>>
<1>1. /\ c \in Wii
      /\ \A k \in Calls : call[k] # Idle => call[k].client # c
      /\ session' = [session EXCEPT ![c] = MasterSession(c)]
      /\ UNCHANGED <<gatherings, created, users, call>>
  BY DEF Reconnect
<1>2. /\ session'[c] = MasterSession(c)
      /\ \A d \in Consoles \ {c} : session'[d] = session[d]
      /\ session' \in [Consoles -> Sessions]
  BY <1>1 DEF Inv, SessionsOK, MasterSession, Sessions, Names
<1>3. SessionsOK'
  <2>1. \A d \in Consoles : SessionOK(session'[d], d, users')
    BY <1>1, <1>2, Distinct DEF Inv, SessionsOK, SessionOK, MasterSession, PlayedOn, Spells
  <2> QED
    BY <1>2, <2>1 DEF SessionsOK, SessionOK, PlayedOn
<1>4. DocsOK' /\ OneEach(c)' /\ CallsOK'
  BY <1>1, ReadingKeeps DEF Inv, CallsOK, CallOK
<1>5. NoRival(c)'
  <2> SUFFICES ASSUME NEW i \in DOMAIN gatherings, NEW j \in DOMAIN gatherings,
                      gatherings[i].creator = c, gatherings[j].machine = c
               PROVE  i = j
    BY <1>1, <1>2 DEF NoRival, MasterSession
  <2>1. DocOK(gatherings[i]) /\ DocOK(gatherings[j])
    BY DEF Inv, DocsOK
  <2>2. gatherings[i].machine = c /\ gatherings[i].creator \in Spelled(c)
    BY <2>1, HomeOfDoc
  <2> QED
    BY <2>2, Distinct DEF Inv, OneEach
<1>6. OnlyOf({c}) /\ OnlyCallsOf({c})
  BY <1>1 DEF OnlyOf, OnlyCallsOf, Kept
<1>7. \A k \in Calls : ~(call'[k] # Idle /\ call'[k].client \in {c})
  BY <1>1
<1>8. Inv'
  BY <1>2, <1>3, <1>4, <1>5, <1>6, <1>7, LocalStep
<1> QED
  BY <1>1, <1>8

\* Time and housekeeping change ages and remove what has expired.
Faded ==
  /\ DOMAIN gatherings' \subseteq DOMAIN gatherings
  /\ \A id \in DOMAIN gatherings :
       IF id \in DOMAIN gatherings'
       THEN /\ [gatherings'[id] EXCEPT !.age = gatherings[id].age] = gatherings[id]
            /\ Kept(gatherings[id], gatherings'[id])
       ELSE gatherings[id].age = Expired

LEMMA FadingKeeps ==
  ASSUME Separate, Inv, Faded, DocsOK', UNCHANGED <<created, users, session, call>>
  PROVE  Inv'
<1>1. SessionsOK' /\ CallsOK'
  BY SameSessions DEF Inv, CallsOK, CallOK
<1>2. OnlyOf({}) /\ OnlyCallsOf({})
  BY DEF Faded, OnlyOf, OnlyCallsOf
<1> QED
  BY <1>1, <1>2, LocalStep

LEMMA AgeFades ==
  ASSUME Separate, Inv, NEW id \in IDs, Age(id)
  PROVE  Inv' /\ Faded
<1> DEFINE g == gatherings[id]
           doc == [g EXCEPT !.age = @ + 1]
<1>1. /\ id \in DOMAIN gatherings /\ g.age # Expired
      /\ gatherings' = [gatherings EXCEPT ![id].age = @ + 1]
      /\ UNCHANGED <<created, users, session, call>>
  BY DEF Age, Find
<1>2. DocOK(g) /\ g \in Gathering
  BY <1>1 DEF Inv, DocsOK, DocOK
<1>3. /\ DOMAIN gatherings' = DOMAIN gatherings
      /\ gatherings'[id] = doc
      /\ \A i \in DOMAIN gatherings \ {id} : gatherings'[i] = gatherings[i]
  BY <1>1
<1>4. /\ Kept(g, doc) /\ doc.owner = g.owner
      /\ doc \in Gathering
      /\ [doc EXCEPT !.age = g.age] = g
  <2>1. g.age \in {Fresh, Stale}
    BY <1>1, <1>2 DEF Gathering
  <2>2. g.age + 1 \in {Fresh, Stale, Expired}
    BY <2>1 DEF Fresh, Stale, Expired
  <2>3. doc \in Gathering
    BY <1>2, <2>2 DEF Gathering
  <2>4. [doc EXCEPT !.age = g.age] = g
    BY <1>2, <2>2 DEF Gathering
  <2>5. Kept(g, doc) /\ doc.owner = g.owner
    BY <1>2 DEF Kept, Gathering
  <2> QED
    BY <2>3, <2>4, <2>5
<1>5. DocOK(doc)
  BY <1>2, <1>4 DEF DocOK, Kept
<1> HIDE DEF doc
<1>6. \A i \in DOMAIN gatherings' : DocOK(gatherings'[i])
  BY <1>3, <1>5 DEF Inv, DocsOK
<1>7. DocsOK'
  BY <1>1, <1>3, <1>6 DEF Inv, DocsOK, DocOK
<1>8. \A i \in DOMAIN gatherings \ {id} :
        [gatherings'[i] EXCEPT !.age = gatherings[i].age] = gatherings[i]
  BY <1>3 DEF Inv, DocsOK, DocOK, Gathering
<1>9. Faded
  BY <1>1, <1>3, <1>4, <1>8 DEF Faded, Kept
<1> QED
  BY <1>1, <1>7, <1>9, FadingKeeps

LEMMA PruneFades ==
  ASSUME Separate, Inv, PruneOldSessions
  PROVE  Inv' /\ Faded
<1> DEFINE S == {id \in DOMAIN gatherings : gatherings[id].age = Expired}
<1>1. /\ gatherings' = Without(S)
      /\ UNCHANGED <<created, users, session, call>>
  BY DEF PruneOldSessions
<1>2. /\ DOMAIN gatherings' = DOMAIN gatherings \ S
      /\ \A i \in DOMAIN gatherings' : gatherings'[i] = gatherings[i]
  BY <1>1 DEF Without
<1>3. DocsOK'
  BY <1>1, <1>2 DEF Inv, DocsOK, DocOK
<1>4. \A i \in DOMAIN gatherings : [gatherings[i] EXCEPT !.age = gatherings[i].age] = gatherings[i]
  BY DEF Inv, DocsOK, DocOK, Gathering
<1>5. Faded
  BY <1>2, <1>4 DEF Faded, Kept
<1> QED
  BY <1>1, <1>3, <1>5, FadingKeeps
------------------------------------------------------------------------------
(* The theorems.                                                           *)

LEMMA InitInv ==
  ASSUME Separate, Init
  PROVE  Inv
<1>1. /\ gatherings = [id \in {} |-> {}] /\ DOMAIN gatherings = {}
      /\ created = 0
      /\ users = UNION {AccountsOf[c] : c \in Consoles \ Wii}
      /\ session \in [Consoles -> Sessions]
      /\ call = [k \in Calls |-> Idle]
      /\ \A c \in Consoles :
           IF c \in Wii THEN session[c] = MasterSession(c)
           ELSE \E a \in AccountsOf[c] : session[c] = AccountSession(a, a)
  BY DEF Init
<1>2. SessionsOK
  <2>1. ASSUME NEW c \in Wii PROVE SessionOK(session[c], c, users)
    BY <1>1, <2>1, Distinct DEF SessionOK, MasterSession, PlayedOn, Spells
  <2>2. ASSUME NEW c \in Consoles \ Wii PROVE SessionOK(session[c], c, users)
    <3>1. PICK a \in AccountsOf[c] : session[c] = AccountSession(a, a)
      BY <1>1
    <3>2. a \in users /\ a # c /\ Spells(a, a)
      BY <1>1, Distinct, ConsolesAssumption DEF Spells
    <3> QED
      BY <3>1, <3>2 DEF SessionOK, AccountSession, PlayedOn
  <2> QED
    BY <1>1, <2>1, <2>2 DEF SessionsOK
<1>3. DocsOK
  BY <1>1 DEF DocsOK
<1>4. CallsOK /\ \A k \in Calls : Relies(k)
  BY <1>1 DEF CallsOK, CallOK, Idle, Relies
<1>5. \A c \in Consoles : OneEach(c) /\ NoRival(c)
  BY <1>1 DEF OneEach, NoRival
<1> QED
  BY <1>2, <1>3, <1>4, <1>5 DEF Inv

\* A step is good for the console that makes it, or does not write gatherings, or is of
\* time and housekeeping.
LEMMA StepGood ==
  ASSUME Separate, Inv, Next
  PROVE  /\ Inv'
         /\ \/ UNCHANGED <<gatherings, created>>
            \/ Faded /\ UNCHANGED created
            \/ \E k \in Calls, c \in Consoles : Good(k, c)
<1>1. CASE BeginCall
  <2>1. PICK k \in Calls, c \in Consoles :
          \/ RegisterClear(k, c)
          \/ FindAggregate(k, c)
          \/ \E a \in AccountsOf[c] : LookupAccount(k, c, a)
          \/ \E id \in IDs : UpdateFind(k, c, id) \/ SetStateFind(k, c, id) \/ TerminateFind(k, c, id)
    BY <1>1 DEF BeginCall
  <2>2. CASE RegisterClear(k, c)
    BY <2>2, RegisterClearGood DEF Good
  <2>3. CASE FindAggregate(k, c)
    BY <2>3, FindAggregateKeeps
  <2>4. CASE \E a \in AccountsOf[c] : LookupAccount(k, c, a)
    BY <2>4, LookupAccountGood
  <2>5. CASE \E id \in IDs : UpdateFind(k, c, id) \/ SetStateFind(k, c, id) \/ TerminateFind(k, c, id)
    BY <2>5, FindsGood DEF Good
  <2> QED
    BY <2>1, <2>2, <2>3, <2>4, <2>5
<1>2. CASE \E k \in Calls : FinishCall(k)
  <2>1. PICK k \in Calls : FinishCall(k)
    BY <1>2
  <2>2. call[k].op # "idle"
    BY <2>1 DEF FinishCall, RegisterInsert, UpdateWrite, SetStateWrite, TerminateDelete,
                LookupClear, LookupTransfer, LookupTransferFails, FindReply
  <2>3. PICK c \in Consoles : call[k].client = c
    BY <2>2, CallerAlone DEF Inv, Idle
  <2>4. Good(k, c)
    BY <2>1, <2>3, RegisterInsertGood, UpdateWriteGood, SetStateWriteGood, TerminateDeleteGood,
       LookupClearGood, LookupTransferGood, LookupTransferFailsGood, FindReplyGood DEF FinishCall
  <2> QED
    BY <2>4 DEF Good
<1>3. CASE \E c \in Consoles : Reconnect(c)
  BY <1>3, ReconnectKeeps
<1>4. CASE \E id \in IDs : Age(id)
  BY <1>4, AgeFades DEF Age
<1>5. CASE PruneOldSessions
  BY <1>5, PruneFades DEF PruneOldSessions
<1> QED
  BY <1>1, <1>2, <1>3, <1>4, <1>5 DEF Next

LEMMA InvHolds ==
  ASSUME Separate
  PROVE  Spec => []Inv
<1>1. Init => Inv
  BY InitInv
<1>2. Inv /\ [Next]_vars => Inv'
  <2>1. ASSUME Inv, Next PROVE Inv'
    BY <2>1, StepGood
  <2>2. ASSUME Inv, UNCHANGED vars PROVE Inv'
    BY <2>2 DEF vars, Inv, SessionsOK, SessionOK, DocsOK, DocOK, CallsOK, CallOK, OneEach, NoRival,
                Relies, Holds, Spelled, Steady, Names
  <2> QED
    BY <2>1, <2>2
<1> QED
  BY <1>1, <1>2, PTL DEF Spec

\* No player ever has two gatherings, and no machine two that wait to be handed over,
\* however the calls of different consoles interleave (registergathering.go:48,
\* lookuporcreateaccount.go:119).
THEOREM OneEachAlways ==
  ASSUME Separate
  PROVE  Spec => []OneGatheringEach
<1>1. Inv => OneGatheringEach
  <2> SUFFICES ASSUME Inv, NEW i \in DOMAIN gatherings, NEW j \in DOMAIN gatherings,
                      \/ gatherings[i].creator = gatherings[j].creator /\ gatherings[i].creator \in Steady
                      \/ gatherings[i].machine = gatherings[j].machine /\ gatherings[i].machine # NoMachine
               PROVE  i = j
    BY DEF OneGatheringEach
  <2>1. PICK c \in Consoles : gatherings[i].creator \in Spelled(c)
    BY HomeOfDoc DEF Inv, DocsOK, DocOK
  <2> QED
    BY <2>1 DEF Inv, OneEach
<1> QED
  BY <1>1, InvHolds, PTL

\* The player a gathering belongs to passes the ownership check on it as long as it
\* carries the registered name (updategathering.go:53), and a Master User always.
THEOREM OwnersPass ==
  ASSUME Separate
  PROVE  Spec => []OwnerPassesCheck
<1>1. Inv => OwnerPassesCheck
  <2> SUFFICES ASSUME Inv, NEW id \in DOMAIN gatherings, NEW c \in Consoles,
                      gatherings[id].owner = session[c].pid,
                      gatherings[id].creator \in Consoles \cup Accounts
               PROVE  Owns(c, gatherings[id])
    BY DEF OwnerPassesCheck
  <2>1. DocOK(gatherings[id]) /\ SessionOK(session[c], c, users)
    BY DEF Inv, DocsOK, SessionsOK
  <2>2. CASE session[c].pid \in Accounts
    <3>1. gatherings[id].creator \in Spellings[session[c].pid]
      BY <2>1, <2>2 DEF DocOK, Spells
    <3>2. gatherings[id].creator \in Accounts
      BY <2>2, <3>1, ConsolesAssumption
    <3>3. gatherings[id].creator = session[c].pid
      BY <2>2, <3>1, <3>2, ConsolesAssumption
    <3>4. session[c].pid \in users
      BY <2>1, <2>2, Distinct DEF SessionOK
    <3> QED
      BY <3>3, <3>4 DEF Owns, UsernameForPID
  <2>3. CASE session[c].pid \notin Accounts
    <3>1. session[c].pid = c /\ c \in Wii
      BY <2>1, <2>3, Distinct DEF SessionOK, PlayedOn
    <3>2. gatherings[id].machine = c
      BY <2>1, <2>3, <3>1 DEF DocOK, Spells
    <3> QED
      BY <3>1, <3>2, Distinct DEF Owns, MachineID
  <2> QED
    BY <2>2, <2>3
<1> QED
  BY <1>1, InvHolds, PTL

\* A gathering changes only through a call of the console it belongs to, disappears
\* otherwise only when it has expired, and does not come back, although each write
\* relies on a check made before other handlers ran (updategathering.go:85,
\* terminategathering.go:55).
THEOREM OwnConsoleWrites ==
  ASSUME Separate
  PROVE  Spec => OnlyItsConsoleWrites
<1> DEFINE Written(id) ==
             LET g == gatherings[id] IN
             IF id \in DOMAIN gatherings'
             THEN [gatherings'[id] EXCEPT !.age = g.age] # g
             ELSE g.age # Expired
           Own ==
             /\ \A id \in 1 .. created : id \notin DOMAIN gatherings => id \notin DOMAIN gatherings'
             /\ \A id \in DOMAIN gatherings :
                  Written(id) =>
                    \E k \in Calls : Acting(k) /\ gatherings[id].owner \in PlayedOn(ActingConsole(k))
<1>1. ASSUME Inv PROVE \A id \in DOMAIN gatherings :
                         /\ [gatherings[id] EXCEPT !.age = gatherings[id].age] = gatherings[id]
                         /\ DocOK(gatherings[id])
  BY <1>1 DEF Inv, DocsOK, DocOK, Gathering
<1>2. ASSUME Inv, UNCHANGED gatherings PROVE Own
  BY <1>1, <1>2
<1>3. ASSUME Inv, Faded PROVE Own
  BY <1>3 DEF Faded
<1>4. ASSUME Inv, NEW k \in Calls, NEW c \in Consoles, Good(k, c) PROVE Own
  <2>1. \A id \in 1 .. created : id \notin DOMAIN gatherings => id \notin DOMAIN gatherings'
    BY <1>4 DEF Good, OwnWrites
  <2>2. ASSUME NEW id \in DOMAIN gatherings, Written(id)
        PROVE  Acting(k) /\ gatherings[id].owner \in PlayedOn(ActingConsole(k))
    <3>1. ~(id \in DOMAIN gatherings' /\ gatherings'[id] = gatherings[id])
      BY <1>1, <1>4, <2>2
    <3>2. gatherings[id].creator \in Spelled(c)
      BY <1>4, <3>1 DEF Good, OwnWrites
    <3>3. gatherings[id].owner \in PlayedOn(c)
      BY <1>1, <1>4, <3>2, HomeOfDoc
    <3> QED
      BY <1>4, <3>3 DEF Good
  <2> QED
    BY <2>1, <2>2
<1>5. Inv /\ [Next]_vars => [Own]_vars
  <2>1. ASSUME Inv, Next PROVE Own
    <3> HIDE DEF Own
    <3> QED
      BY <1>2, <1>3, <1>4, <2>1, StepGood
  <2> QED
    BY <2>1
<1> HIDE DEF Own
<1>6. Spec => [][Own]_vars
  BY <1>5, InvHolds, PTL DEF Spec
<1> QED
  BY <1>6 DEF OnlyItsConsoleWrites, Own
------------------------------------------------------------------------------
(* Types.  The bound holds because a registration is counted from the      *)
(* beginning of the call; none of this needs Separate.                     *)

Inserting == {k \in Calls : call[k].op = "insert"}

Bounded ==
  /\ IsFiniteSet(Inserting)
  /\ created + Cardinality(Inserting) <= MaxGatherings

TypeInv == TypeOK /\ Bounded

\* A call's record is of its operation's kind.
LEMMA RecordOfOp ==
  ASSUME NEW r \in CallRecords
  PROVE  /\ r.op = "insert" => r \in [op : {"insert"}, client : Consoles]
         /\ r.op = "update" => r \in [op : {"update"}, client : Consoles, id : IDs, public : BOOLEAN]
         /\ r.op = "setstate" =>
              r \in [op : {"setstate"}, client : Consoles, id : IDs, state : SessionStates]
         /\ r.op \in {"clear", "transfer"} => r \in [op : {"clear", "transfer"}, client : Wii]
  BY DEF CallRecords, Idle

LEMMA IdleIsRecord == Idle \in CallRecords /\ Idle.op = "idle"
  BY DEF CallRecords, Idle

LEMMA CallsChange ==
  ASSUME TypeInv, NEW k \in Calls, NEW next \in CallRecords, Continue(k, next)
  PROVE  /\ call' \in [Calls -> CallRecords]
         /\ call'[k] = next
         /\ \A m \in Calls \ {k} : call'[m] = call[m]
  BY DEF TypeInv, TypeOK, Continue

\* A step that neither begins nor ends a registration.
LEMMA QuietCalls ==
  ASSUME TypeInv, NEW k \in Calls, NEW next \in CallRecords, Continue(k, next),
         call[k].op # "insert", next.op # "insert", UNCHANGED created
  PROVE  call' \in [Calls -> CallRecords] /\ Bounded'
<1>1. Inserting' = Inserting
  BY CallsChange DEF Inserting
<1> QED
  BY <1>1, CallsChange DEF TypeInv, Bounded

LEMMA QuietElse ==
  ASSUME TypeInv, UNCHANGED <<created, call>>
  PROVE  call' \in [Calls -> CallRecords] /\ Bounded'
<1>1. Inserting' = Inserting
  BY DEF Inserting
<1> QED
  BY <1>1 DEF TypeInv, Bounded, TypeOK

\* A step that writes no document but may remove some.
LEMMA RemovingDocs ==
  ASSUME TypeInv, NEW S, gatherings' \in {gatherings, Without(S)}, UNCHANGED created
  PROVE  /\ DOMAIN gatherings' \subseteq 1 .. created'
         /\ gatherings' \in [DOMAIN gatherings' -> Gathering]
  BY DEF TypeInv, TypeOK, Without

LEMMA RewritingDoc ==
  ASSUME TypeInv, NEW id, NEW doc \in Gathering, UNCHANGED created,
         gatherings' = IF Find(id) THEN SetFields(id, doc) ELSE gatherings
  PROVE  /\ DOMAIN gatherings' \subseteq 1 .. created'
         /\ gatherings' \in [DOMAIN gatherings' -> Gathering]
  BY DEF TypeInv, TypeOK, Find, SetFields

LEMMA InitTyped == Init => TypeInv
<1> SUFFICES ASSUME Init PROVE TypeInv
  OBVIOUS
<1>1. created = 0 /\ created \in 0 .. MaxGatherings /\ DOMAIN gatherings \subseteq 1 .. created
  BY ConsolesAssumption DEF Init
<1>2. gatherings \in [DOMAIN gatherings -> Gathering]
  BY DEF Init
<1>3. \A c \in Consoles \ Wii : AccountsOf[c] \subseteq Accounts
  BY ConsolesAssumption
<1>4. users \in SUBSET Accounts
  BY <1>3 DEF Init
<1>5. session \in [Consoles -> Sessions] /\ call \in [Calls -> CallRecords]
  BY IdleIsRecord DEF Init
<1>6. Inserting = {}
  BY IdleIsRecord DEF Init, Inserting
<1>7. Bounded
  BY <1>1, <1>6, FS_EmptySet DEF Bounded
<1> QED
  BY <1>1, <1>2, <1>4, <1>5, <1>7 DEF TypeInv, TypeOK

LEMMA RegisterTyped ==
  ASSUME TypeInv, NEW k \in Calls
  PROVE  /\ \A c \in Consoles : RegisterClear(k, c) => TypeInv'
         /\ RegisterInsert(k) => TypeInv'
<1>1. ASSUME NEW c \in Consoles, RegisterClear(k, c) PROVE TypeInv'
  <2> DEFINE stale == {id \in DOMAIN gatherings :
                    \/ gatherings[id].creator = session[c].name
                    \/ MachineID(c) # NoMachine /\ gatherings[id].machine = MachineID(c)}
  <2> DEFINE next == [op |-> "insert", client |-> c]
  <2>1. Continue(k, next)
    BY <1>1 DEF RegisterClear
  <2>2. gatherings' = Without(stale) /\ UNCHANGED <<created, users, session>> /\ MoreGatherings /\ call[k] = Idle
    BY <1>1 DEF RegisterClear, Accept
  <2>3. next \in CallRecords /\ next.op = "insert"
    BY DEF CallRecords
  <2> HIDE DEF stale, next
  <2>4. /\ call' \in [Calls -> CallRecords]
        /\ call'[k] = next
        /\ \A m \in Calls \ {k} : call'[m] = call[m]
    BY <2>1, <2>3, CallsChange DEF next
  <2>5. Inserting' = Inserting \cup {k} /\ k \notin Inserting
    BY <2>2, <2>3, <2>4, IdleIsRecord DEF Inserting
  <2>6. created + Cardinality(Inserting) < MaxGatherings
    BY <2>2 DEF MoreGatherings, Inserting
  <2>7. Bounded'
    <3>1. IsFiniteSet(Inserting) /\ Cardinality(Inserting) \in Nat
      BY FS_CardinalityType DEF TypeInv, Bounded
    <3>2. IsFiniteSet(Inserting') /\ Cardinality(Inserting') = Cardinality(Inserting) + 1
      BY <2>5, <3>1, FS_AddElement
    <3>3. created + (Cardinality(Inserting) + 1) <= MaxGatherings
      BY <2>6, <3>1, ConsolesAssumption DEF TypeInv, TypeOK
    <3> QED
      BY <2>2, <3>2, <3>3 DEF Bounded
  <2>8. DOMAIN gatherings' \subseteq 1 .. created' /\ gatherings' \in [DOMAIN gatherings' -> Gathering]
    BY <2>2, RemovingDocs
  <2> QED
    BY <2>2, <2>4, <2>7, <2>8 DEF TypeInv, TypeOK
<1>2. ASSUME RegisterInsert(k) PROVE TypeInv'
  <2> DEFINE c == call[k].client
             doc == [creator |-> session[c].name, machine |-> MachineID(c),
                     public |-> FALSE, state |-> 0, age |-> Fresh, console |-> Platform[c],
                     owner |-> session[c].pid]
  <2>1. call[k] \in [op : {"insert"}, client : Consoles]
    BY <1>2, RecordOfOp DEF RegisterInsert, TypeInv, TypeOK
  <2>2. c \in Consoles /\ session[c] \in Sessions
    BY <2>1 DEF TypeInv, TypeOK
  <2>3. MachineID(c) \in Wii \cup {NoMachine} /\ Platform[c] \in 0 .. 3 /\ 0 \in SessionStates
    BY <2>2, ConsolesAssumption DEF MachineID
  <2>4. doc \in Gathering
    BY <2>2, <2>3 DEF Gathering, Sessions, Fresh
  <2>5. /\ created' = created + 1 /\ Continue(k, Idle) /\ UNCHANGED <<users, session>>
        /\ gatherings' = [i \in DOMAIN gatherings \cup {created'} |->
                            IF i = created' THEN doc ELSE gatherings[i]]
    BY <1>2 DEF RegisterInsert, Return
  <2> HIDE DEF doc
  <2>6. call' \in [Calls -> CallRecords] /\ call'[k] = Idle /\ \A m \in Calls \ {k} : call'[m] = call[m]
    BY <2>5, CallsChange, IdleIsRecord
  <2>7. Inserting' = Inserting \ {k} /\ k \in Inserting
    BY <1>2, <2>6, IdleIsRecord DEF Inserting, RegisterInsert
  <2>8. /\ IsFiniteSet(Inserting') /\ created' + Cardinality(Inserting') <= MaxGatherings
        /\ created' \in 0 .. MaxGatherings
    <3>1. IsFiniteSet(Inserting) /\ Cardinality(Inserting) \in Nat
      BY FS_CardinalityType DEF TypeInv, Bounded
    <3>2. IsFiniteSet(Inserting') /\ Cardinality(Inserting') = Cardinality(Inserting) - 1
      BY <2>7, <3>1, FS_RemoveElement
    <3>3. Cardinality(Inserting') \in Nat
      BY <3>2, FS_CardinalityType
    <3>4. created \in Nat /\ created + Cardinality(Inserting) <= MaxGatherings /\ MaxGatherings \in Nat
      BY ConsolesAssumption DEF TypeInv, TypeOK, Bounded
    <3> QED
      BY <2>5, <3>1, <3>2, <3>3, <3>4
  <2>9. DOMAIN gatherings' \subseteq 1 .. created' /\ gatherings' \in [DOMAIN gatherings' -> Gathering]
    BY <2>4, <2>5 DEF TypeInv, TypeOK
  <2> QED
    BY <2>5, <2>6, <2>8, <2>9 DEF TypeInv, TypeOK, Bounded
<1> QED
  BY <1>1, <1>2

\* The handlers that look for a gathering.
LEMMA FindsTyped ==
  ASSUME TypeInv, NEW k \in Calls, NEW c \in Consoles
  PROVE  /\ \A id \in IDs : UpdateFind(k, c, id) \/ SetStateFind(k, c, id) \/ TerminateFind(k, c, id) => TypeInv'
         /\ FindAggregate(k, c) => TypeInv'
<1>1. ASSUME NEW next \in CallRecords, next.op # "insert", Continue(k, next), call[k] = Idle,
             UNCHANGED <<gatherings, created, users, session>>
      PROVE  TypeInv'
  <2>1. call' \in [Calls -> CallRecords] /\ Bounded'
    BY <1>1, QuietCalls, IdleIsRecord
  <2> QED
    BY <1>1, <2>1 DEF TypeInv, TypeOK
<1>2. ASSUME NEW id \in IDs, UpdateFind(k, c, id) PROVE TypeInv'
  <2>1. PICK public \in BOOLEAN :
           Continue(k, [op |-> "update", client |-> c, id |-> id, public |-> public])
    BY <1>2 DEF UpdateFind
  <2>2. [op |-> "update", client |-> c, id |-> id, public |-> public] \in CallRecords
    BY DEF CallRecords
  <2> QED
    BY <1>1, <1>2, <2>1, <2>2 DEF UpdateFind, Accept
<1>3. ASSUME NEW id \in IDs, SetStateFind(k, c, id) PROVE TypeInv'
  <2>1. PICK state \in SessionStates :
           Continue(k, [op |-> "setstate", client |-> c, id |-> id, state |-> state])
    BY <1>3 DEF SetStateFind
  <2>2. [op |-> "setstate", client |-> c, id |-> id, state |-> state] \in CallRecords
    BY DEF CallRecords
  <2> QED
    BY <1>1, <1>3, <2>1, <2>2 DEF SetStateFind, Accept
<1>4. ASSUME NEW id \in IDs, TerminateFind(k, c, id) PROVE TypeInv'
  <2>1. [op |-> "terminate", client |-> c, id |-> id] \in CallRecords
    BY DEF CallRecords
  <2> QED
    BY <1>1, <1>4, <2>1 DEF TerminateFind, Accept
<1>5. ASSUME FindAggregate(k, c) PROVE TypeInv'
  <2> DEFINE matching == {id \in DOMAIN gatherings : Matches(c, gatherings[id])}
             Reply(sample) == [op |-> "reply", client |-> c,
                               hosts |-> [id \in sample |-> gatherings[id].creator]]
  <2>1. PICK sample \in SUBSET matching :
           IF sample = {} THEN UNCHANGED call ELSE Continue(k, Reply(sample))
    BY <1>5 DEF FindAggregate
  <2>2. UNCHANGED <<gatherings, created, users, session>> /\ call[k] = Idle
    BY <1>5 DEF FindAggregate, Accept
  <2>3. CASE UNCHANGED call
    BY <2>2, <2>3, QuietElse DEF TypeInv, TypeOK
  <2>4. CASE Continue(k, Reply(sample))
    <3>1. sample \in SUBSET IDs
      BY ConsolesAssumption DEF TypeInv, TypeOK, IDs
    <3>2. [id \in sample |-> gatherings[id].creator] \in [sample -> Names]
      BY DEF TypeInv, TypeOK, Gathering
    <3>3. Reply(sample) \in CallRecords /\ Reply(sample).op # "insert"
      BY <3>1, <3>2 DEF CallRecords
    <3> QED
      BY <1>1, <2>2, <2>4, <3>3
  <2> QED
    BY <2>1, <2>3, <2>4
<1> QED
  BY <1>2, <1>3, <1>4, <1>5

\* The writes of UpdateGathering, SetState and TerminateGathering, and the answer to
\* a search.
LEMMA WritesTyped ==
  ASSUME TypeInv, NEW k \in Calls
  PROVE  UpdateWrite(k) \/ SetStateWrite(k) \/ TerminateDelete(k) \/ FindReply(k) => TypeInv'
<1>1. ASSUME Return(k), call[k].op # "insert", UNCHANGED <<created, users, session>>,
             DOMAIN gatherings' \subseteq 1 .. created', gatherings' \in [DOMAIN gatherings' -> Gathering]
      PROVE  TypeInv'
  <2>1. call' \in [Calls -> CallRecords] /\ Bounded'
    BY <1>1, QuietCalls, IdleIsRecord DEF Return
  <2> QED
    BY <1>1, <2>1 DEF TypeInv, TypeOK
<1>2. ASSUME UpdateWrite(k) PROVE TypeInv'
  <2> DEFINE c == call[k].client
             id == call[k].id
             doc == [gatherings[id] EXCEPT
                       !.public = call[k].public, !.age = Fresh,
                       !.owner = session[c].pid,
                       !.creator = session[c].name,
                       !.machine = IF IsMaster(c) THEN @ ELSE NoMachine]
  <2>1. call[k] \in [op : {"update"}, client : Consoles, id : IDs, public : BOOLEAN]
    BY <1>2, RecordOfOp DEF UpdateWrite, TypeInv, TypeOK
  <2>2. c \in Consoles /\ call[k].public \in BOOLEAN /\ session[c] \in Sessions
    BY <2>1 DEF TypeInv, TypeOK
  <2>3. Find(id) => doc \in Gathering
    <3>1. Find(id) => gatherings[id] \in Gathering
      BY DEF TypeInv, TypeOK, Find
    <3> QED
      BY <2>2, <3>1 DEF Gathering, Sessions, Fresh
  <2>4. gatherings' = IF Find(id) THEN SetFields(id, doc) ELSE gatherings
    BY <1>2 DEF UpdateWrite
  <2>5. Return(k) /\ call[k].op # "insert" /\ UNCHANGED <<created, users, session>>
    BY <1>2 DEF UpdateWrite
  <2> HIDE DEF doc, id
  <2> QED
    BY <1>1, <2>3, <2>4, <2>5, RewritingDoc, RemovingDocs
<1>3. ASSUME SetStateWrite(k) PROVE TypeInv'
  <2> DEFINE id == call[k].id
             doc == [gatherings[id] EXCEPT !.state = call[k].state, !.age = Fresh]
  <2>1. call[k] \in [op : {"setstate"}, client : Consoles, id : IDs, state : SessionStates]
    BY <1>3, RecordOfOp DEF SetStateWrite, TypeInv, TypeOK
  <2>2. Find(id) => doc \in Gathering
    <3>1. Find(id) => gatherings[id] \in Gathering
      BY DEF TypeInv, TypeOK, Find
    <3> QED
      BY <2>1, <3>1 DEF Gathering, Fresh
  <2>3. gatherings' = IF Find(id) THEN SetFields(id, doc) ELSE gatherings
    BY <1>3 DEF SetStateWrite
  <2>4. Return(k) /\ call[k].op # "insert" /\ UNCHANGED <<created, users, session>>
    BY <1>3 DEF SetStateWrite
  <2> HIDE DEF doc, id
  <2> QED
    BY <1>1, <2>2, <2>3, <2>4, RewritingDoc, RemovingDocs
<1>4. ASSUME TerminateDelete(k) PROVE TypeInv'
  <2>1. Return(k) /\ call[k].op # "insert" /\ UNCHANGED <<created, users, session>>
    BY <1>4 DEF TerminateDelete
  <2>2. gatherings' = Without({call[k].id})
    BY <1>4 DEF TerminateDelete
  <2> QED
    BY <1>1, <2>1, <2>2, RemovingDocs
<1>5. ASSUME FindReply(k) PROVE TypeInv'
  <2>1. Return(k) /\ call[k].op # "insert" /\ UNCHANGED <<created, users, session, gatherings>>
    BY <1>5 DEF FindReply
  <2> QED
    BY <1>1, <2>1, RemovingDocs
<1> QED
  BY <1>2, <1>3, <1>4, <1>5

\* LookupOrCreateAccount.
LEMMA LookupTyped ==
  ASSUME TypeInv, NEW k \in Calls
  PROVE  /\ \A c \in Consoles : \A a \in AccountsOf[c] : LookupAccount(k, c, a) => TypeInv'
         /\ LookupClear(k) \/ LookupTransfer(k) \/ LookupTransferFails(k) => TypeInv'
<1>1. ASSUME NEW c \in Consoles, NEW a \in AccountsOf[c], LookupAccount(k, c, a) PROVE TypeInv'
  <2>1. a \in Accounts
    BY ConsolesAssumption
  <2>2. PICK spelling \in Spellings[a] : session' = [session EXCEPT ![c] = AccountSession(a, spelling)]
    BY <1>1 DEF LookupAccount
  <2>3. AccountSession(a, spelling) \in Sessions
    <3>1. spelling \in Names
      BY <2>1, <2>2 DEF Names
    <3> QED
      BY <2>1, <3>1 DEF AccountSession, Sessions
  <2>4. session' \in [Consoles -> Sessions]
    BY <2>2, <2>3 DEF TypeInv, TypeOK
  <2>5. users' \in SUBSET Accounts /\ UNCHANGED <<gatherings, created>> /\ call[k] = Idle
    BY <1>1, <2>1 DEF LookupAccount, Accept, TypeInv, TypeOK
  <2>6. call' \in [Calls -> CallRecords] /\ Bounded'
    <3>1. CASE c \in Wii
      <4>1. [op |-> "clear", client |-> c] \in CallRecords
        BY <3>1 DEF CallRecords
      <4>2. Continue(k, [op |-> "clear", client |-> c])
        BY <1>1, <3>1 DEF LookupAccount
      <4> QED
        BY <2>5, <4>1, <4>2, QuietCalls, IdleIsRecord
    <3>2. CASE c \notin Wii
      BY <1>1, <2>5, <3>2, QuietElse DEF LookupAccount
    <3> QED
      BY <3>1, <3>2
  <2> QED
    BY <2>4, <2>5, <2>6 DEF TypeInv, TypeOK
<1>2. ASSUME LookupClear(k) PROVE TypeInv'
  <2> DEFINE own == {id \in DOMAIN gatherings : gatherings[id].creator = session[call[k].client].name}
             next == [op |-> "transfer", client |-> call[k].client]
  <2>1. call[k] \in [op : {"clear", "transfer"}, client : Wii]
    BY <1>2, RecordOfOp DEF LookupClear, TypeInv, TypeOK
  <2>2. next \in CallRecords /\ next.op # "insert"
    BY <2>1 DEF CallRecords
  <2>3. gatherings' = Without(own) /\ UNCHANGED <<created, users, session>>
    BY <1>2 DEF LookupClear
  <2>4. Continue(k, next) /\ call[k].op # "insert"
    BY <1>2 DEF LookupClear
  <2> HIDE DEF own, next
  <2>5. call' \in [Calls -> CallRecords] /\ Bounded'
    BY <2>2, <2>3, <2>4, QuietCalls
  <2>6. DOMAIN gatherings' \subseteq 1 .. created' /\ gatherings' \in [DOMAIN gatherings' -> Gathering]
    BY <2>3, RemovingDocs
  <2> QED
    BY <2>3, <2>5, <2>6 DEF TypeInv, TypeOK
<1>3. ASSUME LookupTransfer(k) PROVE TypeInv'
  <2> DEFINE c == call[k].client
             Handed(g) == IF g.machine = c
                          THEN [g EXCEPT !.creator = session[c].name, !.machine = NoMachine,
                                         !.owner = session[c].pid]
                          ELSE g
  <2>1. call[k] \in [op : {"clear", "transfer"}, client : Wii]
    BY <1>3, RecordOfOp DEF LookupTransfer, TypeInv, TypeOK
  <2>2. c \in Consoles /\ session[c] \in Sessions
    BY <2>1, ConsolesAssumption DEF TypeInv, TypeOK
  <2>3. \A g \in Gathering : Handed(g) \in Gathering
    BY <2>2 DEF Gathering, Sessions
  <2>4. gatherings' = [id \in DOMAIN gatherings |-> Handed(gatherings[id])]
    BY <1>3 DEF LookupTransfer
  <2>5. Return(k) /\ call[k].op # "insert" /\ UNCHANGED <<created, users, session>>
    BY <1>3 DEF LookupTransfer
  <2> HIDE DEF Handed
  <2>6. DOMAIN gatherings' \subseteq 1 .. created' /\ gatherings' \in [DOMAIN gatherings' -> Gathering]
    BY <2>3, <2>4, <2>5 DEF TypeInv, TypeOK
  <2>7. call' \in [Calls -> CallRecords] /\ Bounded'
    BY <2>5, QuietCalls, IdleIsRecord DEF Return
  <2> QED
    BY <2>5, <2>6, <2>7 DEF TypeInv, TypeOK
<1>4. ASSUME LookupTransferFails(k) PROVE TypeInv'
  <2>1. Return(k) /\ call[k].op # "insert" /\ UNCHANGED <<gatherings, created, users, session>>
    BY <1>4 DEF LookupTransferFails
  <2>2. call' \in [Calls -> CallRecords] /\ Bounded'
    BY <2>1, QuietCalls, IdleIsRecord DEF Return
  <2> QED
    BY <2>1, <2>2 DEF TypeInv, TypeOK
<1> QED
  BY <1>1, <1>2, <1>3, <1>4

\* Reconnecting, time and housekeeping.
LEMMA ElseTyped ==
  ASSUME TypeInv
  PROVE  /\ \A c \in Consoles : Reconnect(c) => TypeInv'
         /\ \A id \in IDs : Age(id) => TypeInv'
         /\ PruneOldSessions => TypeInv'
<1>1. ASSUME NEW c \in Consoles, Reconnect(c) PROVE TypeInv'
  <2>1. MasterSession(c) \in Sessions
    BY DEF MasterSession, Sessions, Names
  <2>2. session' \in [Consoles -> Sessions] /\ UNCHANGED <<gatherings, created, users, call>>
    BY <1>1, <2>1 DEF Reconnect, TypeInv, TypeOK
  <2> QED
    BY <2>2, QuietElse DEF TypeInv, TypeOK
<1>2. ASSUME NEW id \in IDs, Age(id) PROVE TypeInv'
  <2> DEFINE doc == [gatherings[id] EXCEPT !.age = @ + 1]
  <2>1. Find(id) /\ UNCHANGED <<created, users, session, call>>
    BY <1>2 DEF Age
  <2>2. gatherings' = SetFields(id, doc)
    BY <1>2 DEF Age, SetFields
  <2>3. gatherings[id] \in Gathering /\ gatherings[id].age # Expired
    BY <1>2 DEF Age, Find, TypeInv, TypeOK
  <2>4. gatherings[id].age + 1 \in {Fresh, Stale, Expired}
    BY <2>3 DEF Gathering, Fresh, Stale, Expired
  <2>5. doc \in Gathering
    BY <2>3, <2>4 DEF Gathering
  <2> HIDE DEF doc
  <2>6. DOMAIN gatherings' \subseteq 1 .. created' /\ gatherings' \in [DOMAIN gatherings' -> Gathering]
    BY <2>1, <2>2, <2>5, RewritingDoc
  <2> QED
    BY <2>1, <2>6, QuietElse DEF TypeInv, TypeOK
<1>3. ASSUME PruneOldSessions PROVE TypeInv'
  <2> DEFINE old == {id \in DOMAIN gatherings : gatherings[id].age = Expired}
  <2>1. gatherings' = Without(old) /\ UNCHANGED <<created, users, session, call>>
    BY <1>3 DEF PruneOldSessions
  <2> HIDE DEF old
  <2>2. DOMAIN gatherings' \subseteq 1 .. created' /\ gatherings' \in [DOMAIN gatherings' -> Gathering]
    BY <2>1, RemovingDocs
  <2> QED
    BY <2>1, <2>2, QuietElse DEF TypeInv, TypeOK
<1> QED
  BY <1>1, <1>2, <1>3

LEMMA TypesKept == TypeInv /\ [Next]_vars => TypeInv'
<1> SUFFICES ASSUME TypeInv, [Next]_vars PROVE TypeInv'
  OBVIOUS
<1>1. CASE BeginCall
  BY <1>1, RegisterTyped, FindsTyped, LookupTyped DEF BeginCall
<1>2. CASE \E k \in Calls : FinishCall(k)
  BY <1>2, RegisterTyped, WritesTyped, LookupTyped DEF FinishCall
<1>3. CASE (\E c \in Consoles : Reconnect(c)) \/ (\E id \in IDs : Age(id)) \/ PruneOldSessions
  BY <1>3, ElseTyped
<1>4. CASE UNCHANGED vars
  BY <1>4, QuietElse DEF vars, TypeInv, TypeOK
<1> QED
  BY <1>1, <1>2, <1>3, <1>4 DEF Next

\* TypeOK: gatherings, accounts, sessions and calls have their types, and no more than
\* MaxGatherings are registered, whatever consoles, accounts and goroutines there are,
\* also where a console does not wait for answers.
THEOREM TypeCorrect == Spec => []TypeOK
<1>1. TypeInv => TypeOK
  BY DEF TypeInv
<1> QED
  BY <1>1, InitTyped, TypesKept, PTL DEF Spec
==============================================================================
