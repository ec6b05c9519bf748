---------------------------- MODULE SavedData_proofs ----------------------------
(***************************************************************************)
(* Proofs about saved data, for any consoles, accounts, GUIDs and bound:   *)
(* everything is saved once and under an ID of its own, setlists           *)
(* are changed by their owners, images are shown with what they were saved *)
(* for and everything has its type.                                        *)
(***************************************************************************)
EXTENDS SavedData, FiniteSetTheorems, TLAPS

------------------------------------------------------------------------------
(* The state of calls.                                                     *)

SetlistOps == {"setlistID", "setlist", "insertSetlist"}
CharacterOps == {"characterID", "character", "updateCharacter"}
BandOps == {"bandID", "band"}

CallOK(r, last) ==
  /\ r # Idle => r.op # "idle"
  /\ r.op \in SetlistOps \cup CharacterOps => "key" \in DOMAIN r /\ r.key \in Guids
  /\ r.op \in SetlistOps \cup CharacterOps \cup {"battle"} => r.pid \in Players
  /\ r.op \in BandOps => "key" \in DOMAIN r /\ r.key \in Players
  /\ r.op \in {"setlist", "insertSetlist", "battle"} => r.id \in 1 .. last["setlist"]
  /\ r.op = "setlist" => r \in [op : {"setlist"}, key : Guids, pid : Players, id : Nat]
  /\ r.op = "band" => r.id \in 1 .. last["band"]
  /\ r.op = "character" => r.id \in 1 .. last["character"]

CallsOK ==
  /\ call = [c \in Consoles |-> call[c]]
  /\ \A c \in Consoles : CallOK(call[c], lastID)

\* Two calls with one key are calls for something that may be saved by several at once.
OneTurn ==
  \A c, d \in Consoles :
    c # d /\ "key" \in DOMAIN call[c] /\ "key" \in DOMAIN call[d] /\ call[c].key = call[d].key =>
      call[c].key \in Racing

Whom ==
  /\ session = [c \in Consoles |-> session[c]]
  /\ \A c \in Consoles : session[c].pid \in Players
  /\ \A c, d \in Consoles : c # d => session[c].pid # session[d].pid

DocsOK ==
  /\ lastID \in [Counters -> Nat]
  /\ IsFiniteSet(setlists)
  /\ \A s \in setlists :
       /\ s.id \in 1 .. lastID["setlist"]
       /\ s.guid \in Guids \cup {NoGuid}
       /\ s.guid \in Guids => s.type = Ordinary
       /\ s.pid \in Players
  /\ \A b \in bands : b.id \in 1 .. lastID["band"] /\ b.owner \in Players
  /\ \A ch \in characters : ch.id \in 1 .. lastID["character"] /\ ch.guid \in Guids

Base == CallsOK /\ OneTurn /\ Whom /\ DocsOK
------------------------------------------------------------------------------
(* The effect of a call on the calls.                                      *)

LEMMA ContinueEffect ==
  ASSUME CallsOK, NEW c \in Consoles, NEW next, Continue(c, next)
  PROVE  /\ call'[c] = next
         /\ \A d \in Consoles \ {c} : call'[d] = call[d]
         /\ call' = [d \in Consoles |-> call'[d]]
  BY DEF CallsOK, Continue

\* Calls change in none of the ways that matter to ops.
Apart(ops) ==
  \A c \in Consoles : call'[c] = call[c] \/ (call[c].op \notin ops /\ call'[c].op \notin ops)

\* IDs that were drawn stay drawn.
LEMMA CallsStayOK ==
  ASSUME CallsOK, DocsOK, NEW c \in Consoles, NEW next, Continue(c, next),
         lastID' \in [Counters -> Nat], \A n \in Counters : lastID[n] <= lastID'[n],
         CallOK(next, lastID')
  PROVE  CallsOK'
<1>1. /\ call'[c] = next
      /\ \A d \in Consoles \ {c} : call'[d] = call[d]
      /\ call' = [d \in Consoles |-> call'[d]]
  BY ContinueEffect
<1>2. \A n \in Counters : 1 .. lastID[n] \subseteq 1 .. lastID'[n]
  BY DEF DocsOK
<1>3. \A d \in Consoles \ {c} : CallOK(call'[d], lastID')
  BY <1>1, <1>2 DEF CallsOK, CallOK, Counters
<1>4. \A d \in Consoles : CallOK(call'[d], lastID')
  BY <1>1, <1>3
<1> QED
  BY <1>1, <1>4 DEF CallsOK, CallOK, SetlistOps, CharacterOps, BandOps

LEMMA TurnsStay ==
  ASSUME CallsOK, OneTurn, NEW c \in Consoles, NEW next, Continue(c, next),
         "key" \in DOMAIN next =>
           InTurn(c, next.key) \/ ("key" \in DOMAIN call[c] /\ call[c].key = next.key)
  PROVE  OneTurn'
<1>1. call'[c] = next /\ \A d \in Consoles \ {c} : call'[d] = call[d]
  BY ContinueEffect
<1> SUFFICES ASSUME NEW d \in Consoles, NEW e \in Consoles, d # e,
                    "key" \in DOMAIN call'[d], "key" \in DOMAIN call'[e], call'[d].key = call'[e].key
             PROVE  call'[d].key \in Racing
  BY DEF OneTurn
<1>2. CASE d # c /\ e # c
  BY <1>1, <1>2 DEF OneTurn
<1>3. CASE d = c
  BY <1>1, <1>3 DEF OneTurn, InTurn
<1>4. CASE e = c
  BY <1>1, <1>4 DEF OneTurn, InTurn
<1> QED
  BY <1>2, <1>3, <1>4
------------------------------------------------------------------------------
(* Each step keeps what is said of calls, turns, sessions and documents.   *)

LEMMA BaseStep ==
  ASSUME Base, NEW c \in Consoles, NEW next, Continue(c, next), UNCHANGED session,
         lastID' \in [Counters -> Nat], \A n \in Counters : lastID[n] <= lastID'[n],
         CallOK(next, lastID'), DocsOK',
         "key" \in DOMAIN next =>
           InTurn(c, next.key) \/ ("key" \in DOMAIN call[c] /\ call[c].key = next.key)
  PROVE  Base'
<1>1. CallsOK' /\ OneTurn'
  BY CallsStayOK, TurnsStay DEF Base
<1>2. Whom'
  BY DEF Base, Whom
<1> QED
  BY <1>1, <1>2 DEF Base

\* Calls that look for something, and those that have nothing more to write.
LEMMA ReadingStep ==
  ASSUME Base, NEW c \in Consoles, NEW next, Continue(c, next), CallOK(next, lastID),
         UNCHANGED <<setlists, bands, characters, lastID, session>>,
         "key" \in DOMAIN next =>
           InTurn(c, next.key) \/ ("key" \in DOMAIN call[c] /\ call[c].key = next.key)
  PROVE  Base'
<1>1. DocsOK' /\ lastID' \in [Counters -> Nat] /\ \A n \in Counters : lastID[n] <= lastID'[n]
  BY DEF Base, DocsOK
<1> QED
  BY <1>1, BaseStep

LEMMA IdleOK == CallOK(Idle, lastID) /\ CallOK(Idle, lastID') /\ "key" \notin DOMAIN Idle
  BY DEF CallOK, Idle, SetlistOps, CharacterOps, BandOps

LEMMA DrawnID ==
  ASSUME Base, NEW counter \in Counters, NextID(counter)
  PROVE  /\ lastID' \in [Counters -> Nat]
         /\ lastID'[counter] = lastID[counter] + 1
         /\ lastID'[counter] \in 1 .. lastID'[counter]
         /\ \A n \in Counters \ {counter} : lastID'[n] = lastID[n]
         /\ \A n \in Counters : lastID[n] <= lastID'[n] /\ lastID[n] \in Nat /\ lastID'[n] \in Nat
<1>1. lastID \in [Counters -> Nat]
  BY DEF Base, DocsOK
<1>2. /\ lastID' \in [Counters -> Nat]
      /\ lastID'[counter] = lastID[counter] + 1
      /\ \A n \in Counters \ {counter} : lastID'[n] = lastID[n]
  BY <1>1 DEF NextID
<1> QED
  BY <1>1, <1>2

\* Calls that draw an ID.
LEMMA DrawingStep ==
  ASSUME Base, NEW c \in Consoles, NEW counter \in Counters, NextID(counter), NEW next,
         Continue(c, next), CallOK(next, lastID'),
         UNCHANGED <<setlists, bands, characters, session>>,
         "key" \in DOMAIN next => "key" \in DOMAIN call[c] /\ call[c].key = next.key
  PROVE  /\ Base'
         /\ lastID'[counter] = lastID[counter] + 1
         /\ \A n \in Counters \ {counter} : lastID'[n] = lastID[n]
<1>1. /\ lastID' \in [Counters -> Nat]
      /\ lastID'[counter] = lastID[counter] + 1
      /\ \A n \in Counters \ {counter} : lastID'[n] = lastID[n]
      /\ \A n \in Counters : lastID[n] <= lastID'[n] /\ lastID[n] \in Nat /\ lastID'[n] \in Nat
  BY DrawnID
<1>2. \A n \in Counters : 1 .. lastID[n] \subseteq 1 .. lastID'[n]
  BY <1>1
<1>3. DocsOK'
  BY <1>1, <1>2 DEF Base, DocsOK, Counters
<1>4. Base'
  BY <1>1, <1>3, BaseStep
<1> QED
  BY <1>1, <1>4

\* Calls that write documents.
LEMMA WritingStep ==
  ASSUME Base, NEW c \in Consoles, Return(c), UNCHANGED <<lastID, session>>,
         setlists' = setlists \/ \E s : s.id \in 1 .. lastID["setlist"] /\ s.pid \in Players
           /\ s.guid \in Guids \cup {NoGuid} /\ (s.guid \in Guids => s.type = Ordinary)
           /\ setlists' \subseteq setlists \cup {s},
         bands' = bands \/ \E b : b.id \in 1 .. lastID["band"] /\ b.owner \in Players
           /\ bands' \subseteq bands \cup {b},
         characters' = characters \/ \E ch : ch.id \in 1 .. lastID["character"] /\ ch.guid \in Guids
           /\ characters' \subseteq characters \cup {ch}
  PROVE  Base'
<1>1. IsFiniteSet(setlists')
  <2>1. IsFiniteSet(setlists)
    BY DEF Base, DocsOK
  <2>2. CASE setlists' = setlists
    BY <2>1, <2>2
  <2>3. CASE \E s : setlists' \subseteq setlists \cup {s}
    BY <2>1, <2>3, FS_AddElement, FS_Subset
  <2> QED
    BY <2>2, <2>3
<1>2. DocsOK'
  BY <1>1 DEF Base, DocsOK
<1>3. lastID' \in [Counters -> Nat] /\ \A n \in Counters : lastID[n] <= lastID'[n]
  BY DEF Base, DocsOK
<1> QED
  BY <1>2, <1>3, IdleOK, BaseStep DEF Return

LEMMA InitBase ==
  ASSUME Init
  PROVE  Base
<1>1. CallsOK /\ OneTurn
  BY DEF Init, CallsOK, CallOK, OneTurn, Idle, SetlistOps, CharacterOps, BandOps
<1>2. Whom
  <2>1. /\ session \in [Consoles -> UNION {Sessions[c] : c \in Consoles}]
        /\ \A c \in Consoles : session[c] \in Sessions[c]
        /\ \A c, d \in Consoles : c # d => session[c].pid # session[d].pid
    BY DEF Init
  <2>2. \A c \in Consoles : session[c].pid \in Players
    BY <2>1, SavedDataAssumption
  <2> QED
    BY <2>1, <2>2 DEF Whom
<1>3. DocsOK
  BY FS_EmptySet DEF Init, DocsOK
<1> QED
  BY <1>1, <1>2, <1>3 DEF Base

LEMMA SwitchKeepsBase ==
  ASSUME Base, NEW c \in Consoles, NEW someone \in Sessions[c], Switch(c, someone)
  PROVE  Base'
<1>1. /\ session' = [session EXCEPT ![c] = someone]
      /\ Free(c, someone.pid)
      /\ UNCHANGED <<setlists, bands, characters, lastID, call>>
  BY DEF Switch
<1>2. /\ session'[c] = someone
      /\ \A d \in Consoles \ {c} : session'[d] = session[d]
      /\ session' = [d \in Consoles |-> session'[d]]
  BY <1>1 DEF Base, Whom
<1>3. someone.pid \in Players
  BY SavedDataAssumption
<1>4. Whom'
  BY <1>1, <1>2, <1>3 DEF Base, Whom, Free
<1>5. CallsOK' /\ OneTurn' /\ DocsOK'
  BY <1>1 DEF Base, CallsOK, CallOK, OneTurn, DocsOK
<1> QED
  BY <1>4, <1>5 DEF Base

LEMMA ValidPlayers == \A c \in Consoles : Valid(c) \subseteq Players
  BY SavedDataAssumption DEF Valid

LEMMA SetlistsKeepBase ==
  ASSUME Base, NEW c \in Consoles, UseSetlists(c)
  PROVE  Base'
<1>1. ASSUME NEW pid \in Players, NEW guid \in Guids, SetlistFindNew(c, pid, guid) PROVE Base'
  <2> DEFINE next == [op |-> "setlistID", key |-> guid, pid |-> pid]
  <2>1. CallOK(next, lastID)
    BY DEF CallOK, SetlistOps, CharacterOps, BandOps, Idle
  <2>2. "key" \in DOMAIN next => InTurn(c, next.key)
    BY <1>1 DEF SetlistFindNew
  <2>3. Continue(c, next) /\ UNCHANGED <<setlists, bands, characters, lastID, session>>
    BY <1>1 DEF SetlistFindNew
  <2> HIDE DEF next
  <2> QED
    BY <2>1, <2>2, <2>3, ReadingStep
<1>2. ASSUME NEW pid \in Players, NEW guid \in Guids, SetlistFind(c, pid, guid) PROVE Base'
  <2>1. PICK s \in WithGuid(setlists, guid) :
          Continue(c, [op |-> "setlist", key |-> guid, pid |-> pid, id |-> s.id])
    BY <1>2 DEF SetlistFind
  <2> DEFINE next == [op |-> "setlist", key |-> guid, pid |-> pid, id |-> s.id]
  <2>2. s.id \in 1 .. lastID["setlist"]
    BY DEF WithGuid, Base, DocsOK
  <2>3. CallOK(next, lastID)
    BY <2>2 DEF CallOK, SetlistOps, CharacterOps, BandOps, Idle
  <2>4. "key" \in DOMAIN next => InTurn(c, next.key)
    BY <1>2 DEF SetlistFind
  <2>5. Continue(c, next) /\ UNCHANGED <<setlists, bands, characters, lastID, session>>
    BY <1>2, <2>1 DEF SetlistFind
  <2> HIDE DEF next
  <2> QED
    BY <2>3, <2>4, <2>5, ReadingStep
<1>3. ASSUME SetlistID(c) PROVE Base'
  <2> DEFINE next == [op |-> "setlist", key |-> call[c].key, pid |-> call[c].pid, id |-> lastID'["setlist"]]
  <2>1. /\ "key" \in DOMAIN call[c] /\ call[c].key \in Guids /\ call[c].pid \in Players
    BY <1>3 DEF SetlistID, Base, CallsOK, CallOK, SetlistOps
  <2>2. lastID'["setlist"] \in 1 .. lastID'["setlist"]
    BY <1>3, DrawnID DEF SetlistID, Counters
  <2>3. CallOK(next, lastID')
    BY <2>1, <2>2 DEF CallOK, SetlistOps, CharacterOps, BandOps, Idle
  <2>4. Continue(c, next) /\ NextID("setlist") /\ UNCHANGED <<setlists, bands, characters, session>>
    BY <1>3 DEF SetlistID
  <2>5. call[c].key = next.key
    OBVIOUS
  <2> HIDE DEF next
  <2> QED
    BY <2>1, <2>3, <2>4, <2>5, DrawingStep DEF Counters
<1>4. ASSUME SetlistUpdate(c) \/ SetlistUpsertInserts(c) PROVE Base'
  <2>1. call[c].op \in {"setlist", "insertSetlist"}
    BY <1>4 DEF SetlistUpdate, SetlistUpsertInserts
  <2> DEFINE s == Updated(c)
  <2>2. /\ s.id \in 1 .. lastID["setlist"] /\ s.pid \in Players /\ s.type = Ordinary /\ s.guid \in Guids
    BY <2>1 DEF Updated, Base, CallsOK, CallOK, SetlistOps
  <2>3. setlists' \subseteq setlists \cup {s}
    BY <1>4 DEF SetlistUpdate, SetlistUpsertInserts
  <2>4. Return(c) /\ UNCHANGED <<bands, characters, lastID, session>>
    BY <1>4 DEF SetlistUpdate, SetlistUpsertInserts
  <2> HIDE DEF s
  <2> QED
    BY <2>2, <2>3, <2>4, WritingStep
<1>5. ASSUME SetlistUpsertMisses(c) PROVE Base'
  <2> DEFINE next == [call[c] EXCEPT !.op = "insertSetlist"]
  <2>1. /\ call[c].op = "setlist" /\ Continue(c, next)
        /\ UNCHANGED <<setlists, bands, characters, lastID, session>>
    BY <1>5 DEF SetlistUpsertMisses
  <2>2. CallOK(call[c], lastID)
    BY DEF Base, CallsOK
  <2>3. /\ "key" \in DOMAIN call[c] /\ next.key = call[c].key /\ next.pid = call[c].pid
        /\ next.id = call[c].id /\ next.op = "insertSetlist" /\ "key" \in DOMAIN next
    BY <2>1, <2>2 DEF CallOK
  <2>4. next.key \in Guids /\ next.pid \in Players /\ next.id \in 1 .. lastID["setlist"]
    BY <2>1, <2>2, <2>3 DEF CallOK, SetlistOps
  <2> HIDE DEF next
  <2>5. CallOK(next, lastID)
    BY <2>3, <2>4 DEF CallOK, SetlistOps, CharacterOps, BandOps, Idle
  <2> QED
    BY <2>1, <2>3, <2>5, ReadingStep
<1> QED
  BY <1>1, <1>2, <1>3, <1>4, <1>5 DEF UseSetlists

LEMMA BandsKeepBase ==
  ASSUME Base, NEW c \in Consoles, UseBands(c)
  PROVE  Base'
<1>1. ASSUME NEW pid \in Players, BandFind(c, pid) PROVE Base'
  <2> DEFINE next == [op |-> "bandID", key |-> pid]
  <2>1. CallOK(next, lastID)
    BY DEF CallOK, SetlistOps, CharacterOps, BandOps, Idle
  <2>2. "key" \in DOMAIN next => InTurn(c, next.key)
    BY <1>1 DEF BandFind
  <2>3. Continue(c, next) /\ UNCHANGED <<setlists, bands, characters, lastID, session>>
    BY <1>1 DEF BandFind
  <2> HIDE DEF next
  <2> QED
    BY <2>1, <2>2, <2>3, ReadingStep
<1>2. ASSUME BandID(c) PROVE Base'
  <2> DEFINE next == [op |-> "band", key |-> call[c].key, id |-> lastID'["band"]]
  <2>1. "key" \in DOMAIN call[c] /\ call[c].key \in Players
    BY <1>2 DEF BandID, Base, CallsOK, CallOK, BandOps
  <2>2. lastID'["band"] \in 1 .. lastID'["band"]
    BY <1>2, DrawnID DEF BandID, Counters
  <2>3. CallOK(next, lastID')
    BY <2>1, <2>2 DEF CallOK, SetlistOps, CharacterOps, BandOps, Idle
  <2>4. Continue(c, next) /\ NextID("band") /\ UNCHANGED <<setlists, bands, characters, session>>
    BY <1>2 DEF BandID
  <2>5. call[c].key = next.key
    OBVIOUS
  <2> HIDE DEF next
  <2> QED
    BY <2>1, <2>3, <2>4, <2>5, DrawingStep DEF Counters
<1>3. ASSUME BandInsert(c) PROVE Base'
  <2> DEFINE b == [owner |-> call[c].key, id |-> call[c].id]
  <2>1. b.id \in 1 .. lastID["band"] /\ b.owner \in Players
    BY <1>3 DEF BandInsert, Base, CallsOK, CallOK, BandOps
  <2>2. bands' = bands \cup {b} /\ Return(c) /\ UNCHANGED <<setlists, characters, lastID, session>>
    BY <1>3 DEF BandInsert
  <2> HIDE DEF b
  <2> QED
    BY <2>1, <2>2, WritingStep
<1> QED
  BY <1>1, <1>2, <1>3 DEF UseBands

LEMMA CharactersKeepBase ==
  ASSUME Base, NEW c \in Consoles, UseCharacters(c)
  PROVE  Base'
<1>1. ASSUME NEW pid \in Players, NEW guid \in Guids, CharacterFind(c, pid, guid) PROVE Base'
  <2>1. PICK op \in {"characterID", "updateCharacter"} :
          Continue(c, [op |-> op, key |-> guid, pid |-> pid])
    BY <1>1 DEF CharacterFind
  <2> DEFINE next == [op |-> op, key |-> guid, pid |-> pid]
  <2>2. CallOK(next, lastID)
    BY DEF CallOK, SetlistOps, CharacterOps, BandOps, Idle
  <2>3. "key" \in DOMAIN next => InTurn(c, next.key)
    BY <1>1 DEF CharacterFind
  <2>4. Continue(c, next) /\ UNCHANGED <<setlists, bands, characters, lastID, session>>
    BY <1>1, <2>1 DEF CharacterFind
  <2> HIDE DEF next
  <2> QED
    BY <2>2, <2>3, <2>4, ReadingStep
<1>2. ASSUME CharacterID(c) PROVE Base'
  <2> DEFINE next == [op |-> "character", key |-> call[c].key, pid |-> call[c].pid,
                      id |-> lastID'["character"]]
  <2>1. "key" \in DOMAIN call[c] /\ call[c].key \in Guids /\ call[c].pid \in Players
    BY <1>2 DEF CharacterID, Base, CallsOK, CallOK, CharacterOps
  <2>2. lastID'["character"] \in 1 .. lastID'["character"]
    BY <1>2, DrawnID DEF CharacterID, Counters
  <2>3. CallOK(next, lastID')
    BY <2>1, <2>2 DEF CallOK, SetlistOps, CharacterOps, BandOps, Idle
  <2>4. Continue(c, next) /\ NextID("character") /\ UNCHANGED <<setlists, bands, characters, session>>
    BY <1>2 DEF CharacterID
  <2>5. call[c].key = next.key
    OBVIOUS
  <2> HIDE DEF next
  <2> QED
    BY <2>1, <2>3, <2>4, <2>5, DrawingStep DEF Counters
<1>3. ASSUME CharacterInsert(c) PROVE Base'
  <2> DEFINE ch == [guid |-> call[c].key, owner |-> call[c].pid, id |-> call[c].id,
                    by |-> session[c].pid]
  <2>1. ch.id \in 1 .. lastID["character"] /\ ch.guid \in Guids
    BY <1>3 DEF CharacterInsert, Base, CallsOK, CallOK, CharacterOps
  <2>2. characters' = characters \cup {ch} /\ Return(c) /\ UNCHANGED <<setlists, bands, lastID, session>>
    BY <1>3 DEF CharacterInsert
  <2> HIDE DEF ch
  <2> QED
    BY <2>1, <2>2, WritingStep
<1>4. ASSUME CharacterUpdate(c) PROVE Base'
  <2>1. PICK old \in WithGuid(characters, call[c].key) :
          characters' = (characters \ {old}) \cup {[old EXCEPT !.by = session[c].pid]}
    BY <1>4 DEF CharacterUpdate
  <2> DEFINE ch == [old EXCEPT !.by = session[c].pid]
  <2>2. ch.id \in 1 .. lastID["character"] /\ ch.guid \in Guids
    BY DEF WithGuid, Base, DocsOK
  <2>3. characters' \subseteq characters \cup {ch}
    BY <2>1
  <2>4. Return(c) /\ UNCHANGED <<setlists, bands, lastID, session>>
    BY <1>4 DEF CharacterUpdate
  <2> HIDE DEF ch
  <2> QED
    BY <2>2, <2>3, <2>4, WritingStep
<1> QED
  BY <1>1, <1>2, <1>3, <1>4 DEF UseCharacters

LEMMA BattlesKeepBase ==
  ASSUME Base, NEW c \in Consoles, UseBattles(c)
  PROVE  Base'
<1>2. ASSUME NEW pid \in Players, BattleID(c, pid) PROVE Base'
  <2> DEFINE next == [op |-> "battle", pid |-> pid, id |-> lastID'["setlist"]]
  <2>1. lastID'["setlist"] \in 1 .. lastID'["setlist"]
    BY <1>2, DrawnID DEF BattleID, Counters
  <2>3. CallOK(next, lastID') /\ "key" \notin DOMAIN next
    BY <2>1 DEF CallOK, SetlistOps, CharacterOps, BandOps, Idle
  <2>4. Continue(c, next) /\ NextID("setlist") /\ UNCHANGED <<setlists, bands, characters, session>>
    BY <1>2 DEF BattleID
  <2> HIDE DEF next
  <2> QED
    BY <2>3, <2>4, DrawingStep DEF Counters
<1>3. ASSUME BattleInsert(c) PROVE Base'
  <2> DEFINE s == [guid |-> NoGuid, id |-> call[c].id, pid |-> call[c].pid, owner |-> Owner(call[c].pid),
                   type |-> IF call[c].pid \in Admins THEN HarmonixBattle ELSE PlayerBattle,
                   by |-> session[c].pid]
  <2>1. s.id \in 1 .. lastID["setlist"] /\ s.pid \in Players /\ s.guid = NoGuid /\ s.guid \notin Guids
    BY <1>3, SavedDataAssumption DEF BattleInsert, Base, CallsOK, CallOK
  <2>2. setlists' = setlists \cup {s} /\ Return(c) /\ UNCHANGED <<bands, characters, lastID, session>>
    BY <1>3 DEF BattleInsert
  <2> HIDE DEF s
  <2> QED
    BY <2>1, <2>2, WritingStep
<1> QED
  BY <1>2, <1>3 DEF UseBattles

LEMMA ImagesKeepBase ==
  ASSUME Base, NEW c \in Consoles, UseImages(c)
  PROVE  Base'
<1>1. ASSUME NEW path \in Saved, SaveOpen(c, path) PROVE Base'
  <2> DEFINE next == [op |-> "image", path |-> path, for |-> Pictured(path)]
  <2>1. CallOK(next, lastID) /\ "key" \notin DOMAIN next
    BY DEF CallOK, SetlistOps, CharacterOps, BandOps, Idle
  <2>2. Continue(c, next) /\ UNCHANGED <<setlists, bands, characters, lastID, session>>
    BY <1>1 DEF SaveOpen
  <2> HIDE DEF next
  <2> QED
    BY <2>1, <2>2, ReadingStep
<1>2. CASE SaveWrite(c) \/ SaveWriteFails(c)
  BY <1>2, IdleOK, ReadingStep DEF SaveWrite, SaveWriteFails, Return
<1> QED
  BY <1>1, <1>2 DEF UseImages

LEMMA BattleExpiresKeepsBase ==
  ASSUME Base, NEW s \in setlists, BattleExpires(s)
  PROVE  Base'
<1>1. IsFiniteSet(setlists')
  BY FS_Subset DEF BattleExpires, Base, DocsOK
<1> QED
  BY <1>1 DEF BattleExpires, Base, CallsOK, CallOK, OneTurn, DocsOK, Whom

LEMMA NextKeepsBase ==
  ASSUME Base, Next
  PROVE  Base'
  BY SwitchKeepsBase, SetlistsKeepBase, BandsKeepBase, CharactersKeepBase, BattlesKeepBase,
     ImagesKeepBase, BattleExpiresKeepsBase DEF Next
------------------------------------------------------------------------------
(* Setlists are saved once and under IDs of their own.                     *)

\* An ID is used for a GUID by a setlist, or by a call that is about to write one.
Claim(guid, id) ==
  \/ \E s \in setlists : s.guid = guid /\ s.id = id
  \/ \E c \in Consoles :
       call[c].op \in {"setlist", "insertSetlist"} /\ call[c].key = guid /\ call[c].id = id
  \/ \E c \in Consoles : call[c].op = "battle" /\ NoGuid = guid /\ call[c].id = id

OneGuid ==
  \A id \in Nat, guid, other \in Guids \cup {NoGuid} :
    Claim(guid, id) /\ Claim(other, id) => guid = other

\* Battles have IDs of their own, the ones that are about to be inserted, too.
BattlesApart ==
  /\ \A s, t \in setlists : s.guid = NoGuid /\ t.guid = NoGuid /\ s.id = t.id => s = t
  /\ \A s \in setlists, c \in Consoles : call[c].op = "battle" => call[c].id # s.id
  /\ \A c, d \in Consoles :
       c # d /\ call[c].op = "battle" /\ call[d].op = "battle" => call[c].id # call[d].id

\* Outside Racing, what a call has found still holds when it writes.
FoundStill(c) ==
  /\ call[c].op \in {"setlistID", "insertSetlist"} /\ call[c].key \notin Racing =>
       \A s \in setlists : s.guid # call[c].key
  /\ call[c].op = "setlist" /\ call[c].key \notin Racing =>
       \A s \in setlists : s.guid = call[c].key => s.id = call[c].id /\ s.pid = session[c].pid

OneSetlist == \A s, t \in setlists : s.guid = t.guid /\ s.guid \in Guids \ Racing => s = t

SetlistInv == OneGuid /\ BattlesApart /\ OneSetlist /\ \A c \in Consoles : FoundStill(c)

SavingOps == SetlistOps \cup {"battle"}

LEMMA QuietSetlists ==
  ASSUME SetlistInv, UNCHANGED setlists, Apart(SavingOps),
         \A c \in Consoles : call[c].op \in SavingOps => session'[c] = session[c]
  PROVE  SetlistInv'
<1>1. \A c \in Consoles : call'[c].op \in SavingOps =>
        call'[c] = call[c] /\ session'[c] = session[c]
  BY DEF Apart
<1>2. OneGuid'
  <2> SUFFICES ASSUME NEW id \in Nat, NEW guid \in Guids \cup {NoGuid},
                      NEW other \in Guids \cup {NoGuid}, Claim(guid, id)', Claim(other, id)'
               PROVE  guid = other
    BY DEF OneGuid, Claim
  <2>1. Claim(guid, id) /\ Claim(other, id)
    BY <1>1 DEF Claim, SavingOps, SetlistOps
  <2> QED
    BY <2>1 DEF SetlistInv, OneGuid
<1>3. BattlesApart' /\ OneSetlist'
  BY <1>1 DEF SetlistInv, BattlesApart, OneSetlist, SavingOps
<1>4. \A c \in Consoles : FoundStill(c)'
  BY <1>1 DEF SetlistInv, FoundStill, SavingOps, SetlistOps
<1> QED
  BY <1>2, <1>3, <1>4 DEF SetlistInv

\* The steps that look, and claim only what is claimed.
LEMMA LookingKeepsSetlistInv ==
  ASSUME Base, SetlistInv, NEW c \in Consoles, NEW next, Continue(c, next), next.op # "battle",
         UNCHANGED <<setlists, session>>,
         next.op \in {"setlist", "insertSetlist"} =>
           next.id \in Nat /\ next.key \in Guids /\ Claim(next.key, next.id),
         next.op \in {"setlistID", "insertSetlist"} /\ next.key \notin Racing =>
           \A s \in setlists : s.guid # next.key,
         next.op = "setlist" /\ next.key \notin Racing =>
           \A s \in setlists : s.guid = next.key => s.id = next.id /\ s.pid = session[c].pid
  PROVE  SetlistInv'
<1>1. call'[c] = next /\ \A d \in Consoles \ {c} : call'[d] = call[d]
  BY ContinueEffect DEF Base
<1>2. OneGuid'
  <2> SUFFICES ASSUME NEW id \in Nat, NEW guid \in Guids \cup {NoGuid},
                      NEW other \in Guids \cup {NoGuid}, Claim(guid, id)', Claim(other, id)'
               PROVE  guid = other
    BY DEF OneGuid, Claim
  <2>1. ASSUME NEW g \in Guids \cup {NoGuid}, Claim(g, id)' PROVE Claim(g, id)
    <3>1. CASE \E s \in setlists : s.guid = g /\ s.id = id
      BY <3>1 DEF Claim
    <3>2. ASSUME NEW d \in Consoles, call'[d].op \in {"setlist", "insertSetlist"},
                 call'[d].key = g, call'[d].id = id
          PROVE  Claim(g, id)
      <4>1. CASE d = c
        BY <1>1, <3>2, <4>1
      <4>2. CASE d # c
        BY <1>1, <3>2, <4>2 DEF Claim
      <4> QED
        BY <4>1, <4>2
    <3>3. ASSUME NEW d \in Consoles, call'[d].op = "battle", NoGuid = g, call'[d].id = id
          PROVE  Claim(g, id)
      <4>1. d # c
        BY <1>1, <3>3
      <4> QED
        BY <1>1, <3>3, <4>1 DEF Claim
    <3>4. \/ \E s \in setlists : s.guid = g /\ s.id = id
          \/ \E d \in Consoles :
               call'[d].op \in {"setlist", "insertSetlist"} /\ call'[d].key = g /\ call'[d].id = id
          \/ \E d \in Consoles : call'[d].op = "battle" /\ NoGuid = g /\ call'[d].id = id
      BY <2>1 DEF Claim
    <3> QED
      BY <3>1, <3>2, <3>3, <3>4
  <2> QED
    BY <2>1 DEF SetlistInv, OneGuid
<1>3. BattlesApart' /\ OneSetlist'
  <2>1. \A d \in Consoles : call'[d].op = "battle" => d # c /\ call'[d] = call[d]
    BY <1>1
  <2> QED
    BY <2>1 DEF SetlistInv, BattlesApart, OneSetlist
<1>4. ASSUME NEW d \in Consoles PROVE FoundStill(d)'
  <2>1. CASE d = c
    BY <1>1, <2>1 DEF FoundStill
  <2>2. CASE d # c
    <3>1. FoundStill(d) /\ call'[d] = call[d]
      BY <1>1, <2>2 DEF SetlistInv
    <3> QED
      BY <3>1 DEF FoundStill
  <2> QED
    BY <2>1, <2>2
<1> QED
  BY <1>2, <1>3, <1>4 DEF SetlistInv

\* An ID that was just drawn is claimed by nobody.
LEMMA FreshID ==
  ASSUME Base, NextID("setlist")
  PROVE  /\ lastID'["setlist"] \in Nat
         /\ \A guid \in Guids \cup {NoGuid} : ~Claim(guid, lastID'["setlist"])
         /\ \A s \in setlists : s.id # lastID'["setlist"]
         /\ \A c \in Consoles : call[c].op \in {"setlist", "insertSetlist", "battle"} =>
              call[c].id # lastID'["setlist"]
<1>1. lastID'["setlist"] = lastID["setlist"] + 1 /\ lastID["setlist"] \in Nat /\ lastID'["setlist"] \in Nat
  BY DrawnID DEF Counters
<1>2. /\ \A s \in setlists : s.id \in 1 .. lastID["setlist"]
      /\ \A c \in Consoles : call[c].op \in {"setlist", "insertSetlist", "battle"} =>
           call[c].id \in 1 .. lastID["setlist"]
  BY DEF Base, DocsOK, CallsOK, CallOK
<1>3. /\ \A s \in setlists : s.id # lastID'["setlist"]
      /\ \A c \in Consoles : call[c].op \in {"setlist", "insertSetlist", "battle"} =>
           call[c].id # lastID'["setlist"]
  BY <1>1, <1>2
<1> QED
  BY <1>1, <1>3 DEF Claim

\* The steps that draw an ID and claim it.
LEMMA DrawingKeepsSetlistInv ==
  ASSUME Base, SetlistInv, NEW c \in Consoles, NEW next, Continue(c, next), NextID("setlist"),
         UNCHANGED <<setlists, session>>, next.id = lastID'["setlist"],
         \/ /\ call[c].op = "setlistID" /\ next.op = "setlist"
            /\ next.key = call[c].key /\ next.key \in Guids
         \/ next.op = "battle"
  PROVE  SetlistInv'
<1>1. call'[c] = next /\ \A d \in Consoles \ {c} : call'[d] = call[d]
  BY ContinueEffect DEF Base
<1> DEFINE new == lastID'["setlist"]
           mine == IF next.op = "battle" THEN NoGuid ELSE next.key
<1>2. OneGuid'
  <2> SUFFICES ASSUME NEW id \in Nat, NEW guid \in Guids \cup {NoGuid},
                      NEW other \in Guids \cup {NoGuid}, Claim(guid, id)', Claim(other, id)'
               PROVE  guid = other
    BY DEF OneGuid, Claim
  <2>1. /\ Claim(guid, id) \/ (id = new /\ guid = mine)
        /\ Claim(other, id) \/ (id = new /\ other = mine)
    BY <1>1 DEF Claim
  <2> QED
    BY <2>1, FreshID DEF SetlistInv, OneGuid
<1>3. BattlesApart'
  <2>1. \A s \in setlists, d \in Consoles : call'[d].op = "battle" => call'[d].id # s.id
    BY <1>1, FreshID DEF SetlistInv, BattlesApart
  <2>2. ASSUME NEW d \in Consoles, NEW e \in Consoles, d # e, call'[d].op = "battle", call'[e].op = "battle"
        PROVE  call'[d].id # call'[e].id
    <3>1. CASE d # c /\ e # c
      BY <1>1, <2>2, <3>1 DEF SetlistInv, BattlesApart
    <3>2. CASE d = c
      BY <1>1, <2>2, <3>2, FreshID
    <3>3. CASE e = c
      BY <1>1, <2>2, <3>3, FreshID
    <3> QED
      BY <3>1, <3>2, <3>3
  <2> QED
    BY <2>1, <2>2 DEF SetlistInv, BattlesApart
<1>4. OneSetlist' /\ \A d \in Consoles : FoundStill(d)'
  BY <1>1 DEF SetlistInv, OneSetlist, FoundStill
<1> QED
  BY <1>2, <1>3, <1>4 DEF SetlistInv

\* The steps that write what was claimed.
LEMMA WritingKeepsSetlistInv ==
  ASSUME Base, SetlistInv, NEW c \in Consoles, Return(c), UNCHANGED session,
         call[c].op \in {"setlist", "insertSetlist"}, NEW old, old \in SUBSET setlists,
         setlists' = (setlists \ old) \cup {Updated(c)},
         call[c].key \notin Racing => \A s \in setlists \ old : s.guid # call[c].key
  PROVE  SetlistInv'
<1> DEFINE u == Updated(c)
           key == call[c].key
<1>1. call'[c] = Idle /\ \A d \in Consoles \ {c} : call'[d] = call[d]
  BY ContinueEffect DEF Base, Return
<1>2. /\ u.guid = key /\ u.id = call[c].id /\ key \in Guids /\ "key" \in DOMAIN call[c]
      /\ u.id \in Nat /\ Claim(key, u.id)
  BY DEF Updated, Claim, Base, CallsOK, CallOK, SetlistOps
<1> HIDE DEF u
<1>3. setlists' = (setlists \ old) \cup {u}
  BY DEF u
<1>4. NoGuid \notin Guids
  BY SavedDataAssumption
<1>5. OneGuid'
  <2> SUFFICES ASSUME NEW id \in Nat, NEW guid \in Guids \cup {NoGuid},
                      NEW other \in Guids \cup {NoGuid}, Claim(guid, id)', Claim(other, id)'
               PROVE  guid = other
    BY DEF OneGuid, Claim
  <2>1. Claim(guid, id) /\ Claim(other, id)
    BY <1>1, <1>2, <1>3 DEF Claim, Idle
  <2> QED
    BY <2>1 DEF SetlistInv, OneGuid
<1>6. BattlesApart'
  <2>1. ASSUME NEW d \in Consoles, call[d].op = "battle" PROVE call[d].id # u.id
    <3>1. Claim(NoGuid, call[d].id) /\ call[d].id \in Nat
      BY <2>1 DEF Claim, Base, CallsOK, CallOK
    <3> QED
      BY <1>2, <1>4, <3>1 DEF SetlistInv, OneGuid
  <2>2. \A d \in Consoles : call'[d].op = "battle" => d # c
    BY <1>1 DEF Idle
  <2>3. \A s \in setlists', d \in Consoles : call'[d].op = "battle" => call'[d].id # s.id
    BY <1>1, <1>3, <2>1, <2>2 DEF SetlistInv, BattlesApart
  <2>4. \A s, t \in setlists' : s.guid = NoGuid /\ t.guid = NoGuid /\ s.id = t.id => s = t
    BY <1>2, <1>3, <1>4 DEF SetlistInv, BattlesApart
  <2>5. \A d, e \in Consoles :
          d # e /\ call'[d].op = "battle" /\ call'[e].op = "battle" => call'[d].id # call'[e].id
    BY <1>1, <2>2 DEF SetlistInv, BattlesApart
  <2> QED
    BY <2>3, <2>4, <2>5 DEF BattlesApart
<1>7. OneSetlist'
  BY <1>2, <1>3 DEF SetlistInv, OneSetlist
<1>8. ASSUME NEW d \in Consoles PROVE FoundStill(d)'
  <2>1. CASE d = c
    BY <1>1, <2>1 DEF FoundStill, Idle
  <2>2. CASE d # c /\ call[d].op \in SetlistOps /\ call[d].key \notin Racing
    <3>1. "key" \in DOMAIN call[d]
      BY <2>2 DEF Base, CallsOK, CallOK
    <3>2. call[d].key # key
      BY <1>2, <2>2, <3>1 DEF Base, OneTurn
    <3> QED
      BY <1>1, <1>2, <1>3, <2>2, <3>2 DEF SetlistInv, FoundStill
  <2>3. CASE d # c /\ ~(call[d].op \in SetlistOps /\ call[d].key \notin Racing)
    BY <1>1, <2>3 DEF FoundStill, SetlistOps
  <2> QED
    BY <2>1, <2>2, <2>3
<1> QED
  BY <1>5, <1>6, <1>7, <1>8 DEF SetlistInv

LEMMA BattleInsertKeepsSetlistInv ==
  ASSUME Base, SetlistInv, NEW c \in Consoles, BattleInsert(c)
  PROVE  SetlistInv'
<1> DEFINE b == [guid |-> NoGuid, id |-> call[c].id, pid |-> call[c].pid, owner |-> Owner(call[c].pid),
                 type |-> IF call[c].pid \in Admins THEN HarmonixBattle ELSE PlayerBattle,
                 by |-> session[c].pid]
<1>1. /\ call[c].op = "battle" /\ Return(c) /\ UNCHANGED session
      /\ setlists' = setlists \cup {b}
  BY DEF BattleInsert
<1>2. call'[c] = Idle /\ \A d \in Consoles \ {c} : call'[d] = call[d]
  BY <1>1, ContinueEffect DEF Base, Return
<1>3. /\ b.guid = NoGuid /\ b.id = call[c].id /\ b.guid \notin Guids
      /\ Claim(NoGuid, b.id) /\ \A s \in setlists : s.id # b.id
  BY <1>1, SavedDataAssumption DEF Claim, SetlistInv, BattlesApart
<1> HIDE DEF b
<1>4. OneGuid'
  <2> SUFFICES ASSUME NEW id \in Nat, NEW guid \in Guids \cup {NoGuid},
                      NEW other \in Guids \cup {NoGuid}, Claim(guid, id)', Claim(other, id)'
               PROVE  guid = other
    BY DEF OneGuid, Claim
  <2>1. Claim(guid, id) /\ Claim(other, id)
    BY <1>1, <1>2, <1>3 DEF Claim, Idle
  <2> QED
    BY <2>1 DEF SetlistInv, OneGuid
<1>5. BattlesApart'
  <2>1. \A d \in Consoles : call'[d].op = "battle" => d # c /\ call'[d] = call[d] /\ call[d].id # b.id
    BY <1>1, <1>2, <1>3 DEF Idle, SetlistInv, BattlesApart
  <2> QED
    BY <1>1, <1>3, <2>1 DEF SetlistInv, BattlesApart
<1>6. OneSetlist'
  BY <1>1, <1>3 DEF SetlistInv, OneSetlist
<1>7. ASSUME NEW d \in Consoles PROVE FoundStill(d)'
  <2>1. CASE d = c
    BY <1>2, <2>1 DEF FoundStill, Idle
  <2>2. CASE d # c
    <3>1. call[d].op \in SetlistOps => call[d].key \in Guids
      BY DEF Base, CallsOK, CallOK
    <3> QED
      BY <1>1, <1>2, <1>3, <2>2, <3>1 DEF SetlistInv, FoundStill, SetlistOps
  <2> QED
    BY <2>1, <2>2
<1> QED
  BY <1>4, <1>5, <1>6, <1>7 DEF SetlistInv

LEMMA BattleExpiresKeepsSetlistInv ==
  ASSUME SetlistInv, NEW b \in setlists, BattleExpires(b)
  PROVE  SetlistInv'
<1>1. setlists' \subseteq setlists /\ UNCHANGED <<call, session>>
  BY DEF BattleExpires
<1>2. OneGuid'
  <2> SUFFICES ASSUME NEW id \in Nat, NEW guid \in Guids \cup {NoGuid},
                      NEW other \in Guids \cup {NoGuid}, Claim(guid, id)', Claim(other, id)'
               PROVE  guid = other
    BY DEF OneGuid, Claim
  <2>1. Claim(guid, id) /\ Claim(other, id)
    BY <1>1 DEF Claim
  <2> QED
    BY <2>1 DEF SetlistInv, OneGuid
<1>3. BattlesApart' /\ OneSetlist' /\ \A c \in Consoles : FoundStill(c)'
  BY <1>1 DEF SetlistInv, BattlesApart, OneSetlist, FoundStill
<1> QED
  BY <1>2, <1>3 DEF SetlistInv

LEMMA SetlistsKeepSetlistInv ==
  ASSUME Base, SetlistInv, NEW c \in Consoles, UseSetlists(c)
  PROVE  SetlistInv'
<1>1. ASSUME NEW pid \in Players, NEW guid \in Guids, SetlistFindNew(c, pid, guid) PROVE SetlistInv'
  <2> DEFINE next == [op |-> "setlistID", key |-> guid, pid |-> pid]
  <2>1. next.op = "setlistID" /\ next.key = guid /\ \A s \in setlists : s.guid # guid
    BY <1>1 DEF SetlistFindNew, WithGuid
  <2>2. Continue(c, next) /\ UNCHANGED <<setlists, session>>
    BY <1>1 DEF SetlistFindNew
  <2> HIDE DEF next
  <2> QED
    BY <2>1, <2>2, LookingKeepsSetlistInv
<1>2. ASSUME NEW pid \in Players, NEW guid \in Guids, SetlistFind(c, pid, guid) PROVE SetlistInv'
  <2>1. PICK s \in WithGuid(setlists, guid) :
          /\ s.pid = session[c].pid
          /\ Continue(c, [op |-> "setlist", key |-> guid, pid |-> pid, id |-> s.id])
    BY <1>2 DEF SetlistFind
  <2> DEFINE next == [op |-> "setlist", key |-> guid, pid |-> pid, id |-> s.id]
  <2>2. s \in setlists /\ s.guid = guid /\ s.id \in Nat
    BY DEF WithGuid, Base, DocsOK
  <2>3. next.op = "setlist" /\ next.key = guid /\ next.id = s.id /\ next.id \in Nat /\ Claim(guid, s.id)
    BY <2>2 DEF Claim
  <2>4. guid \notin Racing => \A t \in setlists : t.guid = guid => t = s
    BY <2>2 DEF SetlistInv, OneSetlist
  <2>5. Continue(c, next) /\ UNCHANGED <<setlists, session>>
    BY <1>2, <2>1 DEF SetlistFind
  <2> HIDE DEF next
  <2> QED
    BY <2>1, <2>2, <2>3, <2>4, <2>5, LookingKeepsSetlistInv
<1>3. ASSUME SetlistID(c) PROVE SetlistInv'
  <2> DEFINE next == [op |-> "setlist", key |-> call[c].key, pid |-> call[c].pid, id |-> lastID'["setlist"]]
  <2>1. call[c].op = "setlistID" /\ call[c].key \in Guids
    BY <1>3 DEF SetlistID, Base, CallsOK, CallOK, SetlistOps
  <2>2. next.op = "setlist" /\ next.key = call[c].key /\ next.id = lastID'["setlist"]
    OBVIOUS
  <2>3. Continue(c, next) /\ NextID("setlist") /\ UNCHANGED <<setlists, session>>
    BY <1>3 DEF SetlistID
  <2> HIDE DEF next
  <2> QED
    BY <2>1, <2>2, <2>3, DrawingKeepsSetlistInv
<1>4. ASSUME SetlistUpdate(c) PROVE SetlistInv'
  <2>1. PICK s \in WithGuid(setlists, call[c].key) : setlists' = (setlists \ {s}) \cup {Updated(c)}
    BY <1>4 DEF SetlistUpdate
  <2>2. call[c].op = "setlist" /\ Return(c) /\ UNCHANGED session /\ call[c].key \in Guids
    BY <1>4 DEF SetlistUpdate, Base, CallsOK, CallOK, SetlistOps
  <2>3. s \in setlists /\ s.guid = call[c].key
    BY DEF WithGuid
  <2>4. call[c].key \notin Racing => \A t \in setlists \ {s} : t.guid # call[c].key
    BY <2>2, <2>3 DEF SetlistInv, OneSetlist
  <2>5. {s} \in SUBSET setlists
    BY <2>3
  <2> QED
    BY <2>1, <2>2, <2>4, <2>5, WritingKeepsSetlistInv
<1>5. ASSUME SetlistUpsertInserts(c) PROVE SetlistInv'
  <2>1. /\ call[c].op = "insertSetlist" /\ Return(c) /\ UNCHANGED session
        /\ setlists' = (setlists \ {}) \cup {Updated(c)}
    BY <1>5 DEF SetlistUpsertInserts
  <2>2. call[c].key \notin Racing => \A s \in setlists \ {} : s.guid # call[c].key
    BY <2>1 DEF SetlistInv, FoundStill
  <2> QED
    BY <2>1, <2>2, WritingKeepsSetlistInv
<1>6. ASSUME SetlistUpsertMisses(c) PROVE SetlistInv'
  <2> DEFINE next == [call[c] EXCEPT !.op = "insertSetlist"]
  <2>1. call[c] \in [op : {"setlist"}, key : Guids, pid : Players, id : Nat]
    BY <1>6 DEF SetlistUpsertMisses, Base, CallsOK, CallOK
  <2>2. /\ next.op = "insertSetlist" /\ next.key = call[c].key /\ next.id = call[c].id
        /\ next.id \in Nat /\ next.key \in Guids
    BY <2>1
  <2>3. Claim(call[c].key, call[c].id) /\ \A s \in setlists : s.guid # call[c].key
    BY <1>6 DEF SetlistUpsertMisses, Claim, WithGuid
  <2>4. Continue(c, next) /\ UNCHANGED <<setlists, session>>
    BY <1>6 DEF SetlistUpsertMisses
  <2> HIDE DEF next
  <2> QED
    BY <2>2, <2>3, <2>4, LookingKeepsSetlistInv
<1> QED
  BY <1>1, <1>2, <1>3, <1>4, <1>5, <1>6 DEF UseSetlists

LEMMA NextKeepsSetlistInv ==
  ASSUME Base, SetlistInv, Next
  PROVE  SetlistInv'
<1>1. ASSUME NEW c \in Consoles, NEW next, call[c].op \notin SavingOps, next.op \notin SavingOps,
             Continue(c, next), UNCHANGED <<setlists, session>>
      PROVE  SetlistInv'
  <2>1. Apart(SavingOps)
    BY <1>1, ContinueEffect DEF Base, Apart
  <2> QED
    BY <1>1, <2>1, QuietSetlists
<1>2. ASSUME NEW c \in Consoles, NEW someone \in Sessions[c], Switch(c, someone) PROVE SetlistInv'
  <2>1. Apart(SavingOps) /\ UNCHANGED setlists
    BY <1>2 DEF Switch, Apart
  <2>2. \A d \in Consoles : call[d].op \in SavingOps => session'[d] = session[d]
    BY <1>2 DEF Switch, Idle, SavingOps, SetlistOps, Base, Whom
  <2> QED
    BY <2>1, <2>2, QuietSetlists
<1>3. ASSUME NEW c \in Consoles, UseBands(c) PROVE SetlistInv'
  <2>1. ASSUME NEW pid \in Players, BandFind(c, pid) PROVE SetlistInv'
    BY <1>1, <2>1 DEF BandFind, Idle, SavingOps, SetlistOps
  <2>2. CASE BandID(c)
    BY <1>1, <2>2 DEF BandID, Idle, SavingOps, SetlistOps
  <2>3. CASE BandInsert(c)
    BY <1>1, <2>3 DEF BandInsert, Return, Idle, SavingOps, SetlistOps
  <2> QED
    BY <1>3, <2>1, <2>2, <2>3 DEF UseBands
<1>4. ASSUME NEW c \in Consoles, UseCharacters(c) PROVE SetlistInv'
  <2>1. ASSUME NEW pid \in Players, NEW guid \in Guids, CharacterFind(c, pid, guid) PROVE SetlistInv'
    BY <1>1, <2>1 DEF CharacterFind, Idle, SavingOps, SetlistOps
  <2>2. CASE CharacterID(c)
    BY <1>1, <2>2 DEF CharacterID, Idle, SavingOps, SetlistOps
  <2>3. CASE CharacterInsert(c)
    BY <1>1, <2>3 DEF CharacterInsert, Return, Idle, SavingOps, SetlistOps
  <2>4. CASE CharacterUpdate(c)
    BY <1>1, <2>4 DEF CharacterUpdate, Return, Idle, SavingOps, SetlistOps
  <2> QED
    BY <1>4, <2>1, <2>2, <2>3, <2>4 DEF UseCharacters
<1>5. ASSUME NEW c \in Consoles, UseImages(c) PROVE SetlistInv'
  <2>1. ASSUME NEW path \in Saved, SaveOpen(c, path) PROVE SetlistInv'
    BY <1>1, <2>1 DEF SaveOpen, Idle, SavingOps, SetlistOps
  <2>2. CASE SaveWrite(c) \/ SaveWriteFails(c)
    BY <1>1, <2>2 DEF SaveWrite, SaveWriteFails, Return, Idle, SavingOps, SetlistOps
  <2> QED
    BY <1>5, <2>1, <2>2 DEF UseImages
<1>6. ASSUME NEW c \in Consoles, UseBattles(c) PROVE SetlistInv'
  <2>2. ASSUME NEW pid \in Players, BattleID(c, pid) PROVE SetlistInv'
    BY <2>2, DrawingKeepsSetlistInv DEF BattleID
  <2>3. CASE BattleInsert(c)
    BY <2>3, BattleInsertKeepsSetlistInv
  <2> QED
    BY <1>6, <2>2, <2>3 DEF UseBattles
<1> QED
  BY <1>2, <1>3, <1>4, <1>5, <1>6, SetlistsKeepSetlistInv, BattleExpiresKeepsSetlistInv DEF Next
------------------------------------------------------------------------------
(* The same for bands and characters, whose updates keep the ID.           *)

\* IDs of documents, and of calls that are about to insert one, differ.
ApartIn(docs, op) ==
  /\ OneID(docs)
  /\ \A d \in docs, c \in Consoles : call[c].op = op => call[c].id # d.id
  /\ \A c, d \in Consoles : c # d /\ call[c].op = op /\ call[d].op = op => call[c].id # call[d].id

BandInv ==
  /\ ApartIn(bands, "band")
  /\ \A b, other \in bands : b.owner = other.owner /\ b.owner \notin Racing => b = other
  /\ \A c \in Consoles :
       call[c].op \in BandOps /\ call[c].key \notin Racing => \A b \in bands : b.owner # call[c].key

NewCharacterOps == {"characterID", "character"}

CharacterInv ==
  /\ ApartIn(characters, "character")
  /\ \A ch, other \in characters : ch.guid = other.guid /\ ch.guid \notin Racing => ch = other
  /\ \A c \in Consoles :
       call[c].op \in NewCharacterOps /\ call[c].key \notin Racing =>
         \A ch \in characters : ch.guid # call[c].key

LEMMA QuietBands ==
  ASSUME BandInv, UNCHANGED bands, Apart(BandOps)
  PROVE  BandInv'
<1>1. \A c \in Consoles : call'[c].op \in BandOps => call'[c] = call[c]
  BY DEF Apart
<1> QED
  BY <1>1 DEF BandInv, ApartIn, OneID, BandOps

LEMMA QuietCharacters ==
  ASSUME CharacterInv, UNCHANGED characters, Apart(NewCharacterOps)
  PROVE  CharacterInv'
<1>1. \A c \in Consoles : call'[c].op \in NewCharacterOps => call'[c] = call[c]
  BY DEF Apart
<1> QED
  BY <1>1 DEF CharacterInv, ApartIn, OneID, NewCharacterOps

LEMMA BandsKeepBandInv ==
  ASSUME Base, BandInv, NEW c \in Consoles, UseBands(c)
  PROVE  BandInv'
<1>1. ASSUME NEW pid \in Players, BandFind(c, pid) PROVE BandInv'
  <2>1. /\ call'[c] = [op |-> "bandID", key |-> pid]
        /\ \A d \in Consoles \ {c} : call'[d] = call[d]
    BY <1>1, ContinueEffect DEF BandFind, Base
  <2>2. UNCHANGED bands /\ \A b \in bands : b.owner # pid
    BY <1>1 DEF BandFind, BandsOf
  <2>3. \A d \in Consoles : call'[d].op = "band" => call'[d] = call[d]
    BY <2>1
  <2>4. ApartIn(bands, "band")'
    BY <2>2, <2>3 DEF BandInv, ApartIn, OneID
  <2>5. ASSUME NEW d \in Consoles, call'[d].op \in BandOps, call'[d].key \notin Racing
        PROVE  \A b \in bands : b.owner # call'[d].key
    BY <2>1, <2>2, <2>5 DEF BandInv
  <2> QED
    BY <2>2, <2>4, <2>5 DEF BandInv
<1>2. ASSUME BandID(c) PROVE BandInv'
  <2> DEFINE new == lastID'["band"]
  <2>1. /\ call'[c] = [op |-> "band", key |-> call[c].key, id |-> new]
        /\ \A d \in Consoles \ {c} : call'[d] = call[d]
        /\ UNCHANGED bands /\ call[c].op = "bandID"
    BY <1>2, ContinueEffect DEF BandID, Base
  <2>2. new = lastID["band"] + 1 /\ lastID["band"] \in Nat
    BY <1>2, DrawnID DEF BandID, Counters
  <2> HIDE DEF new
  <2>3. /\ \A b \in bands : b.id # new
        /\ \A d \in Consoles : call[d].op = "band" => call[d].id # new
    BY <2>2 DEF Base, DocsOK, CallsOK, CallOK
  <2>4. \A b \in bands, d \in Consoles : call'[d].op = "band" => call'[d].id # b.id
    BY <2>1, <2>3 DEF BandInv, ApartIn
  <2>5. ASSUME NEW d \in Consoles, NEW e \in Consoles, d # e, call'[d].op = "band", call'[e].op = "band"
        PROVE  call'[d].id # call'[e].id
    <3>1. CASE d # c /\ e # c
      BY <2>1, <2>5, <3>1 DEF BandInv, ApartIn
    <3>2. CASE d = c \/ e = c
      BY <2>1, <2>3, <2>5, <3>2
    <3> QED
      BY <3>1, <3>2
  <2>6. ASSUME NEW d \in Consoles, call'[d].op \in BandOps, call'[d].key \notin Racing
        PROVE  \A b \in bands : b.owner # call'[d].key
    BY <2>1, <2>6 DEF BandInv, BandOps
  <2> QED
    BY <2>1, <2>4, <2>5, <2>6 DEF BandInv, ApartIn, OneID
<1>3. ASSUME BandInsert(c) PROVE BandInv'
  <2> DEFINE b == [owner |-> call[c].key, id |-> call[c].id]
             key == call[c].key
  <2>1. /\ call'[c] = Idle
        /\ \A d \in Consoles \ {c} : call'[d] = call[d]
        /\ bands' = bands \cup {b} /\ call[c].op = "band"
    BY <1>3, ContinueEffect DEF BandInsert, Return, Base
  <2>2. /\ b.owner = key /\ b.id = call[c].id /\ "key" \in DOMAIN call[c]
        /\ key \notin Racing => \A other \in bands : other.owner # key
        /\ \A other \in bands : other.id # b.id
    BY <2>1 DEF BandInv, ApartIn, BandOps, Base, CallsOK, CallOK
  <2> HIDE DEF b
  <2>3. \A d \in Consoles : call'[d].op \in BandOps => d # c /\ call'[d] = call[d]
    BY <2>1 DEF Idle, BandOps
  <2>4. ApartIn(bands, "band")'
    BY <2>1, <2>2, <2>3 DEF BandInv, ApartIn, OneID, BandOps
  <2>5. \A one, other \in bands' : one.owner = other.owner /\ one.owner \notin Racing => one = other
    BY <2>1, <2>2 DEF BandInv
  <2>6. ASSUME NEW d \in Consoles, call'[d].op \in BandOps, call'[d].key \notin Racing
        PROVE  \A one \in bands' : one.owner # call'[d].key
    <3>1. "key" \in DOMAIN call[d] /\ d # c /\ call'[d] = call[d]
      BY <2>3, <2>6 DEF Base, CallsOK, CallOK
    <3>2. call[d].key # key
      BY <2>2, <2>6, <3>1 DEF Base, OneTurn
    <3> QED
      BY <2>1, <2>2, <2>6, <3>1, <3>2 DEF BandInv
  <2> QED
    BY <2>4, <2>5, <2>6 DEF BandInv
<1> QED
  BY <1>1, <1>2, <1>3 DEF UseBands

LEMMA CharactersKeepCharacterInv ==
  ASSUME Base, CharacterInv, NEW c \in Consoles, UseCharacters(c)
  PROVE  CharacterInv'
<1>1. ASSUME NEW pid \in Players, NEW guid \in Guids, CharacterFind(c, pid, guid) PROVE CharacterInv'
  <2>1. PICK op \in {"characterID", "updateCharacter"} :
          /\ call'[c] = [op |-> op, key |-> guid, pid |-> pid]
          /\ \A d \in Consoles \ {c} : call'[d] = call[d]
          /\ op = "characterID" => \A ch \in characters : ch.guid # guid
    BY <1>1, ContinueEffect DEF CharacterFind, WithGuid, Base
  <2>2. UNCHANGED characters
    BY <1>1 DEF CharacterFind
  <2>3. \A d \in Consoles : call'[d].op = "character" => call'[d] = call[d]
    BY <2>1
  <2>4. ApartIn(characters, "character")'
    BY <2>2, <2>3 DEF CharacterInv, ApartIn, OneID
  <2>5. ASSUME NEW d \in Consoles, call'[d].op \in NewCharacterOps, call'[d].key \notin Racing
        PROVE  \A ch \in characters : ch.guid # call'[d].key
    BY <2>1, <2>5 DEF CharacterInv, NewCharacterOps
  <2> QED
    BY <2>2, <2>4, <2>5 DEF CharacterInv
<1>2. ASSUME CharacterID(c) PROVE CharacterInv'
  <2> DEFINE new == lastID'["character"]
  <2>1. /\ call'[c] = [op |-> "character", key |-> call[c].key, pid |-> call[c].pid, id |-> new]
        /\ \A d \in Consoles \ {c} : call'[d] = call[d]
        /\ UNCHANGED characters /\ call[c].op = "characterID"
    BY <1>2, ContinueEffect DEF CharacterID, Base
  <2>2. new = lastID["character"] + 1 /\ lastID["character"] \in Nat
    BY <1>2, DrawnID DEF CharacterID, Counters
  <2> HIDE DEF new
  <2>3. /\ \A ch \in characters : ch.id # new
        /\ \A d \in Consoles : call[d].op = "character" => call[d].id # new
    BY <2>2 DEF Base, DocsOK, CallsOK, CallOK
  <2>4. \A ch \in characters, d \in Consoles : call'[d].op = "character" => call'[d].id # ch.id
    BY <2>1, <2>3 DEF CharacterInv, ApartIn
  <2>5. ASSUME NEW d \in Consoles, NEW e \in Consoles, d # e,
               call'[d].op = "character", call'[e].op = "character"
        PROVE  call'[d].id # call'[e].id
    <3>1. CASE d # c /\ e # c
      BY <2>1, <2>5, <3>1 DEF CharacterInv, ApartIn
    <3>2. CASE d = c \/ e = c
      BY <2>1, <2>3, <2>5, <3>2
    <3> QED
      BY <3>1, <3>2
  <2>6. ASSUME NEW d \in Consoles, call'[d].op \in NewCharacterOps, call'[d].key \notin Racing
        PROVE  \A ch \in characters : ch.guid # call'[d].key
    BY <2>1, <2>6 DEF CharacterInv, NewCharacterOps
  <2> QED
    BY <2>1, <2>4, <2>5, <2>6 DEF CharacterInv, ApartIn, OneID
<1>3. ASSUME CharacterInsert(c) PROVE CharacterInv'
  <2> DEFINE ch == [guid |-> call[c].key, owner |-> call[c].pid, id |-> call[c].id,
                    by |-> session[c].pid]
             key == call[c].key
  <2>1. /\ call'[c] = Idle
        /\ \A d \in Consoles \ {c} : call'[d] = call[d]
        /\ characters' = characters \cup {ch} /\ call[c].op = "character"
    BY <1>3, ContinueEffect DEF CharacterInsert, Return, Base
  <2>2. /\ ch.guid = key /\ ch.id = call[c].id /\ "key" \in DOMAIN call[c]
        /\ key \notin Racing => \A other \in characters : other.guid # key
        /\ \A other \in characters : other.id # ch.id
    BY <2>1 DEF CharacterInv, ApartIn, CharacterOps, NewCharacterOps, Base, CallsOK, CallOK
  <2> HIDE DEF ch
  <2>3. \A d \in Consoles : call'[d].op \in NewCharacterOps => d # c /\ call'[d] = call[d]
    BY <2>1 DEF Idle, NewCharacterOps
  <2>4. ApartIn(characters, "character")'
    BY <2>1, <2>2, <2>3 DEF CharacterInv, ApartIn, OneID, NewCharacterOps
  <2>5. \A one, other \in characters' : one.guid = other.guid /\ one.guid \notin Racing => one = other
    BY <2>1, <2>2 DEF CharacterInv
  <2>6. ASSUME NEW d \in Consoles, call'[d].op \in NewCharacterOps, call'[d].key \notin Racing
        PROVE  \A one \in characters' : one.guid # call'[d].key
    <3>1. "key" \in DOMAIN call[d] /\ d # c /\ call'[d] = call[d]
      BY <2>3, <2>6 DEF Base, CallsOK, CallOK, CharacterOps, NewCharacterOps
    <3>2. call[d].key # key
      BY <2>2, <2>6, <3>1 DEF Base, OneTurn
    <3> QED
      BY <2>1, <2>2, <2>6, <3>1, <3>2 DEF CharacterInv
  <2> QED
    BY <2>4, <2>5, <2>6 DEF CharacterInv
<1>4. ASSUME CharacterUpdate(c) PROVE CharacterInv'
  <2>1. PICK old \in WithGuid(characters, call[c].key) :
          characters' = (characters \ {old}) \cup {[old EXCEPT !.by = session[c].pid]}
    BY <1>4 DEF CharacterUpdate
  <2> DEFINE ch == [old EXCEPT !.by = session[c].pid]
  <2>2. ch.id = old.id /\ ch.guid = old.guid /\ old \in characters
    BY DEF WithGuid
  <2> HIDE DEF ch
  <2>3. characters' = (characters \ {old}) \cup {ch}
    BY <2>1 DEF ch
  <2>4. call'[c] = Idle /\ \A d \in Consoles \ {c} : call'[d] = call[d]
    BY <1>4, ContinueEffect DEF CharacterUpdate, Return, Base
  <2>5. \A d \in Consoles : call'[d].op \in NewCharacterOps => call'[d] = call[d]
    BY <2>4 DEF Idle, NewCharacterOps
  <2>6. ApartIn(characters, "character")'
    BY <2>2, <2>3, <2>5 DEF CharacterInv, ApartIn, OneID, NewCharacterOps
  <2> QED
    BY <2>2, <2>3, <2>5, <2>6 DEF CharacterInv
<1> QED
  BY <1>1, <1>2, <1>3, <1>4 DEF UseCharacters

\* A step of the call of c, of one service.
StepOf(c, ops) ==
  \E next : Continue(c, next) /\ call[c].op \in ops \cup {"idle"} /\ next.op \in ops \cup {"idle"}

LEMMA StepApart ==
  ASSUME Base, NEW c \in Consoles, NEW ops, StepOf(c, ops), NEW others,
         others \cap (ops \cup {"idle"}) = {}
  PROVE  Apart(others)
<1>1. PICK next :
        Continue(c, next) /\ call[c].op \in ops \cup {"idle"} /\ next.op \in ops \cup {"idle"}
  BY DEF StepOf
<1>2. call'[c] = next /\ \A d \in Consoles \ {c} : call'[d] = call[d]
  BY <1>1, ContinueEffect DEF Base
<1> QED
  BY <1>1, <1>2 DEF Apart

LEMMA CallSteps ==
  ASSUME Base, NEW c \in Consoles
  PROVE  /\ UseSetlists(c) =>
              StepOf(c, SetlistOps) /\ UNCHANGED <<bands, characters, images, session>>
         /\ UseBands(c) =>
              StepOf(c, BandOps) /\ UNCHANGED <<setlists, characters, images, session>>
         /\ UseCharacters(c) =>
              StepOf(c, CharacterOps) /\ UNCHANGED <<setlists, bands, images, session>>
         /\ UseBattles(c) =>
              StepOf(c, {"battle"}) /\ UNCHANGED <<bands, characters, images, session>>
         /\ UseImages(c) =>
              StepOf(c, {"image"}) /\ UNCHANGED <<setlists, bands, characters, lastID, session>>
<1>1. UseSetlists(c) =>
        StepOf(c, SetlistOps) /\ UNCHANGED <<bands, characters, images, session>>
  <2>1. ASSUME NEW pid \in Players, NEW guid \in Guids, SetlistFindNew(c, pid, guid)
        PROVE  StepOf(c, SetlistOps)
    BY <2>1 DEF SetlistFindNew, Idle, StepOf, SetlistOps
  <2>2. ASSUME NEW pid \in Players, NEW guid \in Guids, SetlistFind(c, pid, guid)
        PROVE  StepOf(c, SetlistOps)
    BY <2>2 DEF SetlistFind, Idle, StepOf, SetlistOps
  <2>3. SetlistID(c) => StepOf(c, SetlistOps)
    BY DEF SetlistID, StepOf, SetlistOps
  <2>4. SetlistUpdate(c) \/ SetlistUpsertInserts(c) => StepOf(c, SetlistOps)
    BY DEF SetlistUpdate, SetlistUpsertInserts, Return, Idle, StepOf, SetlistOps
  <2>5. ASSUME SetlistUpsertMisses(c) PROVE StepOf(c, SetlistOps)
    <3> DEFINE next == [call[c] EXCEPT !.op = "insertSetlist"]
    <3>1. call[c] \in [op : {"setlist"}, key : Guids, pid : Players, id : Nat]
      BY <2>5 DEF SetlistUpsertMisses, Base, CallsOK, CallOK
    <3>2. next.op = "insertSetlist"
      BY <3>1
    <3>3. Continue(c, next) /\ call[c].op = "setlist"
      BY <2>5 DEF SetlistUpsertMisses
    <3> HIDE DEF next
    <3> QED
      BY <3>2, <3>3 DEF StepOf, SetlistOps
  <2> QED
    BY <2>1, <2>2, <2>3, <2>4, <2>5 DEF UseSetlists, SetlistFindNew, SetlistFind, SetlistID,
       SetlistUpdate, SetlistUpsertMisses, SetlistUpsertInserts
<1>2. UseBands(c) =>
        StepOf(c, BandOps) /\ UNCHANGED <<setlists, characters, images, session>>
  <2>1. ASSUME NEW pid \in Players, BandFind(c, pid) PROVE StepOf(c, BandOps)
    BY <2>1 DEF BandFind, Idle, StepOf, BandOps
  <2>2. BandID(c) \/ BandInsert(c) => StepOf(c, BandOps)
    BY DEF BandID, BandInsert, Return, Idle, StepOf, BandOps
  <2> QED
    BY <2>1, <2>2 DEF UseBands, BandFind, BandID, BandInsert
<1>3. UseCharacters(c) =>
        StepOf(c, CharacterOps) /\ UNCHANGED <<setlists, bands, images, session>>
  <2>1. ASSUME NEW pid \in Players, NEW guid \in Guids, CharacterFind(c, pid, guid)
        PROVE  StepOf(c, CharacterOps)
    BY <2>1 DEF CharacterFind, Idle, StepOf, CharacterOps
  <2>2. CharacterID(c) \/ CharacterInsert(c) \/ CharacterUpdate(c) => StepOf(c, CharacterOps)
    BY DEF CharacterID, CharacterInsert, CharacterUpdate, Return, Idle, StepOf, CharacterOps
  <2> QED
    BY <2>1, <2>2 DEF UseCharacters, CharacterFind, CharacterID, CharacterInsert, CharacterUpdate
<1>4. UseBattles(c) =>
        StepOf(c, {"battle"}) /\ UNCHANGED <<bands, characters, images, session>>
  <2>1. ASSUME NEW pid \in Players, BattleID(c, pid) PROVE StepOf(c, {"battle"})
    BY <2>1 DEF BattleID, Idle, StepOf
  <2>2. BattleInsert(c) => StepOf(c, {"battle"})
    BY DEF BattleInsert, Return, Idle, StepOf
  <2> QED
    BY <2>1, <2>2 DEF UseBattles, BattleID, BattleInsert
<1>5. UseImages(c) =>
        StepOf(c, {"image"}) /\ UNCHANGED <<setlists, bands, characters, lastID, session>>
  <2>1. ASSUME NEW path \in Saved, SaveOpen(c, path) PROVE StepOf(c, {"image"})
    BY <2>1 DEF SaveOpen, Idle, StepOf
  <2>2. SaveWrite(c) \/ SaveWriteFails(c) => StepOf(c, {"image"})
    BY DEF SaveWrite, SaveWriteFails, Return, Idle, StepOf
  <2> QED
    BY <2>1, <2>2 DEF UseImages, SaveOpen, SaveWrite, SaveWriteFails
<1> QED
  BY <1>1, <1>2, <1>3, <1>4, <1>5

LEMMA NextKeepsBandsAndCharacters ==
  ASSUME Base, BandInv, CharacterInv, Next
  PROVE  BandInv' /\ CharacterInv'
<1>1. ASSUME NEW c \in Consoles, NEW ops, StepOf(c, ops)
      PROVE  /\ BandOps \cap (ops \cup {"idle"}) = {} /\ UNCHANGED bands => BandInv'
             /\ NewCharacterOps \cap (ops \cup {"idle"}) = {} /\ UNCHANGED characters => CharacterInv'
  BY <1>1, StepApart, QuietBands, QuietCharacters
<1>2. ASSUME UNCHANGED <<bands, characters, call>> PROVE BandInv' /\ CharacterInv'
  BY <1>2, QuietBands, QuietCharacters DEF Apart
<1>3. ASSUME NEW c \in Consoles, UseBands(c) PROVE BandInv' /\ CharacterInv'
  BY <1>1, <1>3, BandsKeepBandInv, CallSteps DEF BandOps, NewCharacterOps
<1>4. ASSUME NEW c \in Consoles, UseCharacters(c) PROVE BandInv' /\ CharacterInv'
  BY <1>1, <1>4, CharactersKeepCharacterInv, CallSteps DEF BandOps, CharacterOps
<1>5. ASSUME NEW c \in Consoles, UseSetlists(c) PROVE BandInv' /\ CharacterInv'
  BY <1>1, <1>5, CallSteps DEF BandOps, NewCharacterOps, SetlistOps
<1>6. ASSUME NEW c \in Consoles, UseBattles(c) \/ UseImages(c) PROVE BandInv' /\ CharacterInv'
  BY <1>1, <1>2, <1>6, CallSteps DEF BandOps, NewCharacterOps
<1>7. ASSUME NEW c \in Consoles, NEW someone \in Sessions[c], Switch(c, someone)
      PROVE  BandInv' /\ CharacterInv'
  BY <1>2, <1>7 DEF Switch
<1>8. ASSUME NEW s \in setlists, BattleExpires(s) PROVE BandInv' /\ CharacterInv'
  BY <1>2, <1>8 DEF BattleExpires
<1> QED
  BY <1>3, <1>4, <1>5, <1>6, <1>7, <1>8 DEF Next
------------------------------------------------------------------------------
(* Images.                                                                 *)

\* There is an image under path, or one is being written, that was saved for p's.
Holds(path, p) ==
  \/ p \in images[path]
  \/ \E c \in Consoles : call[c].op = "image" /\ call[c].path = path /\ p \in call[c].for

SetlistWrites == {"setlist", "insertSetlist", "battle"}

\* An image that was saved for p's battle was saved under an ID that no other setlist has
\* or gets.  Bands are never deleted.
SavedFor(path, p) ==
  IF path.type = "battle_art"
  THEN /\ path.of <= lastID["setlist"]
       /\ \A s \in setlists : s.id = path.of => s.type # Ordinary /\ s.pid = p
       /\ \A c \in Consoles : call[c].op \in SetlistWrites => call[c].id # path.of
  ELSE p \in Pictured(path)

ImageInv ==
  /\ images = [path \in Path |-> images[path]]
  /\ \A path \in Path : \A p : Holds(path, p) => SavedFor(path, p)

\* A setlist is written under the ID of one of a console's, or a new one.
LEMMA QuietImages ==
  ASSUME ImageInv, images' = [path \in Path |-> images'[path]],
         lastID \in [Counters -> Nat], lastID' \in [Counters -> Nat],
         \A n \in Counters : lastID[n] <= lastID'[n], bands \subseteq bands',
         \A path \in Path : \A p : Holds(path, p)' => Holds(path, p),
         \A s \in setlists' : s \in setlists \/
           \E c \in Consoles : call[c].op \in SetlistWrites /\ call[c].id = s.id,
         \A c \in Consoles : call'[c].op \in SetlistWrites =>
           \/ \E d \in Consoles : call[d].op \in SetlistWrites /\ call'[c].id = call[d].id
           \/ \E s \in setlists : s.type = Ordinary /\ call'[c].id = s.id
           \/ call'[c].id = lastID["setlist"] + 1
  PROVE  ImageInv'
<1> SUFFICES ASSUME NEW path \in Path, NEW p, Holds(path, p)' PROVE SavedFor(path, p)'
  BY DEF ImageInv
<1>1. SavedFor(path, p)
  BY DEF ImageInv
<1>2. CASE path.type = "battle_art"
  <2>1. /\ path.of <= lastID["setlist"] /\ path.of \in Int
        /\ \A s \in setlists : s.id = path.of => s.type # Ordinary /\ s.pid = p
        /\ \A c \in Consoles : call[c].op \in SetlistWrites => call[c].id # path.of
    BY <1>1, <1>2 DEF SavedFor, Path, IDs
  <2>2. lastID["setlist"] \in Nat /\ lastID'["setlist"] \in Nat /\ lastID["setlist"] <= lastID'["setlist"]
    BY DEF Counters
  <2>3. path.of # lastID["setlist"] + 1 /\ path.of <= lastID'["setlist"]
    BY <2>1, <2>2
  <2>4. \A s \in setlists' : s.id = path.of => s.type # Ordinary /\ s.pid = p
    BY <2>1
  <2>5. \A c \in Consoles : call'[c].op \in SetlistWrites => call'[c].id # path.of
    BY <2>1, <2>3
  <2> QED
    BY <1>2, <2>3, <2>4, <2>5 DEF SavedFor
<1>3. CASE path.type # "battle_art"
  <2>1. p \in Pictured(path)
    BY <1>1, <1>3 DEF SavedFor
  <2>2. p \in Pictured(path)'
    BY <1>3, <2>1 DEF Pictured
  <2> QED
    BY <1>3, <2>2 DEF SavedFor
<1> QED
  BY <1>2, <1>3

LEMMA CountersGrow ==
  ASSUME Base, Next
  PROVE  lastID' \in [Counters -> Nat] /\ \A n \in Counters : lastID[n] <= lastID'[n]
<1>1. CASE UNCHANGED lastID
  BY <1>1 DEF Base, DocsOK
<1>2. CASE \E counter \in Counters : NextID(counter)
  BY <1>2, DrawnID
<1>3. ASSUME NEW c \in Consoles, UseSetlists(c) \/ UseBands(c)
      PROVE  UNCHANGED lastID \/ \E counter \in Counters : NextID(counter)
  BY <1>3 DEF Counters, UseSetlists, SetlistFindNew, SetlistFind, SetlistID, SetlistUpdate,
     SetlistUpsertMisses, SetlistUpsertInserts, UseBands, BandFind, BandID, BandInsert
<1>4. ASSUME NEW c \in Consoles, UseCharacters(c) \/ UseBattles(c) \/ UseImages(c)
      PROVE  UNCHANGED lastID \/ \E counter \in Counters : NextID(counter)
  BY <1>4 DEF Counters, UseCharacters, CharacterFind, CharacterID, CharacterInsert, CharacterUpdate,
     UseBattles, BattleID, BattleInsert, UseImages, SaveOpen, SaveWrite, SaveWriteFails
<1>5. ASSUME NEW c \in Consoles, NEW someone \in Sessions[c], Switch(c, someone)
      PROVE  UNCHANGED lastID
  BY <1>5 DEF Switch
<1>6. ASSUME NEW s \in setlists, BattleExpires(s) PROVE UNCHANGED lastID
  BY <1>6 DEF BattleExpires
<1> QED
  BY <1>1, <1>2, <1>3, <1>4, <1>5, <1>6 DEF Next

\* Steps that save no image.
LEMMA ImagesStay ==
  ASSUME ImageInv, UNCHANGED images, Apart({"image"})
  PROVE  /\ images' = [path \in Path |-> images'[path]]
         /\ \A path \in Path : \A p : Holds(path, p)' => Holds(path, p)
  BY DEF Holds, Apart, ImageInv

LEMMA SetlistsKeepImageInv ==
  ASSUME Base, ImageInv, Next, NEW c \in Consoles, UseSetlists(c)
  PROVE  ImageInv'
<1>1. Apart({"image"}) /\ UNCHANGED <<images, bands>>
  BY CallSteps, StepApart DEF SetlistOps
<1>2. lastID \in [Counters -> Nat]
  BY DEF Base, DocsOK
<1>3. ASSUME NEW next, Continue(c, next),
             next.op \in SetlistWrites =>
               \/ call[c].op \in SetlistWrites /\ next.id = call[c].id
               \/ \E s \in setlists : s.type = Ordinary /\ next.id = s.id
               \/ next.id = lastID["setlist"] + 1,
             \A s \in setlists' : s \in setlists \/ (call[c].op \in SetlistWrites /\ call[c].id = s.id)
      PROVE  ImageInv'
  <2>1. call'[c] = next /\ \A d \in Consoles \ {c} : call'[d] = call[d]
    BY <1>3, ContinueEffect DEF Base
  <2>2. \A d \in Consoles : call'[d].op \in SetlistWrites =>
          \/ \E e \in Consoles : call[e].op \in SetlistWrites /\ call'[d].id = call[e].id
          \/ \E s \in setlists : s.type = Ordinary /\ call'[d].id = s.id
          \/ call'[d].id = lastID["setlist"] + 1
    BY <1>3, <2>1
  <2> QED
    BY <1>1, <1>2, <1>3, <2>2, ImagesStay, CountersGrow, QuietImages
<1>4. ASSUME NEW pid \in Players, NEW guid \in Guids, SetlistFindNew(c, pid, guid) PROVE ImageInv'
  BY <1>3, <1>4 DEF SetlistFindNew, SetlistWrites
<1>5. ASSUME NEW pid \in Players, NEW guid \in Guids, SetlistFind(c, pid, guid) PROVE ImageInv'
  <2>1. PICK s \in WithGuid(setlists, guid) :
          Continue(c, [op |-> "setlist", key |-> guid, pid |-> pid, id |-> s.id])
    BY <1>5 DEF SetlistFind
  <2>2. s \in setlists /\ s.type = Ordinary /\ UNCHANGED setlists
    BY <1>5 DEF SetlistFind, WithGuid, Base, DocsOK
  <2> QED
    BY <1>3, <2>1, <2>2
<1>6. ASSUME SetlistID(c) PROVE ImageInv'
  <2>1. lastID'["setlist"] = lastID["setlist"] + 1
    BY <1>6, DrawnID DEF SetlistID, Counters
  <2> QED
    BY <1>3, <1>6, <2>1 DEF SetlistID
<1>7. ASSUME SetlistUpdate(c) \/ SetlistUpsertInserts(c) PROVE ImageInv'
  <2>1. Continue(c, Idle) /\ Idle.op \notin SetlistWrites /\ call[c].op \in SetlistWrites
    BY <1>7 DEF SetlistUpdate, SetlistUpsertInserts, Return, Idle, SetlistWrites
  <2>2. \A s \in setlists' : s \in setlists \/ call[c].id = s.id
    BY <1>7 DEF SetlistUpdate, SetlistUpsertInserts, Updated
  <2> QED
    BY <1>3, <2>1, <2>2
<1>8. ASSUME SetlistUpsertMisses(c) PROVE ImageInv'
  <2> DEFINE next == [call[c] EXCEPT !.op = "insertSetlist"]
  <2>1. call[c] \in [op : {"setlist"}, key : Guids, pid : Players, id : Nat]
    BY <1>8 DEF SetlistUpsertMisses, Base, CallsOK, CallOK
  <2>2. next.id = call[c].id /\ call[c].op \in SetlistWrites
    BY <2>1 DEF SetlistWrites
  <2>3. Continue(c, next) /\ UNCHANGED setlists
    BY <1>8 DEF SetlistUpsertMisses
  <2> HIDE DEF next
  <2> QED
    BY <1>3, <2>2, <2>3
<1> QED
  BY <1>4, <1>5, <1>6, <1>7, <1>8 DEF UseSetlists

LEMMA BattlesKeepImageInv ==
  ASSUME Base, ImageInv, Next, NEW c \in Consoles, UseBattles(c)
  PROVE  ImageInv'
<1>1. Apart({"image"}) /\ UNCHANGED <<images, bands>>
  BY CallSteps, StepApart
<1>2. lastID \in [Counters -> Nat]
  BY DEF Base, DocsOK
<1>3. ASSUME NEW pid \in Players, BattleID(c, pid) PROVE ImageInv'
  <2>1. /\ call'[c].id = lastID'["setlist"] /\ lastID'["setlist"] = lastID["setlist"] + 1
        /\ \A d \in Consoles \ {c} : call'[d] = call[d]
        /\ UNCHANGED setlists
    BY <1>3, ContinueEffect, DrawnID DEF BattleID, Base, Counters
  <2>2. \A d \in Consoles : call'[d].op \in SetlistWrites =>
          \/ \E e \in Consoles : call[e].op \in SetlistWrites /\ call'[d].id = call[e].id
          \/ call'[d].id = lastID["setlist"] + 1
    BY <2>1
  <2> QED
    BY <1>1, <1>2, <2>1, <2>2, ImagesStay, CountersGrow, QuietImages
<1>4. CASE BattleInsert(c)
  <2>1. /\ call'[c].op \notin SetlistWrites /\ \A d \in Consoles \ {c} : call'[d] = call[d]
        /\ call[c].op \in SetlistWrites
    BY <1>4, ContinueEffect DEF BattleInsert, Return, Idle, Base, SetlistWrites
  <2>2. \A s \in setlists' : s \in setlists \/ call[c].id = s.id
    BY <1>4 DEF BattleInsert
  <2>3. \A d \in Consoles : call'[d].op \in SetlistWrites =>
          \E e \in Consoles : call[e].op \in SetlistWrites /\ call'[d].id = call[e].id
    BY <2>1
  <2> QED
    BY <1>1, <1>2, <2>1, <2>2, <2>3, ImagesStay, CountersGrow, QuietImages
<1> QED
  BY <1>3, <1>4 DEF UseBattles

\* Battles and bands stay what they are while images are saved for them.
LEMMA SavingKeepsImageInv ==
  ASSUME Base, SetlistInv, ImageInv, Next, NEW c \in Consoles, UseImages(c)
  PROVE  ImageInv'
<1>1. UNCHANGED <<setlists, bands, lastID>> /\ Apart(SetlistWrites)
  BY CallSteps, StepApart DEF SetlistWrites
<1>2. \A d \in Consoles : call'[d].op \in SetlistWrites => call'[d] = call[d]
  BY <1>1 DEF Apart
<1>3. lastID \in [Counters -> Nat] /\ images = [path \in Path |-> images[path]]
  BY DEF Base, DocsOK, ImageInv
<1>4. ASSUME NEW path \in Saved, SaveOpen(c, path) PROVE ImageInv'
  <2>1. /\ images' = [images EXCEPT ![path] = {}]
        /\ call'[c] = [op |-> "image", path |-> path, for |-> Pictured(path)]
        /\ \A d \in Consoles \ {c} : call'[d] = call[d]
    BY <1>4, ContinueEffect DEF SaveOpen, Base
  <2>2. ASSUME NEW other \in Path, NEW p, Holds(other, p)'
        PROVE  Holds(other, p) \/ (other = path /\ p \in Pictured(path))
    <3>1. CASE p \in images'[other]
      BY <1>3, <2>1, <3>1 DEF Holds
    <3>2. ASSUME NEW d \in Consoles, call'[d].op = "image", call'[d].path = other, p \in call'[d].for
          PROVE  Holds(other, p) \/ (other = path /\ p \in Pictured(path))
      BY <2>1, <3>2 DEF Holds
    <3> QED
      BY <2>2, <3>1, <3>2 DEF Holds
  <2>3. ASSUME NEW p \in Pictured(path), path.type = "battle_art"
        PROVE  /\ path.of <= lastID["setlist"]
               /\ \A s \in setlists : s.id = path.of => s.type # Ordinary /\ s.pid = p
               /\ \A d \in Consoles : call[d].op \in SetlistWrites => call[d].id # path.of
    <3>1. PICK s \in setlists : s.type # Ordinary /\ s.id = path.of /\ s.pid = p
      BY <2>3 DEF Pictured
    <3>2. s.guid = NoGuid /\ s.id \in 1 .. lastID["setlist"] /\ lastID["setlist"] \in Nat
      BY <1>3, <3>1 DEF Base, DocsOK, Counters
    <3>3. Claim(NoGuid, s.id) /\ s.id \in Nat
      BY <3>2 DEF Claim
    <3>4. ASSUME NEW t \in setlists, t.id = s.id PROVE t = s
      <4>1. Claim(t.guid, s.id) /\ t.guid \in Guids \cup {NoGuid}
        BY <3>4 DEF Claim, Base, DocsOK
      <4>2. t.guid = NoGuid
        BY <3>3, <4>1 DEF SetlistInv, OneGuid
      <4> QED
        BY <3>2, <3>4, <4>2 DEF SetlistInv, BattlesApart
    <3>5. ASSUME NEW d \in Consoles, call[d].op \in {"setlist", "insertSetlist"}, call[d].id = s.id
          PROVE  FALSE
      <4>1. Claim(call[d].key, s.id) /\ call[d].key \in Guids
        BY <3>5 DEF Claim, Base, CallsOK, CallOK, SetlistOps
      <4> QED
        BY <3>3, <4>1, SavedDataAssumption DEF SetlistInv, OneGuid
    <3>6. \A d \in Consoles : call[d].op = "battle" => call[d].id # s.id
      BY DEF SetlistInv, BattlesApart
    <3>7. path.of <= lastID["setlist"]
      BY <3>1, <3>2
    <3> QED
      BY <3>1, <3>4, <3>5, <3>6, <3>7 DEF SetlistWrites
  <2>4. ASSUME NEW other \in Path, NEW p, Holds(other, p)'
        PROVE  SavedFor(other, p)
    BY <2>2, <2>3, <2>4 DEF ImageInv, SavedFor
  <2>5. \A other : Pictured(other)' = Pictured(other)
    BY <1>1 DEF Pictured
  <2>6. images' = [other \in Path |-> images'[other]]
    BY <1>3, <2>1
  <2> QED
    BY <1>1, <1>2, <2>1, <2>4, <2>5, <2>6 DEF ImageInv, SavedFor
<1>5. CASE SaveWrite(c) \/ SaveWriteFails(c)
  <2>1. /\ images' = images \/ images' = [images EXCEPT ![call[c].path] = call[c].for]
        /\ call[c].op = "image" /\ call'[c] = Idle
        /\ \A d \in Consoles \ {c} : call'[d] = call[d]
    BY <1>5, ContinueEffect DEF SaveWrite, SaveWriteFails, Return, Base
  <2>2. ASSUME NEW path \in Path, NEW p, Holds(path, p)' PROVE Holds(path, p)
    <3>1. CASE p \in images'[path]
      BY <1>3, <2>1, <3>1 DEF Holds
    <3>2. ASSUME NEW d \in Consoles, call'[d].op = "image", call'[d].path = path, p \in call'[d].for
          PROVE  Holds(path, p)
      BY <2>1, <3>2 DEF Holds, Idle
    <3> QED
      BY <2>2, <3>1, <3>2 DEF Holds
  <2>3. \A d \in Consoles : call'[d].op \in SetlistWrites =>
          \E e \in Consoles : call[e].op \in SetlistWrites /\ call'[d].id = call[e].id
    BY <1>2
  <2>4. images' = [path \in Path |-> images'[path]]
    BY <1>3, <2>1
  <2> QED
    BY <1>1, <1>3, <2>2, <2>3, <2>4, CountersGrow, QuietImages
<1> QED
  BY <1>4, <1>5 DEF UseImages

LEMMA NextKeepsImageInv ==
  ASSUME Base, SetlistInv, ImageInv, Next
  PROVE  ImageInv'
<1>1. lastID \in [Counters -> Nat]
  BY DEF Base, DocsOK
<1>2. ASSUME UNCHANGED images, Apart({"image"}), Apart(SetlistWrites),
             setlists' \subseteq setlists, bands \subseteq bands'
      PROVE  ImageInv'
  <2>1. \A c \in Consoles : call'[c].op \in SetlistWrites => call'[c] = call[c]
    BY <1>2 DEF Apart
  <2> QED
    BY <1>1, <1>2, <2>1, ImagesStay, CountersGrow, QuietImages
<1>3. ASSUME NEW c \in Consoles, NEW someone \in Sessions[c], Switch(c, someone) PROVE ImageInv'
  BY <1>2, <1>3 DEF Switch, Apart
<1>4. ASSUME NEW s \in setlists, BattleExpires(s) PROVE ImageInv'
  BY <1>2, <1>4 DEF BattleExpires, Apart
<1>5. ASSUME NEW c \in Consoles, UseBands(c) PROVE ImageInv'
  <2>1. Apart({"image"}) /\ Apart(SetlistWrites) /\ UNCHANGED <<images, setlists>>
    BY <1>5, CallSteps, StepApart DEF BandOps, SetlistWrites
  <2>2. bands \subseteq bands'
    BY <1>5 DEF UseBands, BandFind, BandID, BandInsert
  <2> QED
    BY <1>2, <2>1, <2>2
<1>6. ASSUME NEW c \in Consoles, UseCharacters(c) PROVE ImageInv'
  <2>1. Apart({"image"}) /\ Apart(SetlistWrites) /\ UNCHANGED <<images, setlists, bands>>
    BY <1>6, CallSteps, StepApart DEF CharacterOps, SetlistWrites
  <2> QED
    BY <1>2, <2>1
<1> QED
  BY <1>3, <1>4, <1>5, <1>6, SetlistsKeepImageInv, BattlesKeepImageInv, SavingKeepsImageInv DEF Next
------------------------------------------------------------------------------

(* The theorems about what is saved.                                       *)

SavingInv ==
  /\ Base
  /\ SetlistInv /\ BandInv /\ CharacterInv
  /\ ImageInv

LEMMA SavingInvariant == Spec => []SavingInv
<1>1. Init => SavingInv
  <2> SUFFICES ASSUME Init PROVE SavingInv
    OBVIOUS
  <2>1. Base
    BY InitBase
  <2>2. /\ setlists = {} /\ bands = {} /\ characters = {}
        /\ \A c \in Consoles : call[c].op = "idle"
    BY DEF Init, Idle
  <2>4. SetlistInv
    BY <2>2 DEF SetlistInv, OneGuid, Claim, BattlesApart, OneSetlist, FoundStill
  <2>5. BandInv /\ CharacterInv
    BY <2>2 DEF BandInv, CharacterInv, ApartIn, OneID, BandOps, NewCharacterOps
  <2>7. ImageInv
    <3>1. \A path \in Path : images[path] = {}
      BY DEF Init
    <3>2. images = [path \in Path |-> images[path]]
      BY DEF Init
    <3> QED
      BY <2>2, <3>1, <3>2 DEF ImageInv, Holds
  <2> QED
    BY <2>1, <2>4, <2>5, <2>7 DEF SavingInv
<1>2. SavingInv /\ [Next]_vars => SavingInv'
  <2>1. ASSUME SavingInv, Next PROVE SavingInv'
    BY <2>1, NextKeepsBase, NextKeepsSetlistInv, NextKeepsBandsAndCharacters, NextKeepsImageInv
    DEF SavingInv
  <2>2. ASSUME SavingInv, UNCHANGED vars PROVE SavingInv'
    <3>1. Base'
      BY <2>2 DEF vars, SavingInv, Base, CallsOK, CallOK, OneTurn, Whom, DocsOK
    <3>2. SetlistInv' /\ BandInv' /\ CharacterInv'
      BY <2>2, QuietSetlists, QuietBands, QuietCharacters DEF vars, SavingInv, Apart
    <3>3. ImageInv'
      BY <2>2 DEF vars, SavingInv, ImageInv, SavedFor, Holds, Pictured
    <3> QED
      BY <3>1, <3>2, <3>3 DEF SavingInv
  <2> QED
    BY <2>1, <2>2
<1> QED
  BY <1>1, <1>2, PTL DEF Spec

LEMMA AtMostOne ==
  ASSUME NEW S, \A x, y \in S : x = y
  PROVE  Cardinality(S) <= 1
<1>1. CASE S = {}
  BY <1>1, FS_EmptySet
<1>2. CASE S # {}
  <2>1. PICK x \in S : TRUE
    BY <1>2
  <2>2. S = {x}
    BY <2>1
  <2> QED
    BY <2>2, FS_Singleton
<1> QED
  BY <1>1, <1>2

\* A setlist, battle, band or character is saved once and under an ID of its own, except
\* where calls for it overlap, although each service looks, draws an ID and writes in
\* separate calls (setlists/update.go:99, entities/band/update.go:88).
THEOREM EachSavedOnce == Spec => []SavedOnce
<1>1. SavingInv => SavedOnce
  <2> SUFFICES ASSUME SavingInv PROVE SavedOnce
    OBVIOUS
  <2>1. OneID(bands) /\ OneID(characters)
    BY DEF SavingInv, BandInv, CharacterInv, ApartIn
  <2>2. \A s, t \in setlists : s.id = t.id => s.guid = t.guid
    <3> SUFFICES ASSUME NEW s \in setlists, NEW t \in setlists, s.id = t.id PROVE s.guid = t.guid
      OBVIOUS
    <3>1. Claim(s.guid, s.id) /\ Claim(t.guid, s.id)
      BY DEF Claim
    <3>2. s.id \in Nat /\ s.guid \in Guids \cup {NoGuid} /\ t.guid \in Guids \cup {NoGuid}
      BY DEF SavingInv, Base, DocsOK
    <3> QED
      BY <3>1, <3>2 DEF SavingInv, SetlistInv, OneGuid
  <2>3. OneID({s \in setlists : s.guid \notin Racing})
    <3> SUFFICES ASSUME NEW s \in setlists, NEW t \in setlists, s.guid \notin Racing, s.id = t.id
                 PROVE  s = t
      BY DEF OneID
    <3>1. s.guid = t.guid /\ s.guid \in Guids \cup {NoGuid}
      BY <2>2 DEF SavingInv, Base, DocsOK
    <3>2. CASE s.guid = NoGuid
      BY <3>1, <3>2 DEF SavingInv, SetlistInv, BattlesApart
    <3>3. CASE s.guid \in Guids
      BY <3>1, <3>3 DEF SavingInv, SetlistInv, OneSetlist
    <3> QED
      BY <3>1, <3>2, <3>3
  <2>4. ASSUME NEW guid \in Guids \ Racing
        PROVE  Cardinality(WithGuid(setlists, guid)) <= 1 /\ Cardinality(WithGuid(characters, guid)) <= 1
    <3>1. \A s, t \in WithGuid(setlists, guid) : s = t
      BY DEF WithGuid, SavingInv, SetlistInv, OneSetlist
    <3>2. \A s, t \in WithGuid(characters, guid) : s = t
      BY DEF WithGuid, SavingInv, CharacterInv
    <3> QED
      BY <3>1, <3>2, AtMostOne
  <2>5. ASSUME NEW pid \in Players \ Racing PROVE Cardinality(BandsOf(pid)) <= 1
    <3>1. \A b, other \in BandsOf(pid) : b = other
      BY DEF BandsOf, SavingInv, BandInv
    <3> QED
      BY <3>1, AtMostOne
  <2> QED
    BY <2>1, <2>2, <2>3, <2>4, <2>5 DEF SavedOnce
<1> QED
  BY <1>1, SavingInvariant, PTL

\* A setlist is written by the account it belongs to only, and keeps its ID, although
\* the owner is checked on an earlier read and the PID written is the request's
\* (setlists/update.go:119).
THEOREM SetlistsByOwners == Spec => OwnSetlistsOnly
<1> DEFINE Mine ==
        \A s \in setlists :
          s \in setlists' \/ s.type # Ordinary \/ s.guid \in Racing \/
          /\ \E t \in setlists' : t.guid = s.guid /\ t.id = s.id
          /\ \E c \in Consoles : call[c].op = "setlist" /\ session[c].pid = s.pid
<1>1. ASSUME setlists \subseteq setlists' PROVE Mine
  BY <1>1
<1>2. ASSUME SavingInv, NEW c \in Consoles, SetlistUpdate(c) PROVE Mine
  <2>1. PICK s \in WithGuid(setlists, call[c].key) : setlists' = (setlists \ {s}) \cup {Updated(c)}
    BY <1>2 DEF SetlistUpdate
  <2>2. call[c].op = "setlist" /\ call[c].key \in Guids /\ s \in setlists /\ s.guid = call[c].key
    BY <1>2 DEF SetlistUpdate, WithGuid, SavingInv, Base, CallsOK, CallOK, SetlistOps
  <2>3. Updated(c).guid = call[c].key /\ Updated(c).id = call[c].id
    BY DEF Updated
  <2>4. call[c].key \notin Racing => s.id = call[c].id /\ s.pid = session[c].pid
    BY <1>2, <2>2 DEF SavingInv, SetlistInv, FoundStill
  <2> QED
    BY <2>1, <2>2, <2>3, <2>4
<1>3. ASSUME NEW s \in setlists, BattleExpires(s) PROVE Mine
  BY <1>3 DEF BattleExpires, Ordinary, PlayerBattle, HarmonixBattle
<1> HIDE DEF Mine
<1>4. ASSUME SavingInv, Next PROVE Mine
  <2>1. ASSUME NEW c \in Consoles, UseSetlists(c) PROVE Mine
    <3>1. SetlistUpdate(c) \/ setlists \subseteq setlists'
      BY <2>1 DEF UseSetlists, SetlistFindNew, SetlistFind, SetlistID, SetlistUpsertMisses,
                  SetlistUpsertInserts
    <3> QED
      BY <1>1, <1>2, <1>4, <3>1
  <2>2. ASSUME NEW c \in Consoles, UseBands(c) \/ UseCharacters(c) \/ UseBattles(c) \/ UseImages(c)
        PROVE  setlists \subseteq setlists'
    BY <2>2 DEF UseBands, BandFind, BandID, BandInsert, UseCharacters, CharacterFind, CharacterID,
                CharacterInsert, CharacterUpdate, UseBattles, BattleID, BattleInsert,
                UseImages, SaveOpen, SaveWrite, SaveWriteFails
  <2>3. ASSUME NEW c \in Consoles, NEW someone \in Sessions[c], Switch(c, someone)
        PROVE  setlists \subseteq setlists'
    BY <2>3 DEF Switch
  <2> QED
    BY <1>1, <1>3, <1>4, <2>1, <2>2, <2>3 DEF Next
<1>5. SavingInv /\ [Next]_vars => [Mine]_vars
  BY <1>4
<1>6. Spec => [][Mine]_vars
  BY <1>5, SavingInvariant, PTL DEF Spec
<1> QED
  BY <1>6 DEF OwnSetlistsOnly, Mine

\* What is served under an ID was saved for the battle or band that has it now, whoever
\* saved it, although files outlive battles: no ID is used again (getbinarydata.go:153).
THEOREM ImagesServedAsSaved == Spec => []ServedAsSaved
<1>1. ASSUME SavingInv, NEW path \in Path, NEW p \in Served(path) PROVE p \in Pictured(path)
  <2>1. Holds(path, p)
    BY <1>1 DEF Served, Holds
  <2>2. CASE path.type = "battle_art"
    <3>1. PICK s \in setlists : s.id = path.of
      BY <1>1, <2>2 DEF Served
    <3>2. s.type # Ordinary /\ s.pid = p
      BY <1>1, <2>1, <2>2, <3>1 DEF SavingInv, ImageInv, SavedFor
    <3> QED
      BY <2>2, <3>1, <3>2 DEF Pictured
  <2>3. CASE path.type # "battle_art"
    BY <1>1, <2>1, <2>3 DEF SavingInv, ImageInv, SavedFor
  <2> QED
    BY <2>2, <2>3
<1>2. SavingInv => ServedAsSaved
  BY <1>1 DEF ServedAsSaved
<1> QED
  BY <1>2, SavingInvariant, PTL
------------------------------------------------------------------------------
(* Types.  The bound on IDs holds because a call that is about to draw one *)
(* is counted with those that are drawn.                                   *)

DrawnIDs == lastID["setlist"] + lastID["band"] + lastID["character"]

Bounded ==
  /\ IsFiniteSet(Drawing)
  /\ DrawnIDs + Cardinality(Drawing) <= MaxIDs

TypeInv == TypeOK /\ Bounded

DrawingOps == {"setlistID", "bandID", "characterID"}

\* A call's record is of its operation's kind.
LEMMA RecordOfOp ==
  ASSUME NEW r \in CallRecords
  PROVE  /\ r.op \in {"setlistID", "characterID", "updateCharacter"} =>
              r \in [op : {"setlistID", "characterID", "updateCharacter"}, key : Guids, pid : Players]
         /\ r.op \in {"setlist", "insertSetlist", "character"} =>
              r \in [op : {"setlist", "insertSetlist", "character"}, key : Guids, pid : Players, id : IDs]
         /\ r.op = "bandID" => r \in [op : {"bandID"}, key : Players]
         /\ r.op = "band" => r \in [op : {"band"}, key : Players, id : IDs]
         /\ r.op = "battle" => r \in [op : {"battle"}, pid : Players, id : IDs]
         /\ r.op = "image" => r \in [op : {"image"}, path : Path, for : SUBSET Players]
  BY DEF CallRecords, Idle

LEMMA IdleIsRecord == Idle \in CallRecords /\ Idle.op \notin DrawingOps
  BY DEF CallRecords, Idle, DrawingOps

LEMMA CallsChange ==
  ASSUME TypeInv, NEW c \in Consoles, NEW next \in CallRecords, Continue(c, next)
  PROVE  /\ call' \in [Consoles -> CallRecords]
         /\ call'[c] = next
         /\ \A d \in Consoles \ {c} : call'[d] = call[d]
  BY DEF TypeInv, TypeOK, Continue

LEMMA Numbers ==
  ASSUME TypeInv
  PROVE  /\ \A counter \in Counters : lastID[counter] \in Nat
         /\ DrawnIDs \in Nat /\ MaxIDs \in Nat
         /\ \A counter \in Counters : lastID[counter] <= DrawnIDs
         /\ Cardinality(Drawing) \in Nat
  <1>1. MaxIDs \in Nat /\ lastID \in [Counters -> 0 .. MaxIDs]
    BY SavedDataAssumption DEF TypeInv, TypeOK
  <1>2. /\ lastID["setlist"] \in Nat /\ lastID["band"] \in Nat /\ lastID["character"] \in Nat
        /\ Counters = {"setlist", "band", "character"}
    BY <1>1 DEF Counters
  <1> QED
    BY <1>1, <1>2, FS_CardinalityType DEF TypeInv, Bounded, DrawnIDs

\* A counter's next number.
LEMMA NextNumber ==
  ASSUME TypeInv, NEW counter \in Counters, NextID(counter), DrawnIDs < MaxIDs
  PROVE  /\ lastID' \in [Counters -> 0 .. MaxIDs]
         /\ lastID'[counter] \in IDs
         /\ DrawnIDs' = DrawnIDs + 1
  <1>1. /\ lastID[counter] \in Nat /\ lastID[counter] < MaxIDs /\ MaxIDs \in Nat
        /\ lastID \in [Counters -> 0 .. MaxIDs]
    BY Numbers DEF TypeInv, TypeOK
  <1>2. lastID[counter] + 1 \in 1 .. MaxIDs
    BY <1>1
  <1>3. lastID' = [lastID EXCEPT ![counter] = lastID[counter] + 1]
    BY DEF NextID
  <1>4. lastID' \in [Counters -> 0 .. MaxIDs] /\ lastID'[counter] \in IDs
    BY <1>1, <1>2, <1>3 DEF IDs
  <1>5. DrawnIDs' = DrawnIDs + 1
    <2>1. lastID["setlist"] \in Nat /\ lastID["band"] \in Nat /\ lastID["character"] \in Nat
      BY Numbers DEF Counters
    <2>2. \A n \in Counters : lastID'[n] = IF n = counter THEN lastID[n] + 1 ELSE lastID[n]
      BY <1>1, <1>3
    <2>3. /\ lastID'["setlist"] = IF "setlist" = counter THEN lastID["setlist"] + 1 ELSE lastID["setlist"]
          /\ lastID'["band"] = IF "band" = counter THEN lastID["band"] + 1 ELSE lastID["band"]
          /\ lastID'["character"] = IF "character" = counter THEN lastID["character"] + 1 ELSE lastID["character"]
      BY <2>2 DEF Counters
    <2>4. CASE counter = "setlist"
      BY <2>1, <2>3, <2>4 DEF DrawnIDs
    <2>5. CASE counter = "band"
      BY <2>1, <2>3, <2>5 DEF DrawnIDs
    <2>6. CASE counter = "character"
      BY <2>1, <2>3, <2>6 DEF DrawnIDs
    <2> QED
      BY <2>4, <2>5, <2>6 DEF Counters
  <1> QED
    BY <1>4, <1>5

\* A step of a call that is not about to draw an ID, before or after.
LEMMA QuietCalls ==
  ASSUME TypeInv, NEW c \in Consoles, NEW next \in CallRecords, Continue(c, next),
         call[c].op \notin DrawingOps, next.op \notin DrawingOps
  PROVE  call' \in [Consoles -> CallRecords] /\ Drawing' = Drawing
<1>1. Drawing' = Drawing
  BY CallsChange DEF Drawing, DrawingOps
<1> QED
  BY <1>1, CallsChange

\* A call begins that will draw one.
LEMMA DrawingBegins ==
  ASSUME TypeInv, NEW c \in Consoles, NEW next \in CallRecords, Continue(c, next),
         call[c] = Idle, next.op \in DrawingOps, Room,
         UNCHANGED <<setlists, bands, characters, lastID, images, session>>
  PROVE  TypeInv'
<1>1. call' \in [Consoles -> CallRecords]
  BY CallsChange
<1>2. Drawing' = Drawing \cup {c} /\ c \notin Drawing
  BY CallsChange, IdleIsRecord DEF Drawing, DrawingOps
<1>3. IsFiniteSet(Drawing') /\ Cardinality(Drawing') = Cardinality(Drawing) + 1
  BY <1>2, FS_AddElement DEF TypeInv, Bounded
<1>4. DrawnIDs' = DrawnIDs /\ DrawnIDs + Cardinality(Drawing) < MaxIDs
  BY DEF DrawnIDs, Room
<1>5. DrawnIDs' + Cardinality(Drawing') <= MaxIDs
  BY <1>3, <1>4, Numbers
<1> QED
  BY <1>1, <1>3, <1>5 DEF TypeInv, TypeOK, Bounded

\* It draws it.
LEMMA DrawingEnds ==
  ASSUME TypeInv, NEW c \in Consoles, NEW counter \in Counters, NextID(counter),
         call[c].op \in DrawingOps,
         UNCHANGED <<setlists, bands, characters, images, session>>
  PROVE  /\ lastID'[counter] \in IDs
         /\ \A next \in CallRecords :
              Continue(c, next) /\ next.op \notin DrawingOps => TypeInv'
<1>1. c \in Drawing /\ IsFiniteSet(Drawing)
  BY DEF Drawing, DrawingOps, TypeInv, Bounded
<1>2. /\ IsFiniteSet(Drawing \ {c}) /\ Cardinality(Drawing \ {c}) = Cardinality(Drawing) - 1
      /\ Cardinality(Drawing \ {c}) \in Nat
  BY <1>1, FS_RemoveElement, FS_CardinalityType
<1>3. DrawnIDs < MaxIDs /\ DrawnIDs + 1 + Cardinality(Drawing \ {c}) <= MaxIDs
  BY <1>2, Numbers DEF TypeInv, Bounded
<1>4. /\ lastID' \in [Counters -> 0 .. MaxIDs]
      /\ lastID'[counter] \in IDs
      /\ DrawnIDs' = DrawnIDs + 1
  BY <1>3, NextNumber
<1>5. ASSUME NEW next \in CallRecords, Continue(c, next), next.op \notin DrawingOps
      PROVE  TypeInv'
  <2>1. call' \in [Consoles -> CallRecords]
    BY <1>5, CallsChange
  <2>2. Drawing' = Drawing \ {c}
    BY <1>5, CallsChange DEF Drawing, DrawingOps
  <2>3. Bounded'
    BY <1>2, <1>3, <1>4, <2>2 DEF Bounded
  <2> QED
    BY <1>4, <2>1, <2>3 DEF TypeInv, TypeOK
<1> QED
  BY <1>4, <1>5

\* Any other step of a call.
LEMMA OtherCallSteps ==
  ASSUME TypeInv, NEW c \in Consoles, NEW next \in CallRecords, Continue(c, next),
         call[c].op \notin DrawingOps, next.op \notin DrawingOps,
         UNCHANGED <<lastID, session>>,
         setlists' \in SUBSET Setlist, bands' \in SUBSET Band, characters' \in SUBSET Character,
         images' \in [Path -> SUBSET Players]
  PROVE  TypeInv'
<1>1. call' \in [Consoles -> CallRecords] /\ Drawing' = Drawing
  BY QuietCalls
<1>2. Bounded'
  BY <1>1 DEF TypeInv, Bounded, DrawnIDs
<1> QED
  BY <1>1, <1>2 DEF TypeInv, TypeOK

LEMMA QuietElse ==
  ASSUME TypeInv, UNCHANGED <<lastID, call>>
  PROVE  call' \in [Consoles -> CallRecords] /\ lastID' \in [Counters -> 0 .. MaxIDs] /\ Bounded'
<1>1. Drawing' = Drawing
  BY DEF Drawing
<1> QED
  BY <1>1 DEF TypeInv, TypeOK, Bounded, DrawnIDs

LEMMA InitTyped == Init => TypeInv
<1> SUFFICES ASSUME Init PROVE TypeInv
  OBVIOUS
<1>1. /\ setlists \in SUBSET Setlist /\ bands \in SUBSET Band /\ characters \in SUBSET Character
      /\ images \in [Path -> SUBSET Players]
  BY DEF Init
<1>2. lastID \in [Counters -> 0 .. MaxIDs] /\ DrawnIDs = 0 /\ MaxIDs \in Nat
  BY SavedDataAssumption DEF Init, DrawnIDs, Counters
<1>3. session \in [Consoles -> [pid : Players, name : Names]]
  <2>1. \A c \in Consoles : Sessions[c] \subseteq [pid : Players, name : Names]
    BY SavedDataAssumption
  <2>2. /\ session \in [Consoles -> UNION {Sessions[c] : c \in Consoles}]
        /\ \A c \in Consoles : session[c] \in Sessions[c]
    BY DEF Init
  <2> QED
    BY <2>1, <2>2
<1>4. call \in [Consoles -> CallRecords] /\ Drawing = {}
  BY IdleIsRecord DEF Init, Drawing, DrawingOps
<1>5. Bounded
  BY <1>2, <1>4, FS_EmptySet DEF Bounded
<1> QED
  BY <1>1, <1>2, <1>3, <1>4, <1>5 DEF TypeInv, TypeOK

LEMMA OwnerIsName ==
  ASSUME NEW pid
  PROVE  Owner(pid) \in Names \cup {Anonymous}
  BY SavedDataAssumption DEF Owner

LEMMA SwitchTyped ==
  ASSUME TypeInv, NEW c \in Consoles, NEW someone \in Sessions[c], Switch(c, someone)
  PROVE  TypeInv'
<1>1. someone \in [pid : Players, name : Names]
  BY SavedDataAssumption
<1>2. /\ session' \in [Consoles -> [pid : Players, name : Names]]
      /\ UNCHANGED <<setlists, bands, characters, lastID, images, call>>
  BY <1>1 DEF Switch, TypeInv, TypeOK
<1> QED
  BY <1>2, QuietElse DEF TypeInv, TypeOK

\* A call that has looked for what it is about, and found it or not.
LEMMA LookingTyped ==
  ASSUME TypeInv, NEW c \in Consoles, NEW next \in CallRecords, Continue(c, next),
         call[c].op \notin DrawingOps, next.op \notin DrawingOps,
         UNCHANGED <<setlists, bands, characters, lastID, images, session>>
  PROVE  TypeInv'
  BY OtherCallSteps DEF TypeInv, TypeOK

LEMMA SetlistsTyped ==
  ASSUME TypeInv, NEW c \in Consoles, UseSetlists(c)
  PROVE  TypeInv'
<1>1. call[c] \in CallRecords /\ session[c].pid \in Players
  BY DEF TypeInv, TypeOK
<1>2. ASSUME NEW pid \in Players, NEW guid \in Guids, SetlistFindNew(c, pid, guid) PROVE TypeInv'
  <2>1. [op |-> "setlistID", key |-> guid, pid |-> pid] \in CallRecords
    BY DEF CallRecords
  <2> QED
    BY <1>2, <2>1, DrawingBegins DEF SetlistFindNew, DrawingOps
<1>3. ASSUME NEW pid \in Players, NEW guid \in Guids, SetlistFind(c, pid, guid) PROVE TypeInv'
  <2>1. PICK s \in WithGuid(setlists, guid) :
           Continue(c, [op |-> "setlist", key |-> guid, pid |-> pid, id |-> s.id])
    BY <1>3 DEF SetlistFind
  <2>2. s.id \in IDs
    BY DEF WithGuid, TypeInv, TypeOK, Setlist
  <2>3. [op |-> "setlist", key |-> guid, pid |-> pid, id |-> s.id] \in CallRecords
    BY <2>2 DEF CallRecords
  <2> QED
    BY <1>3, <2>1, <2>3, LookingTyped, IdleIsRecord DEF SetlistFind, DrawingOps
<1>4. ASSUME SetlistID(c) PROVE TypeInv'
  <2> DEFINE next == [op |-> "setlist", key |-> call[c].key, pid |-> call[c].pid,
                      id |-> lastID'["setlist"]]
  <2>1. call[c].key \in Guids /\ call[c].pid \in Players
    BY <1>1, <1>4, RecordOfOp DEF SetlistID
  <2>2. /\ lastID'["setlist"] \in IDs
        /\ \A r \in CallRecords : Continue(c, r) /\ r.op \notin DrawingOps => TypeInv'
    BY <1>4, DrawingEnds DEF SetlistID, DrawingOps, Counters
  <2>3. next \in CallRecords /\ next.op \notin DrawingOps
    BY <2>1, <2>2 DEF CallRecords, DrawingOps
  <2> QED
    BY <1>4, <2>2, <2>3 DEF SetlistID
<1>5. call[c].op \in {"setlist", "insertSetlist"} => Updated(c) \in Setlist
  <2>1. call[c].op \in {"setlist", "insertSetlist"} =>
          call[c].key \in Guids /\ call[c].pid \in Players /\ call[c].id \in IDs
    BY <1>1, RecordOfOp
  <2> QED
    BY <1>1, <2>1, OwnerIsName DEF Updated, Setlist
<1>6. ASSUME SetlistUpdate(c) \/ SetlistUpsertInserts(c) PROVE TypeInv'
  <2>1. setlists' \in SUBSET Setlist
    BY <1>5, <1>6 DEF SetlistUpdate, SetlistUpsertInserts, TypeInv, TypeOK
  <2>2. Continue(c, Idle) /\ call[c].op \notin DrawingOps
    BY <1>6 DEF SetlistUpdate, SetlistUpsertInserts, Return, DrawingOps
  <2>3. UNCHANGED <<bands, characters, lastID, images, session>>
    BY <1>6 DEF SetlistUpdate, SetlistUpsertInserts
  <2> QED
    BY <2>1, <2>2, <2>3, OtherCallSteps, IdleIsRecord DEF TypeInv, TypeOK
<1>7. ASSUME SetlistUpsertMisses(c) PROVE TypeInv'
  <2>1. call[c] \in [op : {"setlist", "insertSetlist", "character"}, key : Guids, pid : Players, id : IDs]
    BY <1>1, <1>7, RecordOfOp DEF SetlistUpsertMisses
  <2>2. [call[c] EXCEPT !.op = "insertSetlist"] \in CallRecords
    BY <2>1 DEF CallRecords
  <2>3. [call[c] EXCEPT !.op = "insertSetlist"].op = "insertSetlist"
    BY <2>1
  <2> QED
    BY <1>7, <2>2, <2>3, LookingTyped DEF SetlistUpsertMisses, DrawingOps
<1> QED
  BY <1>2, <1>3, <1>4, <1>6, <1>7 DEF UseSetlists

LEMMA BandsTyped ==
  ASSUME TypeInv, NEW c \in Consoles, UseBands(c)
  PROVE  TypeInv'
<1>1. call[c] \in CallRecords
  BY DEF TypeInv, TypeOK
<1>2. ASSUME NEW pid \in Players, BandFind(c, pid) PROVE TypeInv'
  <2>1. [op |-> "bandID", key |-> pid] \in CallRecords
    BY DEF CallRecords
  <2> QED
    BY <1>2, <2>1, DrawingBegins DEF BandFind, DrawingOps
<1>3. ASSUME BandID(c) PROVE TypeInv'
  <2> DEFINE next == [op |-> "band", key |-> call[c].key, id |-> lastID'["band"]]
  <2>1. call[c].key \in Players
    BY <1>1, <1>3, RecordOfOp DEF BandID
  <2>2. /\ lastID'["band"] \in IDs
        /\ \A r \in CallRecords : Continue(c, r) /\ r.op \notin DrawingOps => TypeInv'
    BY <1>3, DrawingEnds DEF BandID, DrawingOps, Counters
  <2>3. next \in CallRecords /\ next.op \notin DrawingOps
    BY <2>1, <2>2 DEF CallRecords, DrawingOps
  <2> QED
    BY <1>3, <2>2, <2>3 DEF BandID
<1>4. ASSUME BandInsert(c) PROVE TypeInv'
  <2>1. call[c].key \in Players /\ call[c].id \in IDs
    BY <1>1, <1>4, RecordOfOp DEF BandInsert
  <2>2. bands' \in SUBSET Band
    BY <1>4, <2>1 DEF BandInsert, Band, TypeInv, TypeOK
  <2> QED
    BY <1>4, <2>2, OtherCallSteps, IdleIsRecord DEF BandInsert, Return, DrawingOps, TypeInv, TypeOK
<1> QED
  BY <1>2, <1>3, <1>4 DEF UseBands

LEMMA CharactersTyped ==
  ASSUME TypeInv, NEW c \in Consoles, UseCharacters(c)
  PROVE  TypeInv'
<1>1. call[c] \in CallRecords /\ session[c].pid \in Players
  BY DEF TypeInv, TypeOK
<1>2. ASSUME NEW pid \in Players, NEW guid \in Guids, CharacterFind(c, pid, guid) PROVE TypeInv'
  <2>1. /\ [op |-> "characterID", key |-> guid, pid |-> pid] \in CallRecords
        /\ [op |-> "updateCharacter", key |-> guid, pid |-> pid] \in CallRecords
    BY DEF CallRecords
  <2>2. call[c] = Idle /\ UNCHANGED <<setlists, bands, characters, lastID, images, session>>
    BY <1>2 DEF CharacterFind
  <2>3. CASE Room /\ Continue(c, [op |-> "characterID", key |-> guid, pid |-> pid])
    BY <2>1, <2>2, <2>3, DrawingBegins DEF DrawingOps
  <2>4. CASE Continue(c, [op |-> "updateCharacter", key |-> guid, pid |-> pid])
    BY <2>1, <2>2, <2>4, LookingTyped, IdleIsRecord DEF DrawingOps
  <2> QED
    BY <1>2, <2>3, <2>4 DEF CharacterFind
<1>3. ASSUME CharacterID(c) PROVE TypeInv'
  <2> DEFINE next == [op |-> "character", key |-> call[c].key, pid |-> call[c].pid,
                      id |-> lastID'["character"]]
  <2>1. call[c].key \in Guids /\ call[c].pid \in Players
    BY <1>1, <1>3, RecordOfOp DEF CharacterID
  <2>2. /\ lastID'["character"] \in IDs
        /\ \A r \in CallRecords : Continue(c, r) /\ r.op \notin DrawingOps => TypeInv'
    BY <1>3, DrawingEnds DEF CharacterID, DrawingOps, Counters
  <2>3. next \in CallRecords /\ next.op \notin DrawingOps
    BY <2>1, <2>2 DEF CallRecords, DrawingOps
  <2> QED
    BY <1>3, <2>2, <2>3 DEF CharacterID
<1>4. ASSUME CharacterInsert(c) PROVE TypeInv'
  <2>1. call[c].key \in Guids /\ call[c].pid \in Players /\ call[c].id \in IDs
    BY <1>1, <1>4, RecordOfOp DEF CharacterInsert
  <2>2. characters' \in SUBSET Character
    BY <1>1, <1>4, <2>1 DEF CharacterInsert, Character, TypeInv, TypeOK
  <2> QED
    BY <1>4, <2>2, OtherCallSteps, IdleIsRecord DEF CharacterInsert, Return, DrawingOps, TypeInv, TypeOK
<1>5. ASSUME CharacterUpdate(c) PROVE TypeInv'
  <2>1. PICK ch \in WithGuid(characters, call[c].key) :
           characters' = (characters \ {ch}) \cup {[ch EXCEPT !.by = session[c].pid]}
    BY <1>5 DEF CharacterUpdate
  <2>2. ch \in Character
    BY DEF WithGuid, TypeInv, TypeOK
  <2>3. characters' \in SUBSET Character
    BY <1>1, <2>1, <2>2 DEF Character, TypeInv, TypeOK
  <2> QED
    BY <1>5, <2>3, OtherCallSteps, IdleIsRecord DEF CharacterUpdate, Return, DrawingOps, TypeInv, TypeOK
<1> QED
  BY <1>2, <1>3, <1>4, <1>5 DEF UseCharacters

LEMMA BattlesTyped ==
  ASSUME TypeInv, NEW c \in Consoles, UseBattles(c)
  PROVE  TypeInv'
<1>1. call[c] \in CallRecords /\ session[c].pid \in Players
  BY DEF TypeInv, TypeOK
<1>3. ASSUME NEW pid \in Players, BattleID(c, pid) PROVE TypeInv'
  <2> DEFINE next == [op |-> "battle", pid |-> pid, id |-> lastID'["setlist"]]
  <2>1. DrawnIDs < MaxIDs /\ DrawnIDs + 1 + Cardinality(Drawing) <= MaxIDs
    BY <1>3, Numbers DEF BattleID, Room, DrawnIDs
  <2>2. /\ lastID' \in [Counters -> 0 .. MaxIDs]
        /\ lastID'["setlist"] \in IDs
        /\ DrawnIDs' = DrawnIDs + 1
    BY <1>3, <2>1, NextNumber DEF BattleID, Counters
  <2>3. next \in CallRecords /\ next.op \notin DrawingOps
    BY <1>1, <1>3, <2>2 DEF BattleID, CallRecords, DrawingOps
  <2>4. Continue(c, next) /\ call[c].op \notin DrawingOps
    BY <1>3, IdleIsRecord DEF BattleID
  <2> HIDE DEF next
  <2>5. call' \in [Consoles -> CallRecords] /\ Drawing' = Drawing
    BY <2>3, <2>4, QuietCalls
  <2>6. Bounded'
    BY <2>1, <2>2, <2>5 DEF TypeInv, Bounded
  <2>8. UNCHANGED <<setlists, bands, characters, images, session>>
    BY <1>3 DEF BattleID
  <2> QED
    BY <2>2, <2>5, <2>6, <2>8 DEF TypeInv, TypeOK
<1>4. ASSUME BattleInsert(c) PROVE TypeInv'
  <2>1. call[c].pid \in Players /\ call[c].id \in IDs
    BY <1>1, <1>4, RecordOfOp DEF BattleInsert
  <2>2. setlists' \in SUBSET Setlist
    BY <1>1, <1>4, <2>1, OwnerIsName DEF BattleInsert, Setlist, TypeInv, TypeOK
  <2> QED
    BY <1>4, <2>2, OtherCallSteps, IdleIsRecord DEF BattleInsert, Return, DrawingOps, TypeInv, TypeOK
<1> QED
  BY <1>3, <1>4 DEF UseBattles

LEMMA ImagesTyped ==
  ASSUME TypeInv, NEW c \in Consoles, UseImages(c)
  PROVE  TypeInv'
<1>1. call[c] \in CallRecords /\ session[c].pid \in Players
  BY DEF TypeInv, TypeOK
<1>2. ASSUME NEW path \in Saved, SaveOpen(c, path) PROVE TypeInv'
  <2>1. path \in Path
    BY SavedDataAssumption
  <2>2. Pictured(path) \subseteq Players
    BY DEF Pictured, Setlist, Band, TypeInv, TypeOK
  <2>3. [op |-> "image", path |-> path, for |-> Pictured(path)] \in CallRecords
    BY <2>1, <2>2 DEF CallRecords
  <2>4. images' \in [Path -> SUBSET Players]
    BY <1>2 DEF SaveOpen, TypeInv, TypeOK
  <2> QED
    BY <1>2, <2>3, <2>4, OtherCallSteps, IdleIsRecord DEF SaveOpen, DrawingOps, TypeInv, TypeOK
<1>3. ASSUME SaveWrite(c) \/ SaveWriteFails(c) PROVE TypeInv'
  <2>1. call[c].op = "image" /\ call[c].for \subseteq Players
    BY <1>1, <1>3, RecordOfOp DEF SaveWrite, SaveWriteFails
  <2>2. images' \in [Path -> SUBSET Players]
    BY <1>3, <2>1 DEF SaveWrite, SaveWriteFails, TypeInv, TypeOK
  <2>3. Continue(c, Idle) /\ UNCHANGED <<setlists, bands, characters, lastID, session>>
    BY <1>3 DEF SaveWrite, SaveWriteFails, Return
  <2> QED
    BY <2>1, <2>2, <2>3, OtherCallSteps, IdleIsRecord DEF DrawingOps, TypeInv, TypeOK
<1> QED
  BY <1>2, <1>3 DEF UseImages

LEMMA TypesKept == TypeInv /\ [Next]_vars => TypeInv'
<1> SUFFICES ASSUME TypeInv, [Next]_vars PROVE TypeInv'
  OBVIOUS
<1>1. ASSUME NEW s \in setlists, BattleExpires(s) PROVE TypeInv'
  <2>1. /\ setlists' \in SUBSET Setlist
        /\ UNCHANGED <<bands, characters, lastID, images, session, call>>
    BY <1>1 DEF BattleExpires, TypeInv, TypeOK
  <2> QED
    BY <2>1, QuietElse DEF TypeInv, TypeOK
<1>2. CASE UNCHANGED vars
  BY <1>2, QuietElse DEF vars, TypeInv, TypeOK
<1> QED
  BY <1>1, <1>2, SwitchTyped, SetlistsTyped, BandsTyped, CharactersTyped, BattlesTyped, ImagesTyped
     DEF Next

\* TypeOK: documents, images, sessions and calls have their types, and the counters stay
\* within the bound, for any consoles, players and bound.
THEOREM TypeCorrect == Spec => []TypeOK
<1>1. TypeInv => TypeOK
  BY DEF TypeInv
<1> QED
  BY <1>1, InitTyped, TypesKept, PTL DEF Spec
==============================================================================
