------------------------------- MODULE SavedData -------------------------------
(***************************************************************************)
(* What consoles save besides scores: setlists, bands, characters, battles *)
(* and the images that go with them.  The JSON services setlists/update,   *)
(* entities/band/update, entities/character/update and battles/create, and *)
(* the RMC methods SaveBinaryData and GetBinaryData.                       *)
(*                                                                         *)
(* Every service looks for a document, draws an ID from a counter if there *)
(* is none, and writes: one action for each, and calls of different        *)
(* consoles overlap.  Titles, songs and bytes are abstracted to by, whom   *)
(* the console acted as that saved them; the profanity checks, which only  *)
(* refuse, are left out.                                                   *)
(***************************************************************************)
EXTENDS Integers, FiniteSets, TLC

CONSTANTS
    Consoles,
    Players,     \* PIDs, of accounts and of Wiis
    Names,       \* usernames as they are typed, and those of Master Users
    Name,        \* Name[p]: the username in the account p, if p is an account's
    Anonymous,   \* "Player"
    Sessions,    \* Sessions[c]: whom console c may act as
    Services,    \* Services[c]: what console c uses
    Guids,       \* the GUIDs consoles give to setlists and characters
    NoGuid,      \* battles have none
    Racing,      \* GUIDs and PIDs for which saving calls of several consoles may overlap
    Admins,      \* accounts in the group battle_admin
    Saved,       \* bound: the paths images are saved under
    MaxIDs       \* bound: IDs drawn from the counters in a behaviour

Accounts == DOMAIN Name
IDs == 1 .. MaxIDs

\* The path of a file, but for the revision and the platform.  An image of a battle
\* that is not named is stored under 0 and never served, and left out here, and so is
\* the art of setlists, which is stored under the GUIDs that consoles choose.
Path == [type : {"battle_art", "band_logo"}, of : IDs]

ASSUME SavedDataAssumption ==
    /\ Players \subseteq Nat \ {0}
    /\ Accounts \subseteq Players
    /\ Name \in [Accounts -> Names]
    /\ Anonymous \notin Names
    /\ Sessions \in [Consoles -> SUBSET [pid : Players, name : Names]]
    /\ NoGuid \notin Guids
    /\ Racing \subseteq Guids \cup Players
    /\ Admins \subseteq Accounts
    /\ MaxIDs \in Nat
    /\ Saved \subseteq Path

VARIABLES
    setlists,   \* the collections
    bands,
    characters,
    lastID,     \* config.last_setlist_id, last_band_id, last_character_id
    images,     \* images[path]: whose battle or band the file's image was saved for
    session,    \* session[c]: client.Username and client.PlayerID()
    call        \* call[c]: what the handler of c's call does next

vars == <<setlists, bands, characters, lastID, images, session, call>>

Counters == {"setlist", "band", "character"}

\* setlist.Type
Ordinary == 0
PlayerBattle == 1000
HarmonixBattle == 1002

Setlist ==
    [guid : Guids \cup {NoGuid}, type : {Ordinary, PlayerBattle, HarmonixBattle}, id : IDs,
     pid : Players, owner : Names \cup {Anonymous}, by : Players]
Band == [owner : Players, id : IDs]
Character == [guid : Guids, owner : Players, id : IDs, by : Players]

Idle == [op |-> "idle"]
Continue(c, next) == call' = [call EXCEPT ![c] = next]
Return(c) == Continue(c, Idle)

\* Whose PIDs the client store has for c.
Valid(c) == {s.pid : s \in Sessions[c]}

\* The username of the account, "defaulting to Player".
Owner(pid) == IF pid \in Accounts THEN Name[pid] ELSE Anonymous

WithGuid(docs, guid) == {d \in docs : d.guid = guid}
BandsOf(pid) == {b \in bands : b.owner = pid}

\* Calls for one setlist or character, or for one player's band, overlap only
\* where that is asked for.
InTurn(c, key) ==
    \/ key \in Racing
    \/ \A other \in Consoles \ {c} : "key" \in DOMAIN call[other] => call[other].key # key

\* Two consoles do not play for one account at the same time.
Free(c, pid) == \A other \in Consoles \ {c} : session[other].pid # pid
------------------------------------------------------------------------------
Init ==
    /\ setlists = {}
    /\ bands = {}
    /\ characters = {}
    /\ lastID = [counter \in Counters |-> 0]
    /\ images = [path \in Path |-> {}]
    /\ session \in {s \in [Consoles -> UNION {Sessions[c] : c \in Consoles}] :
                        /\ \A c \in Consoles : s[c] \in Sessions[c]
                        /\ \A c, d \in Consoles : c # d => s[c].pid # s[d].pid}
    /\ call = [c \in Consoles |-> Idle]

\* LookupOrCreateAccount; module Sessions has all of it.
Switch(c, someone) ==
    /\ call[c] = Idle
    /\ someone \in Sessions[c]
    /\ Free(c, someone.pid)
    /\ session' = [session EXCEPT ![c] = someone]
    /\ UNCHANGED <<setlists, bands, characters, lastID, images, call>>

\* The bound: IDs that are drawn and those that handlers are about to draw.
Drawing == {c \in Consoles : call[c].op \in {"setlistID", "bandID", "characterID"}}
Room == lastID["setlist"] + lastID["band"] + lastID["character"] + Cardinality(Drawing) < MaxIDs

\* getNextCounter, for which module Config has the rest of the document.
NextID(counter) == lastID' = [lastID EXCEPT ![counter] = @ + 1]
------------------------------------------------------------------------------
(* setlists/update.                                                        *)

SetlistFindNew(c, pid, guid) ==
    /\ call[c] = Idle
    /\ pid \in Valid(c)
    /\ InTurn(c, guid)
    /\ WithGuid(setlists, guid) = {}
    /\ Room
    /\ Continue(c, [op |-> "setlistID", key |-> guid, pid |-> pid])
    /\ UNCHANGED <<setlists, bands, characters, lastID, images, session>>

\* Mutant: the PID in the request is compared with the owner's.
SetlistFindRequested(c, pid, guid) ==
    /\ call[c] = Idle
    /\ pid \in Valid(c)
    /\ InTurn(c, guid)
    /\ \E s \in WithGuid(setlists, guid) :
        /\ s.pid = pid
        /\ Continue(c, [op |-> "setlist", key |-> guid, pid |-> pid, id |-> s.id])
    /\ UNCHANGED <<setlists, bands, characters, lastID, images, session>>

\* "Access controls so that only the owner of the setlist can update it": the owner
\* is who the console acts as, not the PID in the request.
SetlistFind(c, pid, guid) ==
    /\ call[c] = Idle
    /\ pid \in Valid(c)
    /\ InTurn(c, guid)
    /\ \E s \in WithGuid(setlists, guid) :
        /\ s.owner = session[c].name
        /\ s.pid = session[c].pid
        /\ Continue(c, [op |-> "setlist", key |-> guid, pid |-> pid, id |-> s.id])
    /\ UNCHANGED <<setlists, bands, characters, lastID, images, session>>

SetlistID(c) ==
    /\ call[c].op = "setlistID"
    /\ NextID("setlist")
    /\ Continue(c, [op |-> "setlist", key |-> call[c].key, pid |-> call[c].pid,
                    id |-> lastID'["setlist"]])
    /\ UNCHANGED <<setlists, bands, characters, images, session>>

Updated(c) ==
    [guid |-> call[c].key, type |-> Ordinary, id |-> call[c].id, pid |-> call[c].pid,
     owner |-> Owner(call[c].pid), by |-> session[c].pid]

\* UpdateOne with upsert, which sets setlist_id, owner and pid too.
SetlistUpdate(c) ==
    /\ call[c].op = "setlist"
    /\ \E s \in WithGuid(setlists, call[c].key) : setlists' = (setlists \ {s}) \cup {Updated(c)}
    /\ Return(c)
    /\ UNCHANGED <<bands, characters, lastID, images, session>>

\* When there is nothing to update, the upsert inserts, whatever has been
\* inserted since.
SetlistUpsertMisses(c) ==
    /\ call[c].op = "setlist"
    /\ WithGuid(setlists, call[c].key) = {}
    /\ Continue(c, [call[c] EXCEPT !.op = "insertSetlist"])
    /\ UNCHANGED <<setlists, bands, characters, lastID, images, session>>

SetlistUpsertInserts(c) ==
    /\ call[c].op = "insertSetlist"
    /\ setlists' = setlists \cup {Updated(c)}
    /\ Return(c)
    /\ UNCHANGED <<bands, characters, lastID, images, session>>
------------------------------------------------------------------------------
(* entities/band/update and entities/character/update.                     *)

\* Mutant: the band is looked for by its ID, which a new one does not have.
BandFindByID(c, pid) ==
    /\ call[c] = Idle
    /\ pid \in Valid(c)
    /\ InTurn(c, pid)
    /\ Room
    /\ Continue(c, [op |-> "bandID", key |-> pid])
    /\ UNCHANGED <<setlists, bands, characters, lastID, images, session>>

\* An update of the band that is found changes its name and its art only.
BandFind(c, pid) ==
    /\ call[c] = Idle
    /\ pid \in Valid(c)
    /\ InTurn(c, pid)
    /\ Room
    /\ BandsOf(pid) = {}
    /\ Continue(c, [op |-> "bandID", key |-> pid])
    /\ UNCHANGED <<setlists, bands, characters, lastID, images, session>>

\* Mutant: FindOneAndUpdate answers the document as it was before.
BandIDBefore(c) ==
    /\ call[c].op = "bandID"
    /\ NextID("band")
    /\ Continue(c, [op |-> "band", key |-> call[c].key, id |-> lastID["band"]])
    /\ UNCHANGED <<setlists, bands, characters, images, session>>

BandID(c) ==
    /\ call[c].op = "bandID"
    /\ NextID("band")
    /\ Continue(c, [op |-> "band", key |-> call[c].key, id |-> lastID'["band"]])
    /\ UNCHANGED <<setlists, bands, characters, images, session>>

BandInsert(c) ==
    /\ call[c].op = "band"
    /\ bands' = bands \cup {[owner |-> call[c].key, id |-> call[c].id]}
    /\ Return(c)
    /\ UNCHANGED <<setlists, characters, lastID, images, session>>

CharacterFind(c, pid, guid) ==
    /\ call[c] = Idle
    /\ pid \in Valid(c)
    /\ InTurn(c, guid)
    /\ \/ /\ WithGuid(characters, guid) = {}
          /\ Room
          /\ Continue(c, [op |-> "characterID", key |-> guid, pid |-> pid])
       \/ /\ WithGuid(characters, guid) # {}
          /\ Continue(c, [op |-> "updateCharacter", key |-> guid, pid |-> pid])
    /\ UNCHANGED <<setlists, bands, characters, lastID, images, session>>

CharacterID(c) ==
    /\ call[c].op = "characterID"
    /\ NextID("character")
    /\ Continue(c, [op |-> "character", key |-> call[c].key, pid |-> call[c].pid,
                    id |-> lastID'["character"]])
    /\ UNCHANGED <<setlists, bands, characters, images, session>>

CharacterInsert(c) ==
    /\ call[c].op = "character"
    /\ characters' = characters \cup {[guid |-> call[c].key, owner |-> call[c].pid,
                                       id |-> call[c].id, by |-> session[c].pid]}
    /\ Return(c)
    /\ UNCHANGED <<setlists, bands, lastID, images, session>>

\* By GUID; the owner is neither compared nor changed.
CharacterUpdate(c) ==
    /\ call[c].op = "updateCharacter"
    /\ \E ch \in WithGuid(characters, call[c].key) :
        characters' = (characters \ {ch}) \cup {[ch EXCEPT !.by = session[c].pid]}
    /\ Return(c)
    /\ UNCHANGED <<setlists, bands, lastID, images, session>>
------------------------------------------------------------------------------
(* battles/create.  The game asks battles/limit/check before, which         *)
(* answers whether a player may have another battle and changes nothing.   *)

\* Mutant: the next ID is computed from the setlists that are left.
BattleIDOfSetlists(c, pid) ==
    LET next == 1 + Cardinality(setlists) IN
    /\ call[c] = Idle
    /\ pid \in Valid(c)
    /\ next \in IDs
    /\ Continue(c, [op |-> "battle", pid |-> pid, id |-> next])
    /\ UNCHANGED <<setlists, bands, characters, lastID, images, session>>

BattleID(c, pid) ==
    /\ call[c] = Idle
    /\ pid \in Valid(c)
    /\ Room
    /\ NextID("setlist")
    /\ Continue(c, [op |-> "battle", pid |-> pid, id |-> lastID'["setlist"]])
    /\ UNCHANGED <<setlists, bands, characters, images, session>>

BattleInsert(c) ==
    /\ call[c].op = "battle"
    /\ setlists' = setlists \cup
            {[guid |-> NoGuid, id |-> call[c].id, pid |-> call[c].pid, owner |-> Owner(call[c].pid),
              type |-> IF call[c].pid \in Admins THEN HarmonixBattle ELSE PlayerBattle,
              by |-> session[c].pid]}
    /\ Return(c)
    /\ UNCHANGED <<bands, characters, lastID, images, session>>

\* DeleteExpiredBattles; module Scores has the rest of it.
BattleExpires(s) ==
    /\ s.type \in {PlayerBattle, HarmonixBattle}
    /\ setlists' = setlists \ {s}
    /\ UNCHANGED <<bands, characters, lastID, images, session, call>>
------------------------------------------------------------------------------
(* SaveBinaryData and GetBinaryData.                                       *)

\* Whose battle or band an image under path is of.
Pictured(path) ==
    IF path.type = "battle_art"
    THEN {s.pid : s \in {t \in setlists : t.type # Ordinary /\ t.id = path.of}}
    ELSE {b.owner : b \in {d \in bands : d.id = path.of}}

\* Nobody is asked whether the battle or band is the console's, or exists.
\* os.WriteFile truncates the file ...
SaveOpen(c, path) ==
    /\ call[c] = Idle
    /\ images' = [images EXCEPT ![path] = {}]
    /\ Continue(c, [op |-> "image", path |-> path, for |-> Pictured(path)])
    /\ UNCHANGED <<setlists, bands, characters, lastID, session>>

\* ... and then fills it ...
SaveWrite(c) ==
    /\ call[c].op = "image"
    /\ images' = [images EXCEPT ![call[c].path] = call[c].for]
    /\ Return(c)
    /\ UNCHANGED <<setlists, bands, characters, lastID, session>>

\* ... or fails, and leaves what it has truncated.
SaveWriteFails(c) ==
    /\ call[c].op = "image"
    /\ Return(c)
    /\ UNCHANGED <<setlists, bands, characters, lastID, images, session>>

\* What GetBinaryData answers: nothing if a setlist is missing.  A logo is served
\* whether or not there is a band.
Served(path) ==
    IF path.type = "battle_art" /\ ~\E s \in setlists : s.id = path.of THEN {} ELSE images[path]
------------------------------------------------------------------------------
UseSetlists(c) ==
    \/ \E pid \in Players, guid \in Guids : SetlistFindNew(c, pid, guid) \/ SetlistFind(c, pid, guid)
    \/ SetlistID(c) \/ SetlistUpdate(c) \/ SetlistUpsertMisses(c) \/ SetlistUpsertInserts(c)

UseBands(c) == (\E pid \in Players : BandFind(c, pid)) \/ BandID(c) \/ BandInsert(c)

UseCharacters(c) ==
    \/ \E pid \in Players, guid \in Guids : CharacterFind(c, pid, guid)
    \/ CharacterID(c) \/ CharacterInsert(c) \/ CharacterUpdate(c)

UseBattles(c) == (\E pid \in Players : BattleID(c, pid)) \/ BattleInsert(c)

UseImages(c) == (\E path \in Saved : SaveOpen(c, path)) \/ SaveWrite(c) \/ SaveWriteFails(c)

Next ==
    \/ \E c \in Consoles :
        \/ \E someone \in Sessions[c] : Switch(c, someone)
        \/ "setlists" \in Services[c] /\ UseSetlists(c)
        \/ "bands" \in Services[c] /\ UseBands(c)
        \/ "characters" \in Services[c] /\ UseCharacters(c)
        \/ "battles" \in Services[c] /\ UseBattles(c)
        \/ "images" \in Services[c] /\ UseImages(c)
    \/ \E s \in setlists : BattleExpires(s)

Spec == Init /\ [][Next]_vars
------------------------------------------------------------------------------
(* Properties.                                                             *)

CallRecords ==
    {Idle}
    \cup [op : {"setlistID", "characterID", "updateCharacter"}, key : Guids, pid : Players]
    \cup [op : {"setlist", "insertSetlist", "character"}, key : Guids, pid : Players, id : IDs]
    \cup [op : {"bandID"}, key : Players]
    \cup [op : {"band"}, key : Players, id : IDs]
    \cup [op : {"battle"}, pid : Players, id : IDs]
    \cup [op : {"image"}, path : Path, for : SUBSET Players]

TypeOK ==
    /\ setlists \in SUBSET Setlist
    /\ bands \in SUBSET Band
    /\ characters \in SUBSET Character
    /\ lastID \in [Counters -> 0 .. MaxIDs]
    /\ images \in [Path -> SUBSET Players]
    /\ session \in [Consoles -> [pid : Players, name : Names]]
    /\ call \in [Consoles -> CallRecords]

OneID(docs) == \A d, e \in docs : d.id = e.id => d = e

\* "look for the mongo no documents error to determine if we are inserting a new
\* setlist" (update.go:105) and its like: a setlist or a character is stored once and a
\* player has one band, as long as calls for it do not overlap.  Bands and characters
\* have IDs of their own even so; two setlists with one ID are two copies of one whose
\* updates overlapped, since an update writes the ID, and never a battle.
SavedOnce ==
    /\ OneID(bands) /\ OneID(characters)
    /\ OneID({s \in setlists : s.guid \notin Racing})
    /\ \A s, t \in setlists : s.id = t.id => s.guid = t.guid
    /\ \A guid \in Guids \ Racing :
        Cardinality(WithGuid(setlists, guid)) <= 1 /\ Cardinality(WithGuid(characters, guid)) <= 1
    /\ \A pid \in Players \ Racing : Cardinality(BandsOf(pid)) <= 1

\* "only the owner of the setlist can update it" (update.go:117), and keeps its ID: it
\* is written on an earlier read, under the PID of the request and not of the session,
\* so an account may pass it on to another one of its console, but no other account
\* can take it.
OwnSetlistsOnly ==
    [][\A s \in setlists :
         s \in setlists' \/ s.type # Ordinary \/ s.guid \in Racing \/
         /\ \E t \in setlists' : t.guid = s.guid /\ t.id = s.id
         /\ \E c \in Consoles : call[c].op = "setlist" /\ session[c].pid = s.pid]_vars

\* Images are stored under IDs, by consoles whose PID is not compared with anything, and
\* stay when a battle expires (getbinarydata.go:153): whatever is served was saved for a
\* battle or band of whose it is now, and never for one that had the ID before.
ServedAsSaved == \A path \in Path : Served(path) \subseteq Pictured(path)
==============================================================================
