# A TLA+ verification of GoCentral

GoCentral is a master server for Rock Band 3: consoles log in, find each other's
sessions, record scores, fight battles on leaderboards and leave each other messages.
It talks the Quazal Rendez-Vous protocol over UDP (package `servers`), a JSON protocol
inside it (`protocols/jsonproto`), HTTP to administrators (`restapi`), and keeps what it
knows in MongoDB (`database`, `models`).

Every incoming call runs in a goroutine of its own, several processes may share one
database, and **no handler uses a transaction, a lock on the database or a unique
index**: each MongoDB call is atomic on its document, and between two calls of a handler
anything may happen. That, and the state the process keeps beside the database (caches,
the message store, what a connection stands for), is what this project is about.

## 1. Inventory

| Component | State | Operations | What is hard | What makes it correct |
|---|---|---|---|---|
| Message store (`servers/messagestore.go` and four RMC handlers) | a map from recipient to messages, an atomic 32-bit counter, a purge goroutine with a ticker and a quit channel | deliver (ID, then store), list, retrieve and optionally delete, delete, clear, purge | delivery in two steps; retrievals racing deletions and the purge; expired messages still in the map; wrapping counter | readers see exactly the live messages; what was taken does not come back; IDs are unique; memory is given back |
| Gatherings (`registergathering`, `updategathering`, `setstate`, `terminategathering`, `customfind`) | the `gatherings` collection | clear and insert, find and update, find and delete, aggregate and look up | check-then-write across calls; a Wii's Master User hands its gathering to an account; partial failure; searches on stale reads | one gathering per player and machine; only its console changes a gathering; the owner of a gathering under the registered name passes the check; what is removed stays removed |
| Accounts (`lookuporcreateaccount`, `deleteaccount`) | the `users` collection, the client object | find or create, take the account, clear and transfer gatherings | find-then-insert; names in another case; the session changes before the gatherings do | PIDs unique, one document per name |
| Login and registration (`login`, `requestticket`, `registerex`, `nexservers`) | `users`, `machines`, client objects on two servers | ban check, find or create user or machine, ticket, register the address | find-then-insert, cached bans, a stated PID that becomes a name and a PID again, refusals after the fact | a console that connects with its ticket's PID registers as who logged in; an unban and a ban are noticed; a new Wii gets in |
| Client store and validation (`utils/clientInfo.go`, `validation.go`) | up to 8 PIDs per address, least recently pushed first out | add, push, validate | eviction; the store outlives connections | the PID a console acts under is valid, that of a console that was kicked is not |
| Scores (`scores/record`, `scores/battles_record`) | the `scores` collection | find, compare, upsert, once for every member of the band | lost updates, double inserts, failing reads | a score never gets lower; no score is lost |
| Battles (`battles/*`, REST) | battles in `setlists` | create, expire, delete with scores, ask for the limit | ID and document in two steps; scores in flight for a deleted battle | IDs are new; battles and their scores go in the end |
| Housekeeping (`database/housekeeping_tasks.go`) | none; one goroutine, every minute | seven tasks in a fixed order | every task reads first and deletes later | only what should go goes, and it does go |
| Config (`database/utils.go`, REST bans) | one document: counters, bans; a cache with a lease of 30 seconds | increment, read through the cache, invalidate, ban, unban | unlocked fill, missing invalidation, whole-array writes | IDs unique, bans kept and noticed |
| Setlists, bands, characters, images (`setlists/*`, `entities/*`, `savebinarydata`, `getbinarydata`) | their collections, files by GUID or ID | find, draw an ID, insert or upsert; write a file | three calls per save; ownership checked on an old read, or not at all; files outlive documents; writes cut short | one document per owner and slot; only owners update setlists; no image passes to a later battle or band |
| Accomplishments (`accomplishment/record`) | one document with 32 arrays of entries | read, change in memory, write the arrays back | lost updates, an index used in all arrays, a dropped error | the arrays stay parallel; banned players go |
| Leaderboards and ticker (`leaderboards/*`, `ticker/info`, REST) | caches of PIDs by console type and of ranks | ranks, pages, ranges, friends | boundaries of pages, equal and missing scores, stale caches, several reads per request | requests agree on ranks; a page has the player it was made for; caches catch up |
| JSON marshalling, binary serialization, tickets, stubs | none | conversions | - | not part of this project |

`PROJECT.json` lists every component with its sources and status, and under `hazards`
every place where the code is exposed, at its line, with the properties that cover it
or the reason why none does.

How the components interact: handlers of all protocols share the database and call
`GetNextPID` and its siblings, `GetCachedConfig` and the client store directly.
LookupOrCreateAccount writes `gatherings`; housekeeping writes `scores`, `setlists`,
`gatherings` and reads the config cache; REST writes `config`, `setlists` and `scores`.
The message store is reached through one global and touches no collection.

## 2. Modules

| Module | What it is | State and its place in the code |
|---|---|---|
| `Mailbox` | abstract: what readers of the message store are promised | `box[p]`, the live messages of a recipient; `reply`, what was last shown; `now` |
| `MessageStore` | `servers/messagestore.go` and its handlers | `messages`, `nextMessageID`, `quit` as in the struct; `pending`, a DeliverMessage between NextMessageID and AddMessage; `tick`, `loop`, the goroutine; `issued`, `reply`, `gone` are histories |
| `MessageStore_proofs` | theorems about `MessageStore` | - |
| `Gatherings` | matchmaking and PruneOldSessions | `gatherings`, the collection; `users`, the accounts with a document; `session`, `client.Username` and `client.PlayerID()`; `call`, what a handler does next; `created`, the last ID |
| `Gatherings_proofs` | theorems about `Gatherings` | - |
| `MCGatherings` | consoles, accounts and spellings for its runs | - |
| `Scores` | recording, battles, four housekeeping tasks, administrator | `scores`, `setlists`, `lastSetlistID`, `banned`: documents; `cachedBans`: the config cache; `call`: handlers; `hk`: the housekeeping goroutine; `inserted`: the last `_id` |
| `MCScores` | bands and symmetry for its runs | - |
| `Scores_proofs` | theorems about `Scores` | - |
| `Config` | the config document, its cache, bans and counters | `lastID`, `bans`: the document; `cache`: `configCache` and its expiry; `elapsed`: bans whose time has come; `call`: handlers; `banned`, `handed`: histories |
| `Config_proofs` | theorems about `Config` | - |
| `Registry` | abstract: what the collection of accounts promises | `accounts`, a partial map from players to PIDs as a set of pairs; `used`, the PIDs ever given |
| `Sessions` | login, tickets, registration, accounts, client store, CleanupInvalidUsers, restarts | `users`, `machines`, `lastPID`, `lastMachineID`: documents; `auth`, `client`: the client objects on the two servers; `ticket`: what the console holds; `stack`: `PIDStack`; `call`: handlers; `cleanup`: housekeeping; `restarts`, `issued`, `refused`: histories |
| `MCSessions` | who is meant by which spelling, for its run | - |
| `Sessions_proofs` | theorems about `Sessions` | - |
| `SavedData` | setlists, bands, characters, battles, images | `setlists`, `bands`, `characters`: collections; `lastID`: three counters; `images`: files, by the players whose battle or band they were saved for; `session`: as in `Gatherings`; `call`: handlers |
| `SavedData_proofs` | theorems about `SavedData` | - |
| `MCSavedData` | accounts and services of the consoles for its run | - |
| `Accomplishments` | accomplishment/record and CleanupBannedUserAccomplishments | `board`, `exists`: the document; `bans`, `cachedBans`: the config and its cache; `call`, `hk`: handlers and housekeeping with the copies they have read; `failures`: a history |
| `MCAccomplishments` | requests and bans for its run | - |
| `Accomplishments_proofs` | theorems about `Accomplishments` | - |
| `Leaderboards` | leaderboards, ticker, their caches | `score`, `console`, `friends`: collections; `cache`: entries that have not expired; `call`: handlers with what they have read; `session`: a login between its update and its invalidation; `changes`: a history |
| `MCLeaderboards` | scores, types and requests for its run | - |
| `Leaderboards_proofs` | theorems about `Leaderboards` | - |

How they compose: `MessageStore` implements `Mailbox` and `Sessions` implements `Registry`
by instantiation. `Gatherings`, `SavedData` and `Leaderboards` take what `Sessions`
establishes for granted (whom a console may act as, `Valid`, a PID per account) and model
of LookupOrCreateAccount and Login only what they need; `SavedData` and `Sessions` use the
counters of `Config`; `Accomplishments` and `Scores` see `Config` as a cached list of bans.

Conventions. One action is one MongoDB call, or one critical section, with everything
the handler does up to the next one: validation, early returns and checks are guards of
the action they precede. A handler that returns early changes nothing and is a
stuttering step. `call[k]` is the continuation of the handler in goroutine `k`: the
local variables that are still needed, and `op`, the next thing to do. An operator
marked *Mutant* is not part of the model; it is what a plausible slip in the code would
make of the definition that follows it, and the property named for it in `PROJECT.json`
fails when it takes that definition's place.

Abstractions. A slice or an array is a set where no caller depends on the order. Time
is an age that grows (a gathering's, a battle's, the cache's), or a small clock
(messages). A gathering's contents, which the server stores and forwards as bytes, are left
out but for the "public" byte, which UpdateGathering reads out of them into a column. A score
document is its player, its board (a song played in one role, or a battle) and its points;
the sanity checks of scores/record are represented by the one on the points. A Wii stands
for its machine ID, its friend code and the name of its Master User.

Upserts. MongoDB guarantees no uniqueness for an upsert without a unique index, and the
source creates no index. `UpsertMisses` and `UpsertInserts` are therefore two steps.

### MessageStore, Mailbox

DeliverMessage is `NextMessageID` and then `AddMessage`; the other handlers are one
action each, since the store's methods hold its mutex throughout. `ImplementsMailbox` is
the specification `Mailbox` with `box[p]` mapped to the messages of `p` that have not
expired: purging, the filtering reads and the emptied keys are all stuttering steps, and
a retrieval that drops expired messages on the way looks like one that does not.

### Gatherings

RegisterGathering is clear and insert, UpdateGathering, SetState and TerminateGathering
are find-with-check and write, LookupOrCreateAccount is look-up, clear and transfer (the
transfer may fail, and the call goes on), CustomFind is aggregate and reply. `owner` is
a history on each document: the PID under which it was last registered, updated or
handed over. `Overlap = FALSE` says that a console waits for an answer before it sends
the next call, as the game's client does; different consoles overlap freely.

A player may type his name in several ways (`Spellings`). LookupOrCreateAccount finds the
account whatever the case and takes the typed name for the session, from where it becomes the
creator of gatherings; the ownership check compares creators with the registered name. So a
gathering written under another case fails its own player's check, and clearing "by creator"
misses one that was registered under another. The run has a player with two spellings;
`OwnerPassesCheck` is about gatherings that carry a registered name and `OneGatheringEach`
about names that are typed in one way (`Steady`), and both say so.

### Scores

A call's `todo` is the rest of the loop over `req.PIDs`. Song and battle scores share the
loop and differ in their checks and their points: one per member of the band or one for all.
On the boards in `Racing` one player's score may be recorded by two calls at once, as after
a retry or from two consoles; on the others not. `FindScore` is the FindOne that answers;
one that fails for another reason than a missing document is not noticed, its existing score
is 0, and what is stored will be overwritten: `FindScoreFails`. `SongPoints` bounds the
points sent for a song, so that the run has a battle with three. The housekeeping goroutine
holds what it has read (`hk.work`) while everybody else goes on.

### Config

One counter stands for all five, `getNextCounter` treats them alike. `Miss` reads the
document without the lock and `Fill` stores what was read. `BanPlayer` is a `$push`,
`UnbanRead` and `UnbanWrite` are the read and the `$set` of the whole array. Login judges the
cached copy, and neither a ban nor an unban invalidates it: `UnbanLetsIn` is about the list
that an unban writes, `UnbanIsNoticed` about the cache that Login asks.

### Sessions, Registry

`Login` is a ban check and a look-up that either answers (`LoginKnown`, `LoginMachine`) or
creates: `GetNextPID`, `InsertUser`, `FindCreated` for accounts, shared with
LookupOrCreateAccount, and `GetNextMachineID`, `InsertMachine` for Wiis. `RequestTicket`
refuses a PID other than the one Login assigned. `OnConnection` makes a username of the PID,
`RegisterEx` a PID of the username. The PID is the one the console states (`MayState`): the
code skips the Kerberos ticket and the session key is the same for all (nexservers.go:30-46).
`Stated` says which consoles may state what besides the PID of their ticket; in the run the
PS3 may state the first account's. `who` on a client object is the one who logged in, if the
PID is the ticket's. When OnConnection finds an account it leaves the friend code and the
machine ID of the client object's earlier connection (nexservers.go:55-68), and RegisterEx
falls back on the friend code when the account is gone; `RegisteredAsLoggedIn` therefore speaks
of connections with the ticket's PID and no other machine's friend code (`AsTicketed`).

RegisterEx is two steps. The first sets and pushes the PID, which is valid from then on;
then the verifier is asked over HTTP, and others go on; then the registration is accepted
(`RegisterAccepted`), ends in an error for an unknown class, which leaves the PID valid
(`RegisterUnknownClass`), or the client is kicked (`RegisterRefused`). A console keeps its
address, so the store's key is the console. `Matching` compares names as the
case-insensitive filter does (`Player[name]`), `Registrants` as they are spelled. The
console type follows from the access key, one per process; a PS3 and a Wii in one run are
two processes with one database.

`ImplementsRegistry`: a player's account is created once, under a new PID, and may be
removed. It leaves out the players in `Racing`, whose first logins may overlap: two find
nothing and two accounts come to be. With `Racing = {}` nobody's do, as one console logs in
once; the assumption is named and is what the theorem below states too.

### SavedData

Every service is find, counter, write. `InTurn` says that calls for one GUID, or one
player's band, do not overlap unless it is in `Racing`; the run has one GUID of either kind.
Two consoles do not play for one account at a time (`Free`). What matters of a document is who
stored it, under which ID; titles, songs and bytes are `by`.

SaveBinaryData asks nobody whether the battle or band is the console's, or exists, so any
console may save an image under any ID (`SaveOpen`). An image is whose battle or band had the ID
when it was saved (`Pictured`): `ServedAsSaved` is about IDs that come to mean something else,
not about who may draw. os.WriteFile truncates the file (`SaveOpen`) and fills it (`SaveWrite`)
or fails (`SaveWriteFails`). BattleID is what battles/create does, for any console at any time;
battles/limit/check only answers and is not modelled, since nothing enforces what it says.

### Accomplishments

`RecordFind` is the read, `RecordUpdate` the write of all arrays as `Recorded` makes them of
the copy. The error of the read is dropped in the code: `RecordFindFails` is a read that
yields an empty document. The housekeeping task does the same with `Filtered`.

### Leaderboards

A board is a function from players to points; `Rankings` is the set of orders in which
MongoDB or `sort.Slice` may return it, ties being free. Requests that read once are
operators (`MaxRank`, `RankRange`, `RestPage`, `AccPage`, `AccRange`), compared with each
other in `Agreement`; they are compared on one order of the ties, as a database gives that
does not change. leaderboards/playerranks finds the scores first and counts the higher ones
in a later call per song: `PlayerRank` takes any score for the earlier read's. The requests
for goals see a goal only if getAccomplishmentField has a case for it (`Served`,
`AccomplishmentField`; the code has none for acc_tourgoldcontinental3); for another they
answer an empty list, and `Agreement` does not speak of it, nor of leaderboards/acc_maxrank,
which filters by a field the document does not have and always answers 0
(acc_maxrank.go:54). leaderboards/player, battle_player and ticker/info read several times
and are actions: the console list through the cache (`LookupHit`, `LookupMiss`,
`LookupFind`, `LookupFill`), the player's score, the fallback, the filter again, the count,
the page. The cache of console types and those of ranks have one shape and are one variable;
the ticker's count of battles, a third of that shape, is left out. `Record`, `DeleteBattle`,
`FriendsUpdate` and the logins are what changes meanwhile.

## 3. Runs

| Run | Shows |
|---|---|
| `message_store` | safety, refinement and purging of the message store |
| `gatherings` | safety of matchmaking with three consoles, and pruning |
| `scores` | safety of recording with two players, two calls, failing reads and housekeeping |
| `scores_live` | battles are deleted, banned players' scores are removed |
| `battle_scores` | **finding**: scores of expired battles are not deleted |
| `battle_duplicates` | **finding**: equal scores in two battles are taken for duplicates |
| `config` | safety of counters and bans, and that bans and unbans are noticed |
| `lost_ban` | **finding**: an unban may drop a concurrent ban |
| `sessions` | safety of login, registration and the client store, the registry, and that a new Wii gets in |
| `accomplishments` | the arrays stay parallel, who may lose scores, banned players are removed |
| `saved_data` | nothing stored twice in turn, owners of setlists, images |
| `leaderboards` | requests agree on ranks, pages have their player, caches catch up |

The findings are described, with the lines they contradict, in `PROJECT.json`.

The properties, by what they are about:

- *Reads that are stale when they are used*: `OnlyItsConsoleWrites` (a check made before
  another console acted), `HigherOnlyInTurn`, `SongScoreKept` (duplicates deleted on an old
  aggregation), `BannedScoresRemoved`, `BannedAreRemoved`, `BanIsNoticed` and `UnbanIsNoticed`
  (through the cache), `OthersKept` and `ArraysAgree` (32 arrays written back from a copy),
  `OwnSetlistsOnly` (owner checked before), `PlayerOnPage` (a count made with one filter and a
  page cut with another).
- *Sequences of calls*: `OneGatheringEach`, `OwnerPassesCheck` (register, log in, update,
  switch back, fail to transfer, type another case, ...), `UnbanLetsIn` (Login and unban choose
  "the" ban by different rules), `RegisteredAsLoggedIn` (PID, name, PID), `CurrentPIDIsValid`
  (more accounts than the stack holds), `RefusedStaysOut` (from the kick to the next try).
- *Identity*: `UniqueIDs` (twice), `BattleIDsAreNew`, also against the scores that a
  deleted battle has left behind, `ImplementsRegistry`, `SavedOnce`, `ServedAsSaved`.
- *Boundaries*: `RanksAgree` (ties, no score, first and last row of a page), `PlayerOnPage`.
- *Nothing lost, nothing back*: `GoneForGood`, `NoEmptyMailbox`, `ImplementsMailbox`.
- *In the end*: `ExpiredIsPurged`, `AbandonedIsPruned`, `BattlesAreDeleted`,
  `NewWiiRegisters`, `UnbanIsNoticed`, `BanIsNoticed`, `CacheCatchesUp`.

What some of them leave out, because the code does not provide it: `UniqueIDs` of the message
store holds until the 32-bit counter has wrapped; `HigherOnlyInTurn`, `SavedOnce` and
`ImplementsRegistry` hold where calls for one player or document do not overlap (outside
`Racing`), and `HigherOnlyInTurn` for calls whose FindOne does not fail; `OthersKept` excuses
the writing back of a copy that was overtaken or never read, and `PlayerOnPage` a page whose
count no longer holds.

Where the code differs from its comments, and no run is spent on it because the model's
definitions show it at a glance:

- "Only update if the new score is higher" (scores/record.go:167) is decided on an earlier
  read; of two calls for one player the lower score may be written last. `HigherOnlyInTurn`
  is what is left: it holds where calls do not overlap.
- customfind.go writes the number of gatherings and then skips those whose creator is not in
  `users`; "shouldn't happen" (customfind.go:207), and does for a Wii's Master User.
- "should always call this after updating the config" (utils.go:85): neither ban nor unban
  invalidates the config cache, so a ban takes up to 30 seconds; `BanIsNoticed` holds.
- an unban takes as long: Login goes on refusing the player until the lease of the cache ends.
- the owner of a gathering whose name was typed in another case than it was registered in
  does not pass "make sure the client's PID matches the creator" (updategathering.go:52).
- leaderboards/acc_maxrank answers 0 whatever was stored, acc_player and acc_rankrange have no
  case for acc_tourgoldcontinental3, and rankrange ignores `lb_mode`.
- A player who is not on a filtered board is shown the page of the number of higher scores,
  which is empty when that number is a multiple of 19 and all rows there are.
- DeleteAccount and CleanupInvalidUsers do not invalidate the cache of console types.

### Bounds

| Run | Instance | Why it is enough |
|---|---|---|
| `message_store` | 2 recipients, 2 senders, 3 messages, 2 IDs, life times 0 and 1, one tick of time | two deliveries overlap, a mailbox holds two messages of different ages, the counter wraps with the third message |
| `gatherings` | a Wii with a Master User and an account, a PS3 with an account that has two spellings, an RPCS3; 2 handlers, 2 registrations | a console registers twice or two do; a gathering carries the other spelling; every pair of handlers interleaves; PS3 and RPCS3 search each other |
| `scores` | 2 players who play alone or as a band, 1 song with points 0 and 1, 1 battle with points 0 to 2, 2 calls, 3 inserts | a double insert and one more; a band's loop overlapping another's; an equal, a lower, a rejected and a higher score |
| `scores_live` | 1 player, 2 battles, 1 call, 2 inserts | a battle is created after another was deleted; bans come and go |
| `config` | 1 player, 2 bans, 2 IDs, a lease of 2, two handlers and housekeeping | a latest and an earlier ban; two IDs around an unban; a stale fill between two bans |
| `sessions` | a PS3 and a Wii, a player with two spellings, one without a name; the PS3 may state the first account's PID; 2 accounts, 2 machines, a stack of 2, one restart | the stack evicts with the third PID (two accounts and a machine); an account is deleted, or cleaned up, between any two calls of another console; a new Wii creates two machines at most |
| `accomplishments` | 2 consoles, 2 players, 2 goals, a permanent and a temporary ban, one failing read | two copies are written back around a third writer; the metascore and another array |
| `saved_data` | 2 consoles, 3 accounts (one a battle administrator) and a Master User's PID, 2 GUIDs, 3 IDs, images under the first | a setlist raced for and one not; a console with two accounts; an ID drawn by each of three saves; an image saved before there is a battle or band, for it, and after it expired |
| `leaderboards` | 2 consoles, 3 players, 2 songs, 1 battle, 2 goals, one of them without a case, pages of 2 rows, 1 change | a full page and one with a row; equal, missing and zero scores; a change between any two reads of a request |

The passing runs have between 65 thousand and 2.3 million distinct states; the largest is
`scores`.

In `scores` the goroutines are interchangeable and symmetry is used; only safety is
checked there.

### Fairness

- The purge ticker fires and the goroutine is scheduled: the Go runtime's promise
  (`MessageStore`). Nothing is assumed of senders and readers.
- Time passes (`Age`, `AgeBattle`, `GrowOlder`) and the housekeeping ticker fires
  (`PruneOldSessions`, `Housekeeping`), as `server.go` starts them when housekeeping is
  enabled. A handler may stay where it is for ever.
- The config cache is filled again and again (`RefillConfigCache`, `Miss(Keeper)`), since
  housekeeping asks for it every minute and its lease is 30 seconds; a fill that has
  begun ends.

- A handler that has begun goes on (`Sessions`, `Leaderboards`), a Wii that wants in keeps
  logging in, asking for a ticket, connecting and registering (`NewWiiRegisters`: without its
  retry the first login's PID 0 is the end), and its registration is not refused for its class
  each time (a Wii's is one the code knows), the entries of caches expire (`Expire`) and the
  config cache is refilled (`Accomplishments`).

The pass runs check for deadlock: in every module somebody can always move.

## 4. Proofs

`MessageStore_proofs` proves for every set of recipients and senders, every longest life
time, every number of IDs greater than one and every bound on messages and time:

| Theorem | Statement |
|---|---|
| `TypeCorrect` | `Spec => []TypeOK` |
| `NoEmptyMailboxes` | `Spec => []NoEmptyMailbox` |
| `SerialsInOrder` | `Spec => []SerialInv` |
| `IDsAreUnique` | `Spec => []UniqueIDs` |
| `GoneStaysGone` | `Spec => []GoneForGood` |
| `MailboxImplemented` | `Spec => ImplementsMailbox` |

The assumptions are `BoundsAssumption` and `NoMessageAssumption` of `MessageStore`.

`UniqueIDs` and `GoneForGood` are not inductive: an arbitrary state may hold one message
in two mailboxes, or in a mailbox and in a sender's hands. `SerialInv` says what the
code maintains instead: the counter is the number of IDs issued modulo its range and
every message's ID follows from its serial (`CounterInv`, `StoredInv`, `PendingInv`); a
message has one sender (`OneSender`), is not both on its way and stored
(`NotYetStored`), lies in one mailbox (`OneMailbox`), and what was taken out is neither
(`GoneInv`). Uniqueness follows by arithmetic: two serials no greater than the modulus
with one remainder are equal. TLC confirms `SerialInv` on the run's instance. For the
refinement, one lemma per group of actions says which step of `Mailbox` it is, under
`TypeOK` and `SerialInv` (the latter for the step that adds a message: it is new in its
box).

`Sessions_proofs` proves for all consoles, names, spellings, bans and bounds:

| Theorem | Statement |
|---|---|
| `TypeCorrect` | `Spec => []TypeOK` |
| `CurrentPIDStaysValid` | `Spec => []CurrentPIDIsValid` |
| `RefusedStayOut` | `Spec => []RefusedStaysOut` |
| `RegisterAsLoggedIn` | `Spec => RegisteredAsLoggedIn` |
| `RegistryImplemented` | `Spec => ImplementsRegistry` |

The assumption is `SessionsAssumption`. A lemma about `PushPID` says that it keeps the stack
typed and within its size, and that what is pushed is in it. The client
store is correct by an invariant over three stages of a client: what is registered with a PID
has just pushed it, and pushing another one changes the PID. For the registry, the invariant
says that every PID in use was drawn (it is at most `lastPID`), that the PIDs handlers are
about to insert differ from those and from each other, that outside `Racing` a player is
created by one handler at a time, and not while it has an account; `InsertUser` is then the
registry's `Register` and every deletion its `Remove` or a stutter.

`RegisteredAsLoggedIn` follows a PID from the login that assigned it, through the ticket
made out for it and the name or friend code that OnConnection finds for it, to the PID that
RegisterEx makes of that again, and on to the end of the registration (`RegisteringAs`). Other
connections may be made with any PID. The property is about one step only; the invariant has to
say at each of these places whom the PID means. `MachineInv`: machine IDs are drawn once and
lie above the PIDs of accounts, and no machine is ever removed. `FromLogin`: the PID the
authentication server assigned, and the one a ticket was made out for, is 0, the ID of this
Wii's machine, or a PID that was issued to the player who logged in, who may have been
deleted since (hence `issued`, the history, and not `users`). `Means`: the name in a client
object is one of the player's spellings, the friend code the Wii's. Two deletions and a
restart may come between any two of the four, and because no PID is drawn twice
(`RegistryInv`) what they leave cannot mean another player.

`Leaderboards_proofs` proves for every page length, set of players, scores and requests:

| Theorem | Statement |
|---|---|
| `PageIsThePlayers` | `Spec => PlayerOnPage` |
| `RanksAlwaysAgree` | `Spec => []Agreement /\ RanksAgree` |

under `LeaderboardsAssumption`, in which players and songs are finitely many. The invariant
`Shape` types what the proof needs of handlers and scores. `PageBounds` says that the page
of `n` starts at or before `n` and ends after it; `RowAfterHigher` that in any order of a
board the row after those with a higher score has the score looked for, which needs that the
rows with higher scores are exactly the first ones and their number is the count
(`RankingNumbers`); `IndexOfPlayer` that the index found in the slice is the player's.

`RanksAgree` compares the requests for songs, battles, totals (`BoardAgreement`) and the goals
with a case (`GoalAgreement`). `ShapeAgreement` needs
that what is ranked are natural numbers, also where it is a sum over songs: `SumsExist` and
`SumIsNatural` show it by induction on the number of songs, as a set of numbers that has 0
and the successors (`LeastNatural`, `UpTo`). That the ranges of rankrange.go,
acc_rankrange.go and the REST endpoint cut the same rows is arithmetic on their different ways
of counting (`RangesAgree`); that every row is on a page, and a player's on the page
acc_player_get.go makes, is division with its remainder (`AllRowsShown`, `AccPageHas`); that the
rank of a player fits any score it may have been counted for is that the higher rows are the
first ones (`HigherComeFirst`).

`Gatherings_proofs` proves for any consoles, accounts, goroutines and bounds:

| Theorem | Statement |
|---|---|
| `OneEachAlways` | `Spec => []OneGatheringEach` |
| `OwnersPass` | `Spec => []OwnerPassesCheck` |
| `OwnConsoleWrites` | `Spec => OnlyItsConsoleWrites` |
| `TypeCorrect` | `Spec => []TypeOK` |

under `ConsolesAssumption` and, as a hypothesis of each but the last, `Separate`: a console
has one call in progress, an account is played on one console, and nobody is called
"Player". The run's instance satisfies it; names may be typed in any number of ways, and the
properties say what holds then. Without its first part a console may get two gatherings;
without its last, every Wii's Master User owns the gatherings of a player called "Player".
The invariant `Inv` gives every gathering one home, the console its creator and its machine
belong to (`DocOK`); says that a console's players and its machine have one gathering each
(`OneEach`); that a gathering the machine may still hand over does not lie beside another
one of the player who is logged in, except between the two writes of LookupOrCreateAccount
(`NoRival`), for an update would make both the player's; and what a handler has found and
still relies on when it writes (`Relies`): RegisterGathering that nothing is left of the
name its console acts under, nor of its machine, the three handlers with an ownership check
that the document is still the console's or gone. The argument is locality: `LocalStep`
shows that a step that writes, adds and removes only what is at home at console `c` disturbs
neither the gatherings nor the calls of other consoles, so that each action has to be
examined for its own console only, where no other call runs. `TypeOK` is not inductive
either: the number of gatherings stays within its bound because a registration is counted
from its clear to its insert, so `Bounded` counts the calls between the two with those
registered. It holds for overlapping calls and any spellings too.

`Scores_proofs` proves for all players, bands, songs, goroutines, bans and bounds:

| Theorem | Statement |
|---|---|
| `TypeCorrect` | `Spec => []TypeOK` |
| `NewBattlesAreNew` | `Spec => []BattleIDsAreNew` |
| `HigherScoresOnly` | `Spec => HigherOnlyInTurn` |
| `SongScoresKept` | `Spec => SongScoreKept` |

under `ScoresAssumption`. `NewIDInv`: the setlist IDs in use are at most `lastSetlistID`,
those in the hands of calls that create a battle are used by nothing and differ. `TurnInv`:
a board whose calls do not overlap has one document per player (`OneDocument`) and one call
at work on it (`OneCall`); what that call is about to write improves what is stored, unless
its FindOne failed (`UpdateImproves`), and what it is about to insert is the first
(`InsertIsFirst`). `DuplicatesInv`: beside every song score that DeleteDuplicateScores is
going to delete there is one of the same player and song that it will not, which none of the
steps between the aggregation and the deletion takes away. The lemma `StepKinds` sorts the
steps by what they do to the scores, so that an invariant is shown for a few kinds of steps
and not for every action.

`Config_proofs` proves for all numbers of handlers, players and bounds:

| Theorem | Statement |
|---|---|
| `TypeCorrect` | `Spec => []TypeOK` |
| `IDsAreUnique` | `Spec => []UniqueIDs` |
| `UnbanListsLetIn` | `Spec => UnbanLetsIn` |

under `ConfigAssumption`. `TypeOK` is not inductive: an unban writes back a list it has read
earlier, which has to be one of bans that were pronounced (`ListsNumbered`). `IDInv`: an ID
that was handed out, or that a handler holds between the increment and the answer, is at most
`lastID`, and no two are equal, whatever the cache holds. `UnbanInv`: the list an unban is
about to write passes Login's check, since a ban that is later than the active one it lifts is
not active (`LiftedListAllows`), and time makes no ban active again. That Login comes to read
such a list through its cache (`UnbanIsNoticed`) is liveness and left to TLC.

`SavedData_proofs` proves for any consoles, accounts, GUIDs, paths and bound:

| Theorem | Statement |
|---|---|
| `EachSavedOnce` | `Spec => []SavedOnce` |
| `SetlistsByOwners` | `Spec => OwnSetlistsOnly` |
| `ImagesServedAsSaved` | `Spec => []ServedAsSaved` |
| `TypeCorrect` | `Spec => []TypeOK` |

under `SavedDataAssumption`. The invariant `SavingInv` is a conjunction of parts that are
shown one by one, each for the service that matters to it; `CallSteps` says of the calls of
the others that they touch neither its documents nor its calls. `SetlistInv`: an ID is
claimed (`Claim`) by a setlist or by a call that is going to write one, and by one GUID only
(`OneGuid`); what a call has found still holds when it writes, unless calls for the GUID may
overlap (`FoundStill`). `BandInv` and `CharacterInv` say it of the other two collections.
`ImageInv`: under the ID of a battle or band there is only what was saved for it, under an
ID that was not drawn, or that a call is still to insert a battle or band with, nothing that was
saved for anybody, and the same holds for what handlers are about to write (`SavedFor`). No
console is assumed to save only what is its own.

For `TypeOK`, `Bounded` says that the three counters together with the calls that are about
to draw from one stay within the bound, which `Room` checks when such a call begins.

`Accomplishments_proofs` proves for any consoles, players, goals, requests and bans:

| Theorem | Statement |
|---|---|
| `Invariant` | `Spec => []IInv` |
| `TypeCorrect` | `Spec => []TypeOK` |
| `ArraysAlwaysAgree` | `Spec => []ArraysAgree` |
| `OthersAreKept` | `Spec => OthersKept` |

under `AccomplishmentsAssumption`. `ArraysAgree` speaks of the stored document, but handlers
and housekeeping write back whole copies they read earlier, so `IInv` says it of every copy
that somebody still holds (`Aligned`). Recording keeps a copy aligned because the index found
among the metascores is the player's in every array (`IndexFound`, `RecordedAligned`), or the
player is appended to all of them. Removing banned players keeps it aligned because which
entries `filterEntries` keeps depends on the PIDs only (`FilterEntriesSame`), and it keeps
every other player's entries (`FilteredOf`). The loop of `filterEntries` is a recursive
function of the number of entries seen; what holds after each turn is shown by the principle
that a set of natural numbers has a least element, which the library states for well-founded
relations without an operator parameter (`WFMin`).

Model-checked only: the nine liveness properties (`ExpiredIsPurged`, `AbandonedIsPruned`,
`BattlesAreDeleted`, `BannedScoresRemoved`, `UnbanIsNoticed`, `BanIsNoticed`,
`NewWiiRegisters`, `BannedAreRemoved`, `CacheCatchesUp`), since reasoning under fairness
needs ENABLED, which is out of the prover's reach. Every invariant, every action property
and both refinements that the passing runs check are theorems.

## 5. Not modelled

- Failures of MongoDB calls, except for those that are: the transfer in
  LookupOrCreateAccount, the FindOne of scores/record and battles_record, the read of
  accomplishment/record; and the deadlines of housekeeping tasks. Most handlers answer with an
  error and return, which is a prefix of a behaviour that is modelled. Those that go on as if
  nothing had been found (login.go:181, lookuporcreateaccount.go:34, entities/band/update.go:88,
  entities/character/update.go:62) or as if nothing had happened (lookuporcreateaccount.go:123)
  are listed under `hazards`; an ignored error of a write (scores/record.go:168, for one) leaves
  the state as it was.
- The contents of gatherings: when calls of one console overlap, SetState may write back older
  contents than an update has stored.
- The art of setlists, stored under the GUIDs that consoles choose, and the image of a battle
  that is not named, stored under 0. The server checks no owner of any image.
- The answers of battles/limit/check and leaderboards/acc_maxrank.
- The answers' layout, the instaranks, formatting, logging.
- The UDP transport and its retransmissions (nex-go, an external library).
- Crashes other than `Restart` in `Sessions`: the database survives them, and a process that
  stops between two calls leaves what a handler that stays where it is leaves; the message
  store is lost as a whole, as it is meant to be.
- Profanity checks, which only refuse; link codes; the ticker's count of battles; names and
  band names on leaderboards.
- The components marked `not_modelled` in `PROJECT.json`.

## 6. Plan

Done: `MessageStore`, `Gatherings`, `Scores`, `Config`, `Sessions`, `SavedData`,
`Accomplishments`, `Leaderboards`. What is left, the most important first:

1. A composition of `Sessions` and `Gatherings` through the session, in place of the part of
   LookupOrCreateAccount that both model.
2. Battle expiry by unit of time, as a function checked against the units of
   songlists/get.go: a duration in weeks has no unit in `GetBattleExpiryInfo`.
3. Failing MongoDB calls beyond the ones that are modelled, lookups of accounts first.
