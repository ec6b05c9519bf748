-------------------------------- MODULE Scores --------------------------------
(***************************************************************************)
(* The scores collection: the handlers that record song scores             *)
(* (scores/record) and battle scores (battles/score/record), the life of a *)
(* battle, the housekeeping tasks that delete scores and battles, and the  *)
(* REST calls that do.                                                     *)
(*                                                                         *)
(* Handlers run concurrently and nothing spans two MongoDB calls, so every *)
(* call is an action.  An upsert that finds nothing inserts in a second    *)
(* step: the collection has no unique index, so two of them may both find  *)
(* nothing.  FindOne and UpdateOne take any of several matching documents. *)
(*                                                                         *)
(* A board is a song played in one role, or a battle, named by its setlist *)
(* ID.  Of a score document its player, board and points are kept; of the  *)
(* checks on a song score only the one on its points.                      *)
(***************************************************************************)
EXTENDS Integers, Sequences, FiniteSets

CONSTANTS
    Players,     \* PIDs
    Bands,       \* the PID arrays a console may send, as sequences of players
    Songs,       \* boards that are songs
    Points,      \* the scores a console may send
    SongPoints,  \* bound: those it sends for a song
    Calls,       \* goroutines that handle RMC or REST calls
    Racing,      \* the boards on which calls for one player may overlap
    Bannable,    \* the players an administrator may ban
    MaxBattles,  \* bound: setlist IDs handed out in a behaviour
    MaxScores    \* bound: documents inserted in a behaviour

Battles == 1 .. MaxBattles
Boards == Songs \cup Battles

ASSUME ScoresAssumption ==
    /\ Bands \subseteq Seq(Players) \ {<<>>}
    /\ Points \subseteq Nat /\ SongPoints \subseteq Points
    /\ Songs \cap Int = {}
    /\ Racing \subseteq Boards
    /\ Bannable \subseteq Players
    /\ MaxBattles \in Nat
    /\ MaxScores \in Nat

VARIABLES
    scores,        \* the collection: a map from _id, in order of insertion
    inserted,      \* the last _id
    setlists,      \* the battles in the setlists collection, by setlist_id
    lastSetlistID, \* config.last_setlist_id
    banned,        \* players whose ban in config.banned_players is permanent
    cachedBans,    \* the same, as of the last time the config cache was filled
    call,          \* call[k]: what the handler run by goroutine k does next
    hk             \* where the housekeeping goroutine is

collections == <<scores, inserted, setlists, lastSetlistID>>
bans == <<banned, cachedBans>>
vars == <<collections, bans, call, hk>>

\* A battle is running, over, or over for more than the three days of grace.
Open == 0
Closed == 1
Forgotten == 2

\* setlist.Type of a player's battle and of a Harmonix battle.
PlayerBattle == 1000
HarmonixBattle == 1002

Score == {s \in [pid : Players, board : Boards, score : Points] :
            s.board \in Songs => s.score > 0}

Idle == [op |-> "idle"]
Waiting == [task |-> "idle", work |-> {}]

Entry == [pid : Players, score : Points]
------------------------------------------------------------------------------
(* The collection.                                                         *)

Matching(pid, board) ==
    {id \in DOMAIN scores : scores[id].pid = pid /\ scores[id].board = board}

KeptScores(deleted) == [id \in DOMAIN scores \ deleted |-> scores[id]]

DeleteMany(ids) == scores' = KeptScores(ids)

Continue(k, next) == call' = [call EXCEPT ![k] = next]
Return(k) == Continue(k, Idle)

\* The next turn of the loop over req.PIDs, or the answer.
NextEntry(k) ==
    IF Len(call[k].todo) = 1 THEN Return(k)
    ELSE Continue(k, [call[k] EXCEPT !.op = "find", !.todo = Tail(@)])

Playing(k) ==
    IF call[k].op \in {"find", "update", "overwrite", "insert"}
    THEN {<<call[k].todo[i].pid, call[k].board>> : i \in 1 .. Len(call[k].todo)}
    ELSE {}

\* Goroutine k takes up a call that records the entries on board.
Accept(k, board, entries) ==
    /\ call[k] = Idle
    /\ board \in Racing \/ \A other \in Calls, i \in 1 .. Len(entries) :
                              <<entries[i].pid, board>> \notin Playing(other)
    /\ Continue(k, [op |-> "find", board |-> board, todo |-> entries])

\* GetBattleExpiryInfo and the three days DeleteExpiredBattles adds: a battle
\* that is not found expired in 1970.
BattleAge(b) == IF b \in DOMAIN setlists THEN setlists[b].age ELSE Forgotten
------------------------------------------------------------------------------
Init ==
    /\ scores = [id \in {} |-> {}]
    /\ inserted = 0
    /\ setlists = [b \in {} |-> {}]
    /\ lastSetlistID = 0
    /\ banned = {}
    /\ cachedBans = {}
    /\ call = [k \in Calls |-> Idle]
    /\ hk = Waiting

(* Recording scores.                                                       *)

RecordSong(k, song, band) ==
    /\ \E points \in [1 .. Len(band) -> SongPoints] :
         Accept(k, song, [i \in 1 .. Len(band) |-> [pid |-> band[i], score |-> points[i]]])
    /\ UNCHANGED <<collections, bans, hk>>

\* Every member of the band gets the one score of the request.
RecordBattle(k, b, band) ==
    /\ BattleAge(b) = Open
    /\ \E points \in Points :
         Accept(k, b, [i \in 1 .. Len(band) |-> [pid |-> band[i], score |-> points]])
    /\ UNCHANGED <<collections, bans, hk>>

\* Mutant: a song score is not checked before it is looked up.
FindAnyScore(k) ==
    LET entry == Head(call[k].todo)
        found == Matching(entry.pid, call[k].board)
    IN
    /\ call[k].op = "find"
    /\ IF found = {} \/ \E id \in found : entry.score > scores[id].score
       THEN Continue(k, [call[k] EXCEPT !.op = "update"])
       ELSE NextEntry(k)
    /\ UNCHANGED <<collections, bans, hk>>

\* Mutant: the comparison with the existing score is left out.
FindScoreOnly(k) ==
    /\ call[k].op = "find"
    /\ IF call[k].board \in Songs /\ Head(call[k].todo).score <= 0
       THEN NextEntry(k)
       ELSE Continue(k, [call[k] EXCEPT !.op = "update"])
    /\ UNCHANGED <<collections, bans, hk>>

\* The sanity check, which battle scores do not have, FindOne and isNewScoreHigher.
FindScore(k) ==
    LET entry == Head(call[k].todo)
        found == Matching(entry.pid, call[k].board)
        rejected == call[k].board \in Songs /\ entry.score <= 0
    IN
    /\ call[k].op = "find"
    /\ \/ /\ ~rejected
          /\ found = {} \/ \E id \in found : entry.score > scores[id].score
          /\ Continue(k, [call[k] EXCEPT !.op = "update"])
       \/ /\ rejected \/ \E id \in found : entry.score <= scores[id].score
          /\ NextEntry(k)
    /\ UNCHANGED <<collections, bans, hk>>

\* An error other than ErrNoDocuments is not noticed: the existing score is taken
\* for 0, and what there is will be overwritten.
FindScoreFails(k) ==
    /\ call[k].op = "find"
    /\ Head(call[k].todo).score > 0
    /\ Continue(k, [call[k] EXCEPT !.op = "overwrite"])
    /\ UNCHANGED <<collections, bans, hk>>

\* UpdateOne with upsert, when there is something to update.
UpdateScore(k) ==
    /\ call[k].op \in {"update", "overwrite"}
    /\ \E id \in Matching(Head(call[k].todo).pid, call[k].board) :
         scores' = [scores EXCEPT ![id].score = Head(call[k].todo).score]
    /\ NextEntry(k)
    /\ UNCHANGED <<inserted, setlists, lastSetlistID, bans, hk>>

\* UpdateOne with upsert, when there is nothing to update, ...
UpsertMisses(k) ==
    /\ call[k].op \in {"update", "overwrite"}
    /\ Matching(Head(call[k].todo).pid, call[k].board) = {}
    /\ Continue(k, [call[k] EXCEPT !.op = "insert"])
    /\ UNCHANGED <<collections, bans, hk>>

\* ... inserts, whatever has been inserted since.
UpsertInserts(k) ==
    LET entry == Head(call[k].todo)
        doc == [pid |-> entry.pid, board |-> call[k].board, score |-> entry.score]
    IN
    /\ call[k].op = "insert"
    /\ inserted < MaxScores
    /\ inserted' = inserted + 1
    /\ scores' = [id \in DOMAIN scores \cup {inserted'} |->
                    IF id = inserted' THEN doc ELSE scores[id]]
    /\ NextEntry(k)
    /\ UNCHANGED <<setlists, lastSetlistID, bans, hk>>

(* The life of a battle.                                                   *)

\* Mutant: the next ID is computed from the battles that are left.
NextSetlistIDFromSetlists(k, type) ==
    LET used == DOMAIN setlists
        next == IF used = {} THEN 1 ELSE 1 + CHOOSE b \in used : \A other \in used : other <= b
    IN
    /\ call[k] = Idle
    /\ next <= MaxBattles
    /\ lastSetlistID' = next
    /\ Continue(k, [op |-> "create", id |-> next, type |-> type])
    /\ UNCHANGED <<scores, inserted, setlists, bans, hk>>

\* battles/create by a player and POST /battles by an administrator, up to
\* the ID: "atomically increments and returns".
GetNextSetlistID(k, type) ==
    /\ call[k] = Idle
    /\ lastSetlistID < MaxBattles
    /\ lastSetlistID' = lastSetlistID + 1
    /\ Continue(k, [op |-> "create", id |-> lastSetlistID', type |-> type])
    /\ UNCHANGED <<scores, inserted, setlists, bans, hk>>

InsertBattle(k) ==
    LET id == call[k].id IN
    /\ call[k].op = "create"
    /\ setlists' = [b \in DOMAIN setlists \cup {id} |->
                      IF b = id THEN [type |-> call[k].type, age |-> Open] ELSE setlists[b]]
    /\ Return(k)
    /\ UNCHANGED <<scores, inserted, lastSetlistID, bans, hk>>

\* The battle's time is over, and then the days of grace are.
AgeBattle(b) ==
    /\ b \in DOMAIN setlists
    /\ setlists[b].age # Forgotten
    /\ setlists' = [setlists EXCEPT ![b].age = @ + 1]
    /\ UNCHANGED <<scores, inserted, lastSetlistID, bans, call, hk>>

\* DELETE /battles: the Harmonix battle, and then its scores.
DeleteBattle(k, b) ==
    /\ call[k] = Idle
    /\ b \in DOMAIN setlists
    /\ setlists[b].type = HarmonixBattle
    /\ setlists' = [other \in DOMAIN setlists \ {b} |-> setlists[other]]
    /\ Continue(k, [op |-> "delete scores", id |-> b])
    /\ UNCHANGED <<scores, inserted, lastSetlistID, bans, hk>>

DeleteBattleScores(k) ==
    /\ call[k].op = "delete scores"
    /\ DeleteMany({id \in DOMAIN scores : scores[id].board = call[k].id})
    /\ Return(k)
    /\ UNCHANGED <<inserted, setlists, lastSetlistID, bans, hk>>

(* The administrator.                                                      *)

Ban(p) ==
    /\ banned' = banned \cup {p}
    /\ UNCHANGED <<collections, cachedBans, call, hk>>

Unban(p) ==
    /\ banned' = banned \ {p}
    /\ UNCHANGED <<collections, cachedBans, call, hk>>

DeletePlayerScores(p) ==
    /\ DeleteMany({id \in DOMAIN scores : scores[id].pid = p})
    /\ UNCHANGED <<inserted, setlists, lastSetlistID, bans, call, hk>>

\* The config cache expires, or is invalidated, and is filled again.
RefillConfigCache ==
    /\ cachedBans' = banned
    /\ UNCHANGED <<collections, banned, call, hk>>
------------------------------------------------------------------------------
(* Housekeeping: one goroutine, the tasks in this order, every minute.     *)

At(task) == hk.task = task

Goto(task, work) == hk' = [task |-> task, work |-> work]

\* The fields the aggregation groups by.  A battle score has no song_id.
Same(i, j) ==
    /\ scores[i].pid = scores[j].pid
    /\ scores[i].score = scores[j].score
    /\ scores[i].board = scores[j].board \/ {scores[i].board, scores[j].board} \subseteq Battles

\* Mutant: all members of a group are taken for duplicates.
DuplicatesWithNewest(id) ==
    IF \E i \in DOMAIN scores : i # id /\ Same(i, id)
    THEN {i \in DOMAIN scores : Same(i, id)} ELSE {}

\* "Take all but the first (newest) id as duplicates to delete."
Duplicates(id) == {i \in DOMAIN scores : i < id /\ Same(i, id)}

\* CleanupDuplicateScores: one aggregation, then a DeleteMany for every group.
AggregateDuplicates ==
    /\ At("idle")
    /\ Goto("duplicates",
            {Duplicates(id) : id \in {i \in DOMAIN scores : ~\E j \in DOMAIN scores : j > i /\ Same(i, j)}}
            \ {{}})
    /\ UNCHANGED <<collections, bans, call>>

DeleteDuplicates ==
    /\ At("duplicates")
    /\ \E group \in hk.work : DeleteMany(group) /\ Goto("duplicates", hk.work \ {group})
    /\ UNCHANGED <<inserted, setlists, lastSetlistID, bans, call>>

CleanupInvalidScores ==
    /\ At("duplicates")
    /\ hk.work = {}
    /\ DeleteMany({id \in DOMAIN scores : scores[id].score <= 0})
    /\ Goto("find battles", {})
    /\ UNCHANGED <<inserted, setlists, lastSetlistID, bans, call>>

\* DeleteExpiredBattles: the cursor over the battles, ...
FindBattles ==
    /\ At("find battles")
    /\ Goto("battles", DOMAIN setlists)
    /\ UNCHANGED <<collections, bans, call>>

\* Mutant: only battles that are still running are looked at.
ExamineOpenBattle ==
    /\ At("battles")
    /\ \E b \in hk.work :
         IF BattleAge(b) = Open
         THEN hk' = [task |-> "delete battle", work |-> hk.work, battle |-> b]
         ELSE Goto("battles", hk.work \ {b})
    /\ UNCHANGED <<collections, bans, call>>

\* ... for each of them GetBattleExpiryInfo, which reads it again, ...
ExamineBattle ==
    /\ At("battles")
    /\ \E b \in hk.work :
         IF BattleAge(b) = Forgotten
         THEN hk' = [task |-> "delete battle", work |-> hk.work, battle |-> b]
         ELSE Goto("battles", hk.work \ {b})
    /\ UNCHANGED <<collections, bans, call>>

DeleteExpiredBattle ==
    /\ At("delete battle")
    /\ setlists' = [b \in DOMAIN setlists \ {hk.battle} |-> setlists[b]]
    /\ hk' = [hk EXCEPT !.task = "delete scores"]
    /\ UNCHANGED <<scores, inserted, lastSetlistID, bans, call>>

\* ... and a DeleteMany by setlist_id, a field score documents do not have.
DeleteExpiredBattleScores ==
    /\ At("delete scores")
    /\ DeleteMany({id \in DOMAIN scores :
                     "setlist_id" \in DOMAIN scores[id] /\ scores[id].setlist_id = hk.battle})
    /\ Goto("battles", hk.work \ {hk.battle})
    /\ UNCHANGED <<inserted, setlists, lastSetlistID, bans, call>>

\* Mutant: the test for a permanent ban is the wrong way round.
ReadTemporaryBans ==
    /\ At("battles")
    /\ hk.work = {}
    /\ Goto("banned", {})
    /\ UNCHANGED <<collections, bans, call>>

\* CleanupBannedUserScores: the bans in the config cache, one after the other.
ReadBans ==
    /\ At("battles")
    /\ hk.work = {}
    /\ Goto("banned", cachedBans)
    /\ UNCHANGED <<collections, bans, call>>

CleanupBannedUserScores ==
    /\ At("banned")
    /\ \E p \in hk.work :
         /\ DeleteMany({id \in DOMAIN scores : scores[id].pid = p})
         /\ Goto("banned", hk.work \ {p})
    /\ UNCHANGED <<inserted, setlists, lastSetlistID, bans, call>>

Sleep ==
    /\ At("banned")
    /\ hk.work = {}
    /\ hk' = Waiting
    /\ UNCHANGED <<collections, bans, call>>
------------------------------------------------------------------------------
Record(k) ==
    \/ \E band \in Bands :
         \/ \E song \in Songs : RecordSong(k, song, band)
         \/ \E b \in Battles : RecordBattle(k, b, band)
    \/ FindScore(k) \/ FindScoreFails(k) \/ UpdateScore(k) \/ UpsertMisses(k) \/ UpsertInserts(k)

Battle(k) ==
    \/ \E type \in {PlayerBattle, HarmonixBattle} : GetNextSetlistID(k, type)
    \/ InsertBattle(k)
    \/ \E b \in Battles : DeleteBattle(k, b)
    \/ DeleteBattleScores(k)

Administer ==
    \/ \E p \in Bannable : Ban(p) \/ Unban(p)
    \/ \E p \in Players : DeletePlayerScores(p)

Housekeeping ==
    \/ AggregateDuplicates \/ DeleteDuplicates \/ CleanupInvalidScores
    \/ FindBattles \/ ExamineBattle \/ DeleteExpiredBattle \/ DeleteExpiredBattleScores
    \/ ReadBans \/ CleanupBannedUserScores \/ Sleep

Next ==
    \/ \E k \in Calls : Record(k) \/ Battle(k)
    \/ \E b \in Battles : AgeBattle(b)
    \/ Administer
    \/ RefillConfigCache
    \/ Housekeeping

Spec == Init /\ [][Next]_vars

\* Time passes, the cache expires and the housekeeping goroutine runs; nothing
\* is assumed of the handlers.
FairSpec ==
    /\ Spec
    /\ \A b \in Battles : WF_vars(AgeBattle(b))
    /\ WF_vars(RefillConfigCache)
    /\ WF_vars(Housekeeping)
------------------------------------------------------------------------------
(* Properties.                                                             *)

CallRecords ==
    {Idle}
    \cup [op : {"find", "update", "overwrite", "insert"}, board : Boards, todo : Seq(Entry) \ {<<>>}]
    \cup [op : {"create"}, id : Battles, type : {PlayerBattle, HarmonixBattle}]
    \cup [op : {"delete scores"}, id : Battles]

HousekeepingStates ==
    [task : {"idle", "find battles"}, work : {{}}]
    \cup [task : {"duplicates"}, work : SUBSET SUBSET (1 .. MaxScores)]
    \cup [task : {"battles"}, work : SUBSET Battles]
    \cup [task : {"delete battle", "delete scores"}, work : SUBSET Battles, battle : Battles]
    \cup [task : {"banned"}, work : SUBSET Players]

\* No song score that the sanity checks of scores/record reject is ever stored.
TypeOK ==
    /\ inserted \in 0 .. MaxScores
    /\ DOMAIN scores \subseteq 1 .. inserted
    /\ \A id \in DOMAIN scores : scores[id] \in Score
    /\ lastSetlistID \in 0 .. MaxBattles
    /\ DOMAIN setlists \subseteq 1 .. lastSetlistID
    /\ \A b \in DOMAIN setlists :
         setlists[b] \in [type : {PlayerBattle, HarmonixBattle}, age : {Open, Closed, Forgotten}]
    /\ banned \subseteq Bannable
    /\ cachedBans \subseteq Bannable
    /\ call \in [Calls -> CallRecords]
    /\ hk \in HousekeepingStates

\* "Only update if the new score is higher" (record.go:167): where a console waits
\* for the answer before it records another score of the player on the board, what is
\* stored for a player gets lower only in a call whose FindOne has failed; other
\* players, battles that end or are deleted, and housekeeping do not lower it.
HigherOnlyInTurn ==
    [][\A id \in DOMAIN scores \cap DOMAIN scores' :
         scores[id].board \notin Racing =>
           \/ scores'[id].score >= scores[id].score
           \/ \E k \in Calls : call[k].op = "overwrite" /\ call'[k] # call[k]]_vars

\* A player who has a score on a song keeps one, although documents are inserted
\* twice and deleted as duplicates on the word of an earlier aggregation, unless
\* the player's scores are deleted by an administrator or for a ban.
SongScoreKept ==
    [][\A p \in Players, song \in Songs :
         Matching(p, song) # {} /\ Matching(p, song)' = {}
            => \A id \in DOMAIN scores' : scores'[id].pid # p]_vars

\* A score is deleted as a duplicate only while the player keeps a score on the same
\* board: "doesn't remove non-duplicate scores"
\* (housekeeping_test.go:104).
OnlyDuplicatesRemoved ==
    [][At("duplicates") /\ hk.work # {} /\ hk' # hk
         => \A id \in DOMAIN scores \ DOMAIN scores' : \E kept \in DOMAIN scores' :
              /\ scores'[kept].pid = scores[id].pid
              /\ scores'[kept].board = scores[id].board]_vars

\* The setlist ID of a battle about to be inserted is not in use, by a battle or by
\* scores that a deleted battle has left behind, and nobody else is about to use it.
BattleIDsAreNew ==
    \A k \in Calls : call[k].op = "create" =>
        /\ call[k].id \notin DOMAIN setlists
        /\ \A id \in DOMAIN scores : scores[id].board # call[k].id
        /\ \A other \in Calls \ {k} : call[other].op = "create" => call[other].id # call[k].id

\* "delete all scores associated with this setlist" (housekeeping_tasks.go:160).
ExpiredBattleScoresDeleted ==
    [][At("delete scores") /\ ~At("delete scores")'
         => \A id \in DOMAIN scores' : scores'[id].board # hk.battle]_vars

\* Every battle is deleted in the end, whatever else housekeeping has to do and
\* whoever deletes it first.
BattlesAreDeleted == \A b \in Battles : b \in DOMAIN setlists ~> b \notin DOMAIN setlists

\* A player who stays banned for good does not stay on the leaderboards: again and
\* again the player has no scores, although the ban is read from a cache and the
\* player may go on recording.
BannedScoresRemoved ==
    \A p \in Players :
        []<>(p \in banned => \A id \in DOMAIN scores : scores[id].pid # p)
==============================================================================
