---------------------------- MODULE Accomplishments ----------------------------
(***************************************************************************)
(* The accomplishments: one document with an array for every goal, each    *)
(* with one entry for every player.  accomplishment/record reads the       *)
(* document, changes all arrays in memory and writes them back; so does    *)
(* the housekeeping task that removes the entries of banned players, which *)
(* goes by the cached list of bans.                                        *)
(*                                                                         *)
(* A read and a write are one MongoDB call each and an action each: other  *)
(* handlers run in between.  A console waits for the answer to one call    *)
(* before it makes another.                                                *)
(***************************************************************************)
EXTENDS Integers, Sequences, FiniteSets

CONSTANTS
    Consoles,
    Players,     \* PIDs
    Valid,       \* Valid[c]: the PIDs that the client store has for console c
    Goals,       \* the arrays of the document, 32 in the code
    Metascore,   \* the one in which record looks for the player
    Requests,    \* what a console may send: a score for every goal
    Bannable,    \* the bans an administrator may make
    MaxFailures  \* bound: reads that fail in a behaviour

ASSUME AccomplishmentsAssumption ==
    /\ Valid \in [Consoles -> SUBSET Players]
    /\ Metascore \in Goals
    /\ Requests \subseteq [Goals -> Nat]
    /\ Bannable \subseteq [who : Players, permanent : BOOLEAN]
    /\ MaxFailures \in Nat

VARIABLES
    board,       \* the arrays of the document
    exists,      \* whether there is a document
    bans,        \* config.banned_players
    cachedBans,  \* the same, as of the last time the config cache was filled
    call,        \* call[c]: what the handler of c's call does next
    hk,          \* what CleanupBannedUserAccomplishments does next
    failures     \* history: reads that have failed

vars == <<board, exists, bans, cachedBans, call, hk, failures>>

\* models.AccomplishmentScoreEntry, models.Accomplishments
Entry == [pid : Players, score : Nat]
Board == [Goals -> Seq(Entry)]
NoEntries == [goal \in Goals |-> <<>>]

Idle == [op |-> "idle"]
Continue(c, next) == call' = [call EXCEPT ![c] = next]
------------------------------------------------------------------------------
Init ==
    /\ board = NoEntries
    /\ exists = FALSE
    /\ bans = {}
    /\ cachedBans = {}
    /\ call = [c \in Consoles |-> Idle]
    /\ hk = Idle
    /\ failures = 0
------------------------------------------------------------------------------
(* accomplishment/record.                                                  *)

\* FindOne: no document is decoded as one without entries.
RecordFind(c, pid, request) ==
    /\ call[c] = Idle
    /\ pid \in Valid[c]
    /\ Continue(c, [op |-> "update", pid |-> pid, request |-> request, read |-> board])
    /\ UNCHANGED <<board, exists, bans, cachedBans, hk, failures>>

\* A call that fails looks the same, since the error is not examined.
RecordFindFails(c, pid, request) ==
    /\ call[c] = Idle
    /\ pid \in Valid[c]
    /\ failures < MaxFailures
    /\ failures' = failures + 1
    /\ Continue(c, [op |-> "update", pid |-> pid, request |-> request, read |-> NoEntries])
    /\ UNCHANGED <<board, exists, bans, cachedBans, hk>>

Positions(read, pid) == {i \in DOMAIN read[Metascore] : read[Metascore][i].pid = pid}

\* The player's entry is the one at the index it has among the metascores, in
\* every array.
Recorded(read, pid, request) ==
    IF Positions(read, pid) = {}
    THEN [goal \in Goals |-> Append(read[goal], [pid |-> pid, score |-> request[goal]])]
    ELSE LET idx == CHOOSE i \in Positions(read, pid) : \A j \in Positions(read, pid) : i <= j IN
         [goal \in Goals |-> [read[goal] EXCEPT ![idx].score = request[goal]]]

\* UpdateOne with upsert
RecordUpdate(c) ==
    /\ call[c].op = "update"
    /\ board' = Recorded(call[c].read, call[c].pid, call[c].request)
    /\ exists' = TRUE
    /\ Continue(c, Idle)
    /\ UNCHANGED <<bans, cachedBans, hk, failures>>
------------------------------------------------------------------------------
(* The administrator, and the config cache.                                *)

Ban(ban) ==
    /\ bans' = bans \cup {ban}
    /\ UNCHANGED <<board, exists, cachedBans, call, hk, failures>>

Unban(ban) ==
    /\ bans' = bans \ {ban}
    /\ UNCHANGED <<board, exists, cachedBans, call, hk, failures>>

RefillConfigCache ==
    /\ cachedBans' = bans
    /\ UNCHANGED <<board, exists, bans, call, hk, failures>>
------------------------------------------------------------------------------
(* CleanupBannedUserAccomplishments.                                       *)

\* Mutant: every ban counts.
BannedPIDsOfAllBans == {ban.who : ban \in cachedBans}

BannedPIDs == {ban.who : ban \in {b \in cachedBans : b.permanent}}

CleanupBans ==
    /\ hk = Idle
    /\ BannedPIDs # {}
    /\ hk' = [op |-> "find", pids |-> BannedPIDs]
    /\ UNCHANGED <<board, exists, bans, cachedBans, call, failures>>

CleanupFind ==
    /\ hk.op = "find"
    /\ hk' = IF exists THEN [op |-> "update", pids |-> hk.pids, read |-> board] ELSE Idle
    /\ UNCHANGED <<board, exists, bans, cachedBans, call, failures>>

\* filterEntries appends what is to be kept, entry by entry; FilteredUpTo is what it
\* has got after each.
FilteredUpTo(entries, pids) ==
    LET filtered[n \in 0 .. Len(entries)] ==
            IF n = 0 THEN <<>>
            ELSE IF entries[n].pid \in pids THEN filtered[n - 1]
            ELSE Append(filtered[n - 1], entries[n])
    IN filtered

filterEntries(entries, pids) == FilteredUpTo(entries, pids)[Len(entries)]

\* Mutant: one array is forgotten.
FilteredMetascore(read, pids) == [read EXCEPT ![Metascore] = filterEntries(@, pids)]

\* Mutant: the document is replaced by one of the metascores alone.
FilteredAlone(read, pids) == [goal \in {Metascore} |-> filterEntries(read[goal], pids)]

\* Mutant: nothing is filtered out.
FilteredNone(read, pids) == read

Filtered(read, pids) == [goal \in Goals |-> filterEntries(read[goal], pids)]

CleanupUpdate ==
    /\ hk.op = "update"
    /\ board' = Filtered(hk.read, hk.pids)
    /\ hk' = Idle
    /\ UNCHANGED <<exists, bans, cachedBans, call, failures>>
------------------------------------------------------------------------------
Record(c) ==
    \/ \E pid \in Players, request \in Requests :
        RecordFind(c, pid, request) \/ RecordFindFails(c, pid, request)
    \/ RecordUpdate(c)

Housekeeping == CleanupBans \/ CleanupFind \/ CleanupUpdate

Next ==
    \/ \E c \in Consoles : Record(c)
    \/ \E ban \in Bannable : Ban(ban) \/ Unban(ban)
    \/ RefillConfigCache
    \/ Housekeeping

Spec == Init /\ [][Next]_vars

\* The ticker of housekeeping fires, and its tasks ask for the config.
FairSpec == Spec /\ WF_vars(RefillConfigCache) /\ WF_vars(Housekeeping)
------------------------------------------------------------------------------
(* Properties.                                                             *)

Updates == [op : {"update"}, pid : Players, request : Requests, read : Board]

TypeOK ==
    /\ board \in Board
    /\ exists \in BOOLEAN
    /\ bans \in SUBSET Bannable
    /\ cachedBans \in SUBSET Bannable
    /\ call \in [Consoles -> {Idle} \cup Updates]
    /\ hk \in {Idle} \cup [op : {"find"}, pids : SUBSET Players]
              \cup [op : {"update"}, pids : SUBSET Players, read : Board]
    /\ failures \in 0 .. MaxFailures

PIDsOf(array) == [i \in DOMAIN array |-> array[i].pid]

\* record.go:87 finds the player among the metascores and changes the entry at that
\* index in all 32 arrays, without comparing PIDs or lengths again: the arrays have
\* the same players, each once, in the same order, whoever has appended, filtered or
\* written back an old copy.
ArraysAgree ==
    \A goal \in Goals :
        /\ PIDsOf(board[goal]) = PIDsOf(board[Metascore])
        /\ \A i, j \in DOMAIN board[goal] : board[goal][i].pid = board[goal][j].pid => i = j

Permanent(pid) == [who |-> pid, permanent |-> TRUE]

Of(array, pid) == {array[i] : i \in {j \in DOMAIN array : array[j].pid = pid}}

\* A player's scores change only by a call of a console that has the player, or when
\* a player who can be banned for good is (housekeeping_tasks.go:228): unless the copy
\* that is written back was overtaken by another write (housekeeping_tasks.go:343), or
\* was never read, the error being dropped (record.go:85).
OthersKept ==
    [][\A pid \in Players, goal \in Goals :
         Of(board[goal], pid) # Of(board'[goal], pid) =>
            \/ \E c \in Consoles :
                /\ call[c].op = "update" /\ call'[c] = Idle
                /\ call[c].pid = pid \/ call[c].read # board
            \/ /\ hk.op = "update" /\ hk' = Idle
               /\ (pid \in hk.pids /\ Permanent(pid) \in Bannable) \/ hk.read # board]_vars

\* "Collect PIDs of permanently banned players" (housekeeping_tasks.go:225): through
\* the cache, and although a console may write back a copy that still has them, the
\* entries of a player who stays banned are removed again and again.
BannedAreRemoved ==
    \A pid \in Players :
        []<>(Permanent(pid) \notin bans \/ \A goal \in Goals : Of(board[goal], pid) = {})
==============================================================================
