-------------------------------- MODULE Config --------------------------------
(***************************************************************************)
(* The config document, which holds the ID counters and the list of bans,  *)
(* the process's cache of it, and who uses them: GetNextPID and its        *)
(* siblings, the REST calls that ban and unban a player, Login and the     *)
(* other checks for a ban.                                                 *)
(*                                                                         *)
(* Each MongoDB call and each critical section of configCacheMu is one     *)
(* action.  Of the counters one is kept, of the document the list of bans: *)
(* nothing reads a counter from the cache.  Time is not a number here: the *)
(* cache grows older until it is not valid any more, and the time of a     *)
(* temporary ban comes.                                                    *)
(***************************************************************************)
EXTENDS Integers, FiniteSets

CONSTANTS
    Players,  \* usernames
    Calls,    \* goroutines that handle RMC or REST calls
    Keeper,   \* one more: the housekeeping goroutine, which only reads
    TTL,      \* the age at which the cache is not valid any more
    MaxIDs,   \* bound: IDs handed out in a behaviour
    MaxBans   \* bound: bans pronounced in a behaviour

ASSUME ConfigAssumption ==
    /\ Keeper \in Calls
    /\ TTL \in Nat \ {0}
    /\ MaxIDs \in Nat
    /\ MaxBans \in Nat

VARIABLES
    lastID,  \* config.last_pid
    bans,    \* config.banned_players
    banned,  \* history: how many bans were pronounced
    elapsed, \* the bans whose original ExpiresAt is in the past
    handed,  \* history: the IDs handlers have received
    cache,   \* configCache and configCacheExpiry
    call     \* call[k]: what the handler run by goroutine k does next

document == <<lastID, bans>>
history == <<banned, handed>>
vars == <<document, history, elapsed, cache, call>>

IDs == 1 .. MaxIDs

\* A ban, numbered by CreatedAt; it expires at its time, never, or in the past
\* because it was lifted.
BanRecord == [player : Players, number : 1 .. MaxBans, until : {"time", "never", "past"}]

NoCache == [bans |-> {}, age |-> TTL]

Idle == [op |-> "idle"]
------------------------------------------------------------------------------
(* What a list of bans says.                                               *)

\* ban.ExpiresAt.IsZero() || time.Now().Before(ban.ExpiresAt)
Active(ban) == ban.until = "never" \/ (ban.until = "time" /\ ban.number \notin elapsed)

BansOf(p, list) == {ban \in list : ban.player = p}

Latest(list) == {ban \in list : \A other \in list : other.number <= ban.number}

\* Login: "check if the latest one is still active".
LoginAllows(p, list) == \A ban \in Latest(BansOf(p, list)) : ~Active(ban)

\* IsUsernameBanned and IsPIDBanned: any ban that is active.
IsBanned(p, list) == \E ban \in BansOf(p, list) : Active(ban)

Continue(k, next) == call' = [call EXCEPT ![k] = next]
Return(k) == Continue(k, Idle)
------------------------------------------------------------------------------
Init ==
    /\ lastID = 0
    /\ bans = {}
    /\ banned = 0
    /\ elapsed = {}
    /\ handed = {}
    /\ cache = NoCache
    /\ call = [k \in Calls |-> Idle]

(* getNextCounter: FindOneAndUpdate, then InvalidateConfigCache.           *)

\* Mutant: the counter is read, and incremented when it is written back.
ReadCounter(k) ==
    /\ k # Keeper
    /\ call[k] = Idle
    /\ lastID < MaxIDs
    /\ Continue(k, [op |-> "invalidate", id |-> lastID + 1])
    /\ UNCHANGED <<document, history, elapsed, cache>>

IncrementCounter(k) ==
    /\ k # Keeper
    /\ call[k] = Idle
    /\ lastID < MaxIDs
    /\ lastID' = lastID + 1
    /\ Continue(k, [op |-> "invalidate", id |-> lastID'])
    /\ UNCHANGED <<bans, history, elapsed, cache>>

\* "Invalidate the cache since the counter has changed"
InvalidateConfigCache(k) ==
    /\ call[k].op = "invalidate"
    /\ cache' = NoCache
    /\ handed' = handed \cup {call[k].id}
    /\ Return(k)
    /\ UNCHANGED <<document, banned, elapsed>>

(* GetCachedConfig, and what its callers do with the answer.               *)

Valid == cache.age < TTL

\* Login, the other checks for a ban and housekeeping read the list this way, so it
\* is to cache.bans that Login applies LoginAllows.

\* Mutant: a hit renews the cache's lease.
HitRenews(k) ==
    /\ call[k] = Idle
    /\ Valid
    /\ cache' = [cache EXCEPT !.age = 0]
    /\ UNCHANGED <<document, history, elapsed, call>>

\* if configCache != nil && time.Now().Before(configCacheExpiry)
Hit(k) ==
    /\ call[k] = Idle
    /\ Valid
    /\ UNCHANGED vars

\* The document is read without the lock, ...
Miss(k) ==
    /\ call[k] = Idle
    /\ ~Valid
    /\ Continue(k, [op |-> "fill", bans |-> bans])
    /\ UNCHANGED <<document, history, elapsed, cache>>

\* ... and stored with a new lease, whatever has happened since.
Fill(k) ==
    /\ call[k].op = "fill"
    /\ cache' = [bans |-> call[k].bans, age |-> 0]
    /\ Return(k)
    /\ UNCHANGED <<document, history, elapsed>>

(* The REST calls on the list of bans.                                     *)

\* BanPlayerHandler: one $push, without InvalidateConfigCache.
BanPlayer(k, p, until) ==
    /\ k # Keeper
    /\ call[k] = Idle
    /\ banned < MaxBans
    /\ banned' = banned + 1
    /\ bans' = bans \cup {[player |-> p, number |-> banned', until |-> until]}
    /\ UNCHANGED <<lastID, handed, elapsed, cache, call>>

\* Mutant: the first active ban found is taken for the most recent one.
EarliestActive(p, list) ==
    LET active == {ban \in BansOf(p, list) : Active(ban)} IN
    {ban \in active : \A other \in active : ban.number <= other.number}

\* "find the most recent active ban for this user"
LatestActive(p, list) == Latest({ban \in BansOf(p, list) : Active(ban)})

\* Mutant: the lifted ban is appended and the one in force stays.
WithLiftedAppended(lifted, list) ==
    list \cup {[ban EXCEPT !.until = "past"] : ban \in lifted}

\* "expire the ban by setting its expiration to the current time"
WithLifted(lifted, list) ==
    (list \ lifted) \cup {[ban EXCEPT !.until = "past"] : ban \in lifted}

\* UnbanPlayerHandler: the document is read, not from the cache, and the list
\* to write is prepared.
UnbanRead(k, p) ==
    /\ k # Keeper
    /\ call[k] = Idle
    /\ IsBanned(p, bans)
    /\ Continue(k, [op |-> "unban", player |-> p, lastID |-> lastID,
                    bans |-> WithLifted(LatestActive(p, bans), bans)])
    /\ UNCHANGED <<document, history, elapsed, cache>>

\* Mutant: the document is replaced by the one that was read.
UnbanReplace(k) ==
    /\ call[k].op = "unban"
    /\ bans' = call[k].bans
    /\ lastID' = call[k].lastID
    /\ Return(k)
    /\ UNCHANGED <<history, elapsed, cache>>

\* $set of the whole banned_players array, and of nothing else.
UnbanWrite(k) ==
    /\ call[k].op = "unban"
    /\ bans' = call[k].bans
    /\ Return(k)
    /\ UNCHANGED <<lastID, history, elapsed, cache>>

(* Time.                                                                   *)

GrowOlder ==
    /\ Valid
    /\ cache' = [cache EXCEPT !.age = @ + 1]
    /\ UNCHANGED <<document, history, elapsed, call>>

BanExpires(number) ==
    /\ number <= banned
    /\ elapsed' = elapsed \cup {number}
    /\ UNCHANGED <<document, history, cache, call>>
------------------------------------------------------------------------------
Next ==
    \/ \E k \in Calls :
        \/ IncrementCounter(k) \/ InvalidateConfigCache(k)
        \/ Hit(k) \/ Miss(k) \/ Fill(k)
        \/ \E p \in Players :
            \/ \E until \in {"time", "never"} : BanPlayer(k, p, until)
            \/ UnbanRead(k, p)
        \/ UnbanWrite(k)
    \/ GrowOlder
    \/ \E number \in 1 .. MaxBans : BanExpires(number)

Spec == Init /\ [][Next]_vars

\* Housekeeping looks up the bans every minute, and a reading that has begun is
\* finished.
FairSpec ==
    /\ Spec
    /\ WF_vars(GrowOlder)
    /\ WF_vars(Miss(Keeper))
    /\ \A k \in Calls : WF_vars(Fill(k))
------------------------------------------------------------------------------
(* Properties.                                                             *)

CallRecords ==
    {Idle}
    \cup [op : {"invalidate"}, id : IDs]
    \cup [op : {"fill"}, bans : SUBSET BanRecord]
    \cup [op : {"unban"}, player : Players, bans : SUBSET BanRecord, lastID : 0 .. MaxIDs]

TypeOK ==
    /\ lastID \in 0 .. MaxIDs
    /\ bans \in SUBSET BanRecord
    /\ \A ban, other \in bans : ban.number = other.number => ban = other
    /\ banned \in 0 .. MaxBans
    /\ elapsed \in SUBSET (1 .. banned)
    /\ handed \in SUBSET IDs
    /\ cache \in [bans : SUBSET BanRecord, age : 0 .. TTL]
    /\ call \in [Calls -> CallRecords]

\* "atomically increments a counter field and returns the new value"
\* (utils.go:112): no ID is given to two handlers, although an unban rewrites a
\* part of the same document with what it read before.
UniqueIDs ==
    \A k \in Calls : call[k].op = "invalidate" =>
        /\ call[k].id \notin handed
        /\ \A other \in Calls \ {k} : call[other].op = "invalidate" => call[other].id # call[k].id

\* A ban is lifted by a handler that looks for the most recent active one
\* (restapi.go:858), and a login looks at the most recent one only (login.go:168): the
\* two agree, so the list that is written passes Login's check, and no second ban is
\* left in it that would keep the player out.  This is about the list: Login judges
\* the cached copy (login.go:146), which an unban does not invalidate, and goes on
\* refusing the player until UnbanIsNoticed.
UnbanLetsIn ==
    [][\A k \in Calls : call[k].op = "unban" /\ call'[k] = Idle
         => LoginAllows(call[k].player, bans')]_vars

\* A player who may log in by the document comes to be let in: unless he is banned
\* again, or his unban is overwritten, the cache that Login asks comes to hold a list
\* that allows him, for all the hits, stale fills and the missing invalidation.
UnbanIsNoticed ==
    \A p \in Players :
        LoginAllows(p, bans) ~> (~LoginAllows(p, bans) \/ (Valid /\ LoginAllows(p, cache.bans)))

\* A permanent ban is noticed in the end: unless it is lifted or lost, the checks
\* come to be made on a list that has it, for all the hits of the cache, stale
\* fills and bans without invalidation in between.
BanIsNoticed ==
    \A p \in Players, number \in 1 .. MaxBans :
        LET ban == [player |-> p, number |-> number, until |-> "never"] IN
        ban \in bans ~> (ban \notin bans \/ (Valid /\ ban \in cache.bans))

\* "expiring their most recent ban, preserving the record" (restapi.go:836): no ban
\* that was pronounced disappears from the list.
BanRecordsPreserved ==
    [][\A ban \in bans : \E kept \in bans' : kept.number = ban.number]_vars
==============================================================================
