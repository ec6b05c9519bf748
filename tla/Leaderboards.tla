------------------------------ MODULE Leaderboards ------------------------------
(***************************************************************************)
(* The leaderboards and the ticker: pages, ranges and ranks, computed from *)
(* the scores at every request, by handlers that read the database several *)
(* times and look up the players of a console type, and the ranks of the   *)
(* ticker, in caches.                                                      *)
(*                                                                         *)
(* A MongoDB call, or a critical section of a cache, is an action.  A      *)
(* board is the scores of a song in one role, of a battle, the entries of  *)
(* an accomplishment goal, or a total over songs.  MongoDB and sort.Slice  *)
(* order equal scores as they like: Rankings has all such orders.          *)
(***************************************************************************)
EXTENDS Integers, FiniteSets, FiniteSetsExt, Functions

CONSTANTS
    Consoles,
    Players,      \* PIDs
    Valid,        \* Valid[c]: the PIDs that the client store has for console c
    Songs,        \* songs, in the one role that is asked for
    RB3Songs,     \* those with the song IDs 1001 to 1106
    Battles,
    Goals,
    Served,       \* the goals that getAccomplishmentField has a case for
    Types,        \* console types
    NoType,       \* of a player that has no account yet
    MaxPoints,    \* bound: the highest score
    Window,       \* rows of a page of scores, 19 in the code
    AccWindow,    \* rows of a page of an accomplishment, 20 in the code
    Requests,     \* what the consoles ask for
    InitialScores,
    InitialTypes,
    Recordings,   \* the scores that may come in
    Friendships,  \* <<p, q>>: player p may name q as a friend
    TypeChanges,  \* <<p, t>>: player p may log in on a console of type t
    MaxChanges    \* bound: changes of scores and console types in a behaviour

NoScore == -1   \* no document, which is not the score 0
ScoreBoards == Songs \cup Battles \cup Goals
Totals == {"total", "rb3"}
TickerKeys == {"global", "role"}
CacheKeys == Types \cup TickerKeys
Points == [Players -> (0 .. MaxPoints) \cup {NoScore}]
Asks ==
    [who : Players,
     board : Songs \cup Battles \cup Totals \cup {"ticker"},
     mode : {"all", "friends"} \cup Types]

ASSUME LeaderboardsAssumption ==
    /\ IsFiniteSet(Players) /\ IsFiniteSet(Songs)
    /\ Valid \in [Consoles -> SUBSET Players]
    /\ RB3Songs \subseteq Songs
    /\ Served \subseteq Goals
    /\ NoType \notin Types
    /\ ScoreBoards \cap (Totals \cup TickerKeys) = {}
    /\ MaxPoints \in Nat /\ MaxChanges \in Nat
    /\ Window \in Nat \ {0} /\ AccWindow \in Nat \ {0}
    /\ Requests \subseteq Asks
    /\ InitialScores \subseteq [ScoreBoards -> Points]
    /\ InitialTypes \in [Players -> Types \cup {NoType}]
    /\ Recordings \subseteq [board : ScoreBoards, who : Players, points : 0 .. MaxPoints]
    /\ Friendships \subseteq Players \X Players
    /\ TypeChanges \subseteq Players \X Types

VARIABLES
    score,    \* score[b][p]: the scores collection and the accomplishments
    console,  \* console[p]: users.console_type
    friends,  \* friends[p]: users.friends
    cache,    \* a map with the entries of the caches that have not expired
    call,     \* call[c]: what the handler of c's call does next
    session,  \* session[p]: what the login or RegisterEx of p does next
    changes   \* history: changes made so far

vars == <<score, console, friends, cache, call, session, changes>>
database == <<score, console, friends, changes>>

Idle == [op |-> "idle"]
Continue(c, next) == call' = [call EXCEPT ![c] = next]
------------------------------------------------------------------------------
(* Boards.                                                                 *)

\* The pipelines with $group and $sum.
Total(boards) ==
    [p \in Players |->
        LET scored == {b \in boards : score[b][p] # NoScore}
            Of(b) == score[b][p]
        IN IF scored = {} THEN NoScore ELSE MapThenSumSet(Of, scored)]

\* A battle's scores have no song and no role; the rank over everything counts
\* them all the same.
PointsOn(board) ==
    CASE board \in {"total", "role"} -> Total(Songs)
      [] board = "rb3" -> Total(RB3Songs)
      [] board = "global" -> Total(Songs \cup Battles)
      [] OTHER -> score[board]

Scorers(points, among) == {p \in among : points[p] # NoScore}
Higher(points, among, than) == {p \in among : points[p] > than}
NumHigher(points, among, than) == Cardinality(Higher(points, among, than))

\* Sort by the score, highest first.
Rankings(points, among) ==
    LET S == Scorers(points, among) IN
    {r \in Injection(1 .. Cardinality(S), S) :
        \A i, j \in DOMAIN r : i < j => points[r[i]] >= points[r[j]]}

\* Skip and Limit: the rows by their rank.
Rows(ranking, skip, limit) ==
    Restrict(ranking, {i \in DOMAIN ranking : skip < i /\ i <= skip + limit})

\* Mutant: the page of the rank, which is counted from one.
PageStartOfRank(n) == (n + 1) - ((n + 1) % Window)

PageStart(n) == n - (n % Window)
Page(ranking, n) == Rows(ranking, PageStart(n), Window)

\* The index in the sorted slice, 0 when the player is not in it.
IndexOf(ranking, p) ==
    IF p \in Range(ranking) THEN (CHOOSE i \in DOMAIN ranking : ranking[i] = p) - 1 ELSE 0
------------------------------------------------------------------------------
(* Requests that are answered from one read.                               *)

\* leaderboards/maxrank and battle_maxrank
MaxRank(board) == Cardinality(Scorers(PointsOn(board), Players))

\* Mutant: the range without its last row.
RankRangeExclusive(ranking, first, last) == Rows(ranking, first - 1, last - first)

\* leaderboards/rankrange and battle_rankrange
RankRange(ranking, first, last) == Rows(ranking, first - 1, last - first + 1)

\* leaderboards/playerranks, for a song: mine is the score that an earlier read of
\* the same request found, 0 when it found none.
PlayerRank(song, mine) == NumHigher(PointsOn(song), Players, mine) + 1

\* GET /leaderboards and /battles/leaderboard
RestPage(ranking, page, size) == Rows(ranking, (page - 1) * size, size)

\* A goal that has no case has no entries for the requests, whoever met it.
AccomplishmentField(goal) ==
    IF goal \in Served THEN score[goal] ELSE [p \in Players |-> NoScore]

\* leaderboards/acc_player and acc_rankrange, over the sorted entries of the field
AccPage(ranking, p) == Rows(ranking, (IndexOf(ranking, p) \div AccWindow) * AccWindow, AccWindow)

AccRange(ranking, first, last) ==
    LET start == IF first - 1 < 0 THEN 0 ELSE first - 1 IN Rows(ranking, start, last - start)
------------------------------------------------------------------------------
Init ==
    /\ score \in InitialScores
    /\ console = InitialTypes
    /\ friends = [p \in Players |-> {}]
    /\ cache = <<>>
    /\ call = [c \in Consoles |-> Idle]
    /\ session = [p \in Players |-> Idle]
    /\ changes = 0
------------------------------------------------------------------------------
(* The caches: GetPIDsByConsoleType, getCachedGlobalRank, getCachedRoleRank.*)

\* What a find may return: the set of PIDs as the map to 1, or the ranks.
Computed(key) ==
    IF key \in Types
    THEN {[p \in {q \in Players : console[q] = key} |-> 1]}
    ELSE {AntiFunction(r) : r \in Rankings(PointsOn(key), Players)}

\* Which cache a call looks in.
KeyOf(a) == IF a.op \in TickerKeys THEN a.op ELSE a.ask.mode
LooksUp(a) == a.op \in {"list", "again"} \cup TickerKeys

\* What a handler does with what it got.
Checked(a, op) == [a EXCEPT !.op = op, !.stage = "check"]
With(a, got) ==
    CASE a.op = "list" ->
            [Checked(a, IF a.ask.board \in Totals THEN "aggregate" ELSE "score")
                EXCEPT !.base = DOMAIN got]
      [] a.op = "again" -> [Checked(a, "count") EXCEPT !.counted = DOMAIN got]
      [] a.op = "global" -> Checked(a, "role")
      [] a.op = "role" -> Checked(a, "answer")

LookupHit(c) ==
    /\ LooksUp(call[c]) /\ call[c].stage = "check"
    /\ KeyOf(call[c]) \in DOMAIN cache
    /\ Continue(c, With(call[c], cache[KeyOf(call[c])]))
    /\ UNCHANGED <<database, cache, session>>

LookupMiss(c) ==
    /\ LooksUp(call[c]) /\ call[c].stage = "check"
    /\ KeyOf(call[c]) \notin DOMAIN cache
    /\ Continue(c, [call[c] EXCEPT !.stage = "find"])
    /\ UNCHANGED <<database, cache, session>>

LookupFind(c) ==
    /\ LooksUp(call[c]) /\ call[c].stage = "find"
    /\ \E got \in Computed(KeyOf(call[c])) :
          Continue(c, [call[c] EXCEPT !.stage = "fill", !.got = got])
    /\ UNCHANGED <<database, cache, session>>

Stored(key, got) == [k \in DOMAIN cache \cup {key} |-> IF k = key THEN got ELSE cache[k]]

\* The map that was found, stale or not, replaces what is there.
LookupFill(c) ==
    /\ LooksUp(call[c]) /\ call[c].stage = "fill"
    /\ cache' = Stored(KeyOf(call[c]), call[c].got)
    /\ Continue(c, With([call[c] EXCEPT !.got = <<>>], call[c].got))
    /\ UNCHANGED <<database, session>>

\* Mutant: the expiry of a console type is set and never looked at.
ExpireRanks(key) ==
    /\ key \in DOMAIN cache \cap TickerKeys
    /\ cache' = Restrict(cache, DOMAIN cache \ {key})
    /\ UNCHANGED <<database, call, session>>

\* Five minutes after it was filled.
Expire(key) ==
    /\ key \in DOMAIN cache
    /\ cache' = Restrict(cache, DOMAIN cache \ {key})
    /\ UNCHANGED <<database, call, session>>
------------------------------------------------------------------------------
(* leaderboards/player, battle_player and ticker/info.                     *)

NewCall(ask, op) ==
    [op |-> op, stage |-> "check", ask |-> ask, base |-> Players, counted |-> Players,
     got |-> <<>>, mine |-> 0, higher |-> 0, rows |-> <<>>]

TickerInfo(c, ask) ==
    /\ call[c] = Idle
    /\ ask.who \in Valid[c]
    /\ ask.board = "ticker"
    /\ Continue(c, NewCall(ask, "global"))
    /\ UNCHANGED <<database, cache, session>>

\* GetFriendsForPID has the player among its own friends.
PlayerGet(c, ask) ==
    LET shown == friends[ask.who] \cup {ask.who}
        next == IF ask.board \in Totals THEN "aggregate" ELSE "score"
    IN
    /\ call[c] = Idle
    /\ ask.who \in Valid[c]
    /\ ask.board # "ticker"
    /\ \/ ask.mode \in Types /\ Continue(c, NewCall(ask, "list"))
       \/ /\ ask.mode = "friends"
          /\ Continue(c, [NewCall(ask, next) EXCEPT !.base = shown, !.counted = shown])
       \/ ask.mode = "all" /\ Continue(c, NewCall(ask, next))
    /\ UNCHANGED <<database, cache, session>>

\* The whole pipeline is sorted, and the page cut out of it.  An empty list is
\* no filter.
Aggregate(c) ==
    LET a == call[c]
        among == IF a.base = {} THEN Players ELSE a.base
    IN
    /\ a.op = "aggregate"
    /\ \E r \in Rankings(PointsOn(a.ask.board), among) :
          Continue(c, [a EXCEPT !.op = "answer", !.rows = Page(r, IndexOf(r, a.ask.who))])
    /\ UNCHANGED <<database, cache, session>>

\* What comes after the player's score: the filter is made again.
CountNext(a) == IF a.ask.mode \in Types THEN "again" ELSE "count"

PlayerScore(c) ==
    LET a == call[c]
        mine == PointsOn(a.ask.board)[a.ask.who]
    IN
    /\ a.op = "score"
    /\ Continue(c, IF mine = NoScore
                   THEN [a EXCEPT !.op = "fallback"]
                   ELSE [a EXCEPT !.op = CountNext(a), !.mine = mine])
    /\ UNCHANGED <<database, cache, session>>

TopScore(points, among) == Max({points[p] : p \in Scorers(points, among)} \cup {0})

\* A player with no score is shown the page of the highest score.
Fallback(c) ==
    LET a == call[c] IN
    /\ a.op = "fallback"
    /\ Continue(c, [a EXCEPT !.op = CountNext(a), !.mine = TopScore(PointsOn(a.ask.board), a.base)])
    /\ UNCHANGED <<database, cache, session>>

Count(c) ==
    LET a == call[c] IN
    /\ a.op = "count"
    /\ Continue(c, [a EXCEPT !.op = "page",
                             !.higher = NumHigher(PointsOn(a.ask.board), a.counted, a.mine)])
    /\ UNCHANGED <<database, cache, session>>

FindPage(c) ==
    LET a == call[c] IN
    /\ a.op = "page"
    /\ \E r \in Rankings(PointsOn(a.ask.board), a.base) :
          Continue(c, [a EXCEPT !.op = "answer", !.rows = Page(r, a.higher)])
    /\ UNCHANGED <<database, cache, session>>

Answer(c) ==
    /\ call[c].op = "answer"
    /\ Continue(c, Idle)
    /\ UNCHANGED <<database, cache, session>>
------------------------------------------------------------------------------
(* What changes meanwhile.                                                 *)

Change == changes < MaxChanges /\ changes' = changes + 1

\* scores/record and battles_record raise a score; accomplishment/record sets it.
Record(r) ==
    /\ r.board \in Goals \/ r.points > score[r.board][r.who]
    /\ Change
    /\ score' = [score EXCEPT ![r.board][r.who] = r.points]
    /\ UNCHANGED <<console, friends, cache, call, session>>

\* An administrator deletes a battle, and its scores with it.
DeleteBattle(b) ==
    /\ Change
    /\ score' = [score EXCEPT ![b] = [p \in Players |-> NoScore]]
    /\ UNCHANGED <<console, friends, cache, call, session>>

\* leaderboards/friends/update: $addToSet
FriendsUpdate(p, q) ==
    /\ friends' = [friends EXCEPT ![p] = @ \cup {q}]
    /\ UNCHANGED <<score, console, cache, call, session, changes>>

SetType(p, t) == console' = [console EXCEPT ![p] = t]
Then(p, next) == session' = [session EXCEPT ![p] = next]
Invalidate(types) == cache' = Restrict(cache, DOMAIN cache \ types)

\* A first login inserts the user, and then invalidates its type.
CreateUser(p, t) ==
    /\ session[p] = Idle
    /\ console[p] = NoType
    /\ Change
    /\ SetType(p, t)
    /\ Then(p, [op |-> "invalidate", types |-> {t}])
    /\ UNCHANGED <<score, friends, cache, call>>

\* RegisterEx updates the user, and then invalidates all types.
RegisterUpdate(p, t) ==
    /\ session[p] = Idle
    /\ console[p] # NoType
    /\ Change
    /\ SetType(p, t)
    /\ Then(p, [op |-> "invalidate", types |-> Types])
    /\ UNCHANGED <<score, friends, cache, call>>

InvalidateNow(p) ==
    /\ session[p].op = "invalidate"
    /\ Invalidate(session[p].types)
    /\ Then(p, Idle)
    /\ UNCHANGED <<score, console, friends, call, changes>>

\* Login invalidates the old type and the new one, and then updates the user.
LoginInvalidate(p, t) ==
    /\ session[p] = Idle
    /\ console[p] \notin {NoType, t}
    /\ Change
    /\ Invalidate({console[p], t})
    /\ Then(p, [op |-> "update", type |-> t])
    /\ UNCHANGED <<score, console, friends, call>>

LoginUpdate(p) ==
    /\ session[p].op = "update"
    /\ SetType(p, session[p].type)
    /\ Then(p, Idle)
    /\ UNCHANGED <<score, friends, cache, call, changes>>
------------------------------------------------------------------------------
Handler(c) ==
    \/ LookupHit(c) \/ LookupMiss(c) \/ LookupFind(c) \/ LookupFill(c)
    \/ Aggregate(c) \/ PlayerScore(c) \/ Fallback(c) \/ Count(c) \/ FindPage(c) \/ Answer(c)

SessionGoesOn(p) == InvalidateNow(p) \/ LoginUpdate(p)

Next ==
    \/ \E c \in Consoles :
          \/ \E ask \in Requests : PlayerGet(c, ask) \/ TickerInfo(c, ask)
          \/ Handler(c)
    \/ \E key \in CacheKeys : Expire(key)
    \/ \E r \in Recordings : Record(r)
    \/ \E b \in Battles : DeleteBattle(b)
    \/ \E f \in Friendships : FriendsUpdate(f[1], f[2])
    \/ \E ch \in TypeChanges :
          \/ CreateUser(ch[1], ch[2])
          \/ RegisterUpdate(ch[1], ch[2])
          \/ LoginInvalidate(ch[1], ch[2])
    \/ \E p \in Players : SessionGoesOn(p)

Spec == Init /\ [][Next]_vars

\* Handlers run to their end, and time passes.
FairSpec ==
    /\ Spec
    /\ \A c \in Consoles : WF_vars(Handler(c))
    /\ \A p \in Players : WF_vars(SessionGoesOn(p))
    /\ \A key \in CacheKeys : WF_vars(Expire(key))
------------------------------------------------------------------------------
(* Properties.                                                             *)

\* What a handler counted still holds when it makes the page: both lookups of
\* the console type gave the same players, and no score among them changed.
CountHolds(a) ==
    LET points == PointsOn(a.ask.board) IN
    /\ a.base = a.counted
    /\ a.higher = NumHigher(points, a.base, a.mine)
    /\ \E p \in Scorers(points, a.base) : points[p] = a.mine

\* The page is the one of the player who asks: leaderboards/player skips a
\* multiple of the page's length on the word of a count made earlier with a
\* filter made twice (player.go:279, 291), and when the count holds, the row
\* after those that were counted is on the page and has the score that was
\* looked for; the page of a total has the player itself (player.go:134).
PlayerOnPage ==
    [][\A c \in Consoles :
          LET a == call[c]
              points == PointsOn(a.ask.board)
              rows == call'[c].rows
          IN
          /\ a.op = "page" /\ call'[c] # a /\ CountHolds(a) =>
                /\ a.higher + 1 \in DOMAIN rows
                /\ points[rows[a.higher + 1]] = a.mine
          /\ a.op = "aggregate" /\ call'[c] # a /\ points[a.ask.who] # NoScore
                /\ (a.base # {} => a.ask.who \in a.base) =>
                a.ask.who \in Range(rows)]_call

\* Ranges that follow each other, and the pages of the REST API.
Pages == 1 .. Cardinality(Players)
RankRanges(r, size) == [page \in Pages |-> RankRange(r, (page - 1) * size + 1, page * size)]
AccRanges(r, size) == [page \in Pages |-> AccRange(r, (page - 1) * size + 1, page * size)]
RestPages(r, size) == [page \in Pages |-> RestPage(r, page, size)]

\* Every row of the ranking is on one of the pages, under its rank.
ShowAll(pages, r) ==
    \A i \in DOMAIN r : \E page \in Pages : i \in DOMAIN pages[page] /\ pages[page][i] = r[i]

\* The requests for the ranks of a board agree; RanksAgree has it before and after
\* every change of the scores.  In whatever order the database puts ties, as long
\* as it is the same for the requests: the highest rank is that of the last row;
\* ranges that follow each other (rankrange.go:73) show every row under its rank,
\* and the REST API's pages show the same (restapi.go:451); the rank of a player
\* on a song, whose score may have changed since it was read (playerranks.go:67),
\* is that of the first row without a higher score (playerranks.go:85).  Of a goal
\* that has a case in getAccomplishmentField, the ranges show every entry
\* (acc_rankrange.go:80), and the page of a player its own (acc_player_get.go:167).
Agreement ==
    /\ \A board \in Songs \cup Battles \cup Totals :
          \A r \in Rankings(PointsOn(board), Players) :
             /\ DOMAIN r = 1 .. MaxRank(board)
             /\ \A size \in 1 .. Window :
                   /\ ShowAll(RankRanges(r, size), r)
                   /\ board \notin Totals => RestPages(r, size) = RankRanges(r, size)
             /\ board \in Songs => \A mine \in 0 .. MaxPoints, i \in DOMAIN r :
                   i < PlayerRank(board, mine) <=> score[board][r[i]] > mine
    /\ \A goal \in Served :
          \A r \in Rankings(AccomplishmentField(goal), Players) :
             /\ \A size \in 1 .. Window : ShowAll(AccRanges(r, size), r)
             /\ \A p \in Scorers(score[goal], Players) : p \in Range(AccPage(r, p))

RanksAgree == [][score' # score => Agreement /\ Agreement']_score

\* The caches catch up: a lookup that found its map before an update may fill the
\* cache with it after the invalidation (utils.go:711), and Login invalidates
\* before it updates (login.go:220); the entry is wrong until it expires, and
\* once nothing changes any more there is an end to wrong entries.
CacheCatchesUp ==
    <>[](\A key \in DOMAIN cache : cache[key] \in Computed(key))
==============================================================================
