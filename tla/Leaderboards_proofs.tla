-------------------------- MODULE Leaderboards_proofs --------------------------
(***************************************************************************)
(* The page that is shown is the player's, for every board, every number   *)
(* of players and every length of a page.  The core is a fact about sorted *)
(* sequences: the row after those with a higher score has the score that   *)
(* the higher ones were counted for, wherever ties put the player.         *)
(***************************************************************************)
EXTENDS Leaderboards, FiniteSetTheorems, FunctionTheorems, WellFoundedInduction, TLAPS

LEMMA PlayersFinite == IsFiniteSet(Players)
BY LeaderboardsAssumption

LEMMA SongsFinite == IsFiniteSet(Songs) /\ RB3Songs \subseteq Songs
BY LeaderboardsAssumption

LEMMA WindowPositive == Window \in Nat \ {0}
BY LeaderboardsAssumption

LEMMA RequestsAreAsks == Requests \subseteq Asks
BY LeaderboardsAssumption
------------------------------------------------------------------------------
(* Pages.                                                                  *)

\* A page begins at or before the row it is made for, and ends after it.
LEMMA PageBounds ==
    ASSUME NEW n \in Nat
    PROVE  /\ PageStart(n) \in Nat
           /\ PageStart(n) <= n
           /\ n < PageStart(n) + Window
<1>1. n % Window \in 0 .. (Window - 1)
  BY WindowPositive
<1>2. n % Window <= n
  <2>1. CASE n < Window
    BY <2>1, WindowPositive, n % Window = n
  <2>2. CASE n >= Window
    BY <2>2, <1>1, WindowPositive
  <2> QED BY <2>1, <2>2, WindowPositive
<1> QED BY <1>1, <1>2, WindowPositive DEF PageStart

LEMMA RowOnPage ==
    ASSUME NEW r, NEW n \in Nat, n + 1 \in DOMAIN r
    PROVE  /\ n + 1 \in DOMAIN Page(r, n)
           /\ Page(r, n)[n + 1] = r[n + 1]
BY PageBounds, WindowPositive DEF Page, Rows, Restrict
------------------------------------------------------------------------------
(* Rankings.                                                               *)

\* A ranking is a numbering of the players that have a score.
LEMMA RankingNumbers ==
    ASSUME NEW points, NEW among \in SUBSET Players, NEW r \in Rankings(points, among)
    PROVE  /\ Cardinality(Scorers(points, among)) \in Nat
           /\ r \in [1 .. Cardinality(Scorers(points, among)) -> Scorers(points, among)]
           /\ \A i, j \in DOMAIN r : r[i] = r[j] => i = j
           /\ \A p \in Scorers(points, among) : \E i \in DOMAIN r : r[i] = p
<1> DEFINE S == Scorers(points, among)
           N == Cardinality(S)
<1>1. IsFiniteSet(S) /\ N \in Nat
  <2>1. S \in SUBSET Players
    BY DEF Scorers
  <2> QED BY <2>1, PlayersFinite, FS_Subset, FS_CardinalityType
<1>2. r \in Injection(1 .. N, S)
  BY DEF Rankings
<1>3. Cardinality(1 .. N) = N
  BY <1>1, FS_Interval
<1>4. r \in Surjection(1 .. N, S)
  <2> HIDE DEF S, N
  <2>1. IsFiniteSet(S) /\ Cardinality(1 .. N) = Cardinality(S)
    BY <1>1, <1>3 DEF N
  <2> QED BY <2>1, <1>2, FS_Injection
<1>5. r \in [1 .. N -> S] /\ \A i, j \in 1 .. N : r[i] = r[j] => i = j
  <2> HIDE DEF S, N
  <2> QED BY <1>2, Fun_InjectionProperties
<1>6. \A p \in S : \E i \in 1 .. N : r[i] = p
  <2> HIDE DEF S, N
  <2> QED BY <1>4 DEF Surjection
<1>7. DOMAIN r = 1 .. N
  BY <1>5
<1> QED BY <1>1, <1>5, <1>6, <1>7

\* The index that the pipeline's result is searched for.
LEMMA IndexOfPlayer ==
    ASSUME NEW points, NEW among \in SUBSET Players, NEW r \in Rankings(points, among),
           NEW p \in Scorers(points, among)
    PROVE  /\ IndexOf(r, p) \in Nat
           /\ IndexOf(r, p) + 1 \in DOMAIN r
           /\ r[IndexOf(r, p) + 1] = p
<1> DEFINE N == Cardinality(Scorers(points, among))
           k == CHOOSE i \in DOMAIN r : r[i] = p
<1>1. N \in Nat /\ DOMAIN r = 1 .. N /\ \E i \in 1 .. N : r[i] = p
  BY RankingNumbers
<1>2. k \in 1 .. N /\ r[k] = p
  BY <1>1
<1>3. p \in Range(r)
  BY <1>1 DEF Range
<1>4. IndexOf(r, p) = k - 1
  BY <1>3 DEF IndexOf
<1> HIDE DEF k, N
<1> QED BY <1>1, <1>2, <1>4

\* Scores of a board, or totals, which have no bound of their own.
Scored == [Players -> Nat \cup {NoScore}]

LEMMA PointsScored == Points \subseteq Scored
BY LeaderboardsAssumption DEF Points, Scored, NoScore

\* The rows with a score higher than v are the first ones, as many as are counted.
LEMMA HigherComeFirst ==
    ASSUME NEW points \in Scored, NEW among \in SUBSET Players,
           NEW r \in Rankings(points, among), NEW v \in Nat
    PROVE  LET n == NumHigher(points, among, v)
           IN /\ n \in Nat
              /\ {i \in DOMAIN r : points[r[i]] > v} = 1 .. n
<1> DEFINE S == Scorers(points, among)
           N == Cardinality(S)
           H == Higher(points, among, v)
           I == {i \in 1 .. N : points[r[i]] > v}
           m == Cardinality(H)
<1>1. /\ N \in Nat
      /\ r \in [1 .. N -> S]
      /\ \A i, j \in 1 .. N : r[i] = r[j] => i = j
      /\ \A q \in S : \E i \in 1 .. N : r[i] = q
  BY RankingNumbers
<1>2. \A i, j \in 1 .. N : i < j => points[r[i]] >= points[r[j]]
  BY <1>1 DEF Rankings
<1>3. \A q \in S : points[q] \in Nat /\ q \in among
  BY DEF Scorers, Scored
<1>4. v \in Int /\ v >= 0
  OBVIOUS
<1>5. H \subseteq S
  BY <1>4 DEF Higher, Scorers, NoScore
<1>6. \A i \in 1 .. N : points[r[i]] \in Int /\ r[i] \in among
  BY <1>1, <1>3
<1>7. IsFiniteSet(I)
  <2>1. IsFiniteSet(1 .. N) /\ I \in SUBSET (1 .. N)
    BY <1>1, FS_Interval
  <2> QED BY <2>1, FS_Subset
<1>8. IsFiniteSet(H) /\ m = Cardinality(I)
  <2> DEFINE f == [i \in I |-> r[i]]
  <2>1. f \in [I -> H]
    BY <1>1, <1>6 DEF Higher
  <2>2. \A i, j \in I : f[i] = f[j] => i = j
    BY <1>1
  <2>3. \A q \in H : \E i \in I : f[i] = q
    BY <1>1, <1>5 DEF Higher
  <2> HIDE DEF f, I, H
  <2>4. f \in Bijection(I, H)
    BY <2>1, <2>2, <2>3, Fun_IsBij
  <2>5. ExistsBijection(I, H)
    BY <2>4 DEF ExistsBijection
  <2> QED BY <2>5, <1>7, FS_Bijection
<1>9. m \in Nat
  BY <1>8, FS_CardinalityType
<1>10. I = 1 .. m
  <2>1. I \subseteq 1 .. m
    <3> SUFFICES ASSUME NEW i \in I, i > m
                 PROVE  FALSE
      BY <1>1, <1>9
    <3>1. 1 .. i \in SUBSET I
      BY <1>1, <1>2, <1>4, <1>6
    <3>2. Cardinality(1 .. i) <= Cardinality(I)
      <4> HIDE DEF I
      <4> QED BY <3>1, <1>7, FS_Subset
    <3>3. i \in Nat /\ i >= 1
      BY <1>1
    <3>4. Cardinality(1 .. i) = i
      BY <3>3, FS_Interval
    <3> HIDE DEF I, m
    <3> QED BY <3>2, <3>3, <3>4, <1>8, <1>9
  <2>2. IsFiniteSet(1 .. m) /\ Cardinality(1 .. m) = m
    BY <1>9, FS_Interval
  <2> HIDE DEF I, m
  <2> QED BY <2>1, <2>2, <1>8, FS_Subset
<1>11. DOMAIN r = 1 .. N
  BY <1>1
<1>12. NumHigher(points, among, v) = m
  BY DEF NumHigher
<1> HIDE DEF m, N
<1> QED BY <1>9, <1>10, <1>11, <1>12

\* The row after those with a higher score has the score.
LEMMA RowAfterHigher ==
    ASSUME NEW points \in Scored, NEW among \in SUBSET Players,
           NEW r \in Rankings(points, among), NEW p \in Scorers(points, among)
    PROVE  LET n == NumHigher(points, among, points[p])
           IN /\ n \in Nat
              /\ n + 1 \in DOMAIN r
              /\ points[r[n + 1]] = points[p]
<1> DEFINE N == Cardinality(Scorers(points, among))
           v == points[p]
           n == NumHigher(points, among, v)
<1>1. /\ N \in Nat
      /\ DOMAIN r = 1 .. N
      /\ \A i \in 1 .. N : r[i] \in Scorers(points, among)
      /\ \E i \in 1 .. N : r[i] = p
  BY RankingNumbers
<1>2. \A i, j \in 1 .. N : i < j => points[r[i]] >= points[r[j]]
  BY <1>1 DEF Rankings
<1>3. v \in Nat /\ \A i \in 1 .. N : points[r[i]] \in Nat
  BY <1>1 DEF Scorers, Scored
<1>4. n \in Nat /\ {i \in 1 .. N : points[r[i]] > v} = 1 .. n
  <2> HIDE DEF v, N
  <2>1. n \in Nat /\ {i \in DOMAIN r : points[r[i]] > v} = 1 .. n
    <3>1. v \in Nat
      BY <1>3
    <3> QED BY <3>1, HigherComeFirst DEF n
  <2> HIDE DEF n
  <2> QED BY <1>1, <2>1
<1> HIDE DEF n, N
<1>5. PICK k \in 1 .. N : r[k] = p
  BY <1>1
<1>6. k >= n + 1 /\ n + 1 \in 1 .. N
  BY <1>1, <1>3, <1>4, <1>5
<1>7. ~(points[r[n + 1]] > v)
  BY <1>4, <1>6
<1>8. points[r[n + 1]] >= v
  <2>1. CASE k = n + 1
    BY <2>1, <1>3, <1>5
  <2>2. CASE k > n + 1
    BY <2>2, <1>2, <1>5, <1>6
  <2> QED BY <2>1, <2>2, <1>1, <1>4, <1>6
<1>9. points[r[n + 1]] = v
  <2> HIDE DEF v
  <2> QED BY <1>3, <1>6, <1>7, <1>8
<1> QED BY <1>1, <1>4, <1>6, <1>9 DEF n
------------------------------------------------------------------------------
(* The state that the pages are made from.                                 *)

Fields == {"op", "stage", "ask", "base", "counted", "got", "mine", "higher", "rows"}
SongOps == {"score", "fallback", "again", "count", "page"}

\* What is needed of a call: it has its fields, it works with players, and a page
\* that is found by counting is one of a song or a battle.
GoodCall(a) ==
    a # Idle =>
       /\ DOMAIN a = Fields
       /\ a.op # "idle"
       /\ a.ask \in Asks
       /\ a.base \subseteq Players /\ a.counted \subseteq Players
       /\ DOMAIN a.got \subseteq Players
       /\ a.op \in SongOps => a.ask.board \in Songs \cup Battles
       /\ a.op = "list" => a.ask.board # "ticker"

Shape ==
    /\ score \in [ScoreBoards -> Points]
    /\ friends \in [Players -> SUBSET Players]
    /\ \A key \in DOMAIN cache : DOMAIN cache[key] \subseteq Players
    /\ DOMAIN call = Consoles
    /\ \A c \in Consoles : GoodCall(call[c])

LEMMA ComputedMaps ==
    ASSUME NEW key, NEW got \in Computed(key)
    PROVE  DOMAIN got \subseteq Players
<1>1. CASE key \in Types
  BY <1>1 DEF Computed
<1>2. CASE key \notin Types
  <2>1. PICK r \in Rankings(PointsOn(key), Players) : got = AntiFunction(r)
    BY <1>2 DEF Computed
  <2>2. r \in [1 .. Cardinality(Scorers(PointsOn(key), Players)) -> Scorers(PointsOn(key), Players)]
    BY RankingNumbers
  <2>3. Range(r) \subseteq Players
    BY <2>2 DEF Range, Scorers
  <2> QED BY <2>1, <2>3 DEF AntiFunction, Inverse
<1> QED BY <1>1, <1>2

LEMMA WithGood ==
    ASSUME NEW a, a # Idle, GoodCall(a), LooksUp(a), NEW got, DOMAIN got \subseteq Players
    PROVE  GoodCall(With(a, got))
<1> USE DEF GoodCall, Checked, Fields, SongOps, TickerKeys
<1>1. CASE a.op = "list"
  <2>1. a.ask.board \in Songs \cup Battles \cup Totals
    BY <1>1 DEF Asks
  <2>2. With(a, got) = [Checked(a, IF a.ask.board \in Totals THEN "aggregate" ELSE "score")
                            EXCEPT !.base = DOMAIN got]
    BY <1>1 DEF With
  <2> QED BY <1>1, <2>1, <2>2
<1>2. CASE a.op = "again"
  <2>1. With(a, got) = [Checked(a, "count") EXCEPT !.counted = DOMAIN got]
    BY <1>2 DEF With
  <2> QED BY <1>2, <2>1
<1>3. CASE a.op = "global"
  <2>1. With(a, got) = Checked(a, "role")
    BY <1>3 DEF With
  <2> QED BY <1>3, <2>1
<1>4. CASE a.op = "role"
  <2>1. With(a, got) = Checked(a, "answer")
    BY <1>4 DEF With
  <2> QED BY <1>4, <2>1
<1> QED BY <1>1, <1>2, <1>3, <1>4 DEF LooksUp

\* A handler replaces its call by a good one and leaves the others alone.
LEMMA ContinueGood ==
    ASSUME Shape, NEW c \in Consoles, NEW next, GoodCall(next), Continue(c, next)
    PROVE  DOMAIN call' = Consoles /\ \A d \in Consoles : GoodCall(call[d])'
<1>1. /\ DOMAIN call' = Consoles
      /\ \A d \in Consoles : call'[d] = IF d = c THEN next ELSE call[d]
  BY DEF Continue, Shape
<1>2. \A d \in Consoles : GoodCall(call'[d])
  BY <1>1 DEF Shape
<1>3. \A d \in Consoles : GoodCall(call[d])' <=> GoodCall(call'[d])
  BY DEF GoodCall, Idle, Fields, Asks, SongOps, Totals
<1> QED BY <1>1, <1>2, <1>3

LEMMA ShapeInit == Init => Shape
BY LeaderboardsAssumption DEF Init, Shape, GoodCall

LEMMA TickerInfoGood ==
    ASSUME Shape, NEW c \in Consoles, NEW ask \in Requests, TickerInfo(c, ask)
    PROVE  Shape'
<1>1. GoodCall(NewCall(ask, "global"))
  BY RequestsAreAsks DEF GoodCall, NewCall, Fields, SongOps
<1>2. DOMAIN call' = Consoles /\ \A d \in Consoles : GoodCall(call[d])'
  BY <1>1, ContinueGood DEF TickerInfo
<1> QED BY <1>2 DEF TickerInfo, Shape, database

LEMMA PlayerGetGood ==
    ASSUME Shape, NEW c \in Consoles, NEW ask \in Requests, PlayerGet(c, ask)
    PROVE  Shape'
<1> DEFINE shown == friends[ask.who] \cup {ask.who}
           next == IF ask.board \in Totals THEN "aggregate" ELSE "score"
           among == [NewCall(ask, next) EXCEPT !.base = shown, !.counted = shown]
<1>1. ask \in Asks /\ ask.board # "ticker"
  BY RequestsAreAsks DEF PlayerGet
<1>2. ask.who \in Players /\ (ask.board \in Songs \cup Battles \/ ask.board \in Totals)
  BY <1>1 DEF Asks
<1>3. shown \subseteq Players
  BY <1>2 DEF Shape
<1>4. GoodCall(NewCall(ask, "list"))
  BY <1>1 DEF GoodCall, NewCall, Fields, SongOps
<1>5. GoodCall(NewCall(ask, next))
  BY <1>1, <1>2 DEF GoodCall, NewCall, Fields, SongOps
<1>6. GoodCall(among)
  BY <1>1, <1>2, <1>3 DEF GoodCall, NewCall, Fields, SongOps
<1>7. /\ \/ Continue(c, NewCall(ask, "list"))
         \/ Continue(c, among)
         \/ Continue(c, NewCall(ask, next))
      /\ UNCHANGED <<score, friends, cache>>
  BY DEF PlayerGet, database
<1> HIDE DEF among, next
<1>8. DOMAIN call' = Consoles /\ \A d \in Consoles : GoodCall(call[d])'
  BY <1>4, <1>5, <1>6, <1>7, ContinueGood
<1> QED BY <1>7, <1>8 DEF Shape

LEMMA LookupGood ==
    ASSUME Shape, NEW c \in Consoles,
           LookupHit(c) \/ LookupMiss(c) \/ LookupFind(c) \/ LookupFill(c)
    PROVE  Shape'
<1> DEFINE a == call[c]
<1>1. LooksUp(a)
  BY DEF LookupHit, LookupMiss, LookupFind, LookupFill
<1>2. GoodCall(a)
  BY DEF Shape
<1>3. a # Idle
  BY <1>1 DEF LooksUp, Idle, TickerKeys
<1>4. CASE LookupHit(c)
  <2>1. GoodCall(With(a, cache[KeyOf(a)]))
    BY <1>1, <1>2, <1>3, <1>4, WithGood DEF LookupHit, Shape
  <2>2. DOMAIN call' = Consoles /\ \A d \in Consoles : GoodCall(call[d])'
    BY <1>4, <2>1, ContinueGood DEF LookupHit
  <2> QED BY <1>4, <2>2 DEF LookupHit, Shape, database
<1>5. CASE LookupMiss(c)
  <2>1. GoodCall([a EXCEPT !.stage = "find"])
    BY <1>2, <1>3 DEF GoodCall, Fields, SongOps
  <2>2. DOMAIN call' = Consoles /\ \A d \in Consoles : GoodCall(call[d])'
    BY <1>5, <2>1, ContinueGood DEF LookupMiss
  <2> QED BY <1>5, <2>2 DEF LookupMiss, Shape, database
<1>6. CASE LookupFind(c)
  <2>1. PICK got \in Computed(KeyOf(a)) :
           Continue(c, [a EXCEPT !.stage = "fill", !.got = got])
    BY <1>6 DEF LookupFind
  <2>2. DOMAIN got \subseteq Players
    BY <2>1, ComputedMaps
  <2>3. GoodCall([a EXCEPT !.stage = "fill", !.got = got])
    BY <1>2, <1>3, <2>2 DEF GoodCall, Fields, SongOps
  <2>4. DOMAIN call' = Consoles /\ \A d \in Consoles : GoodCall(call[d])'
    BY <2>1, <2>3, ContinueGood
  <2> QED BY <1>6, <2>4 DEF LookupFind, Shape, database
<1>7. CASE LookupFill(c)
  <2>1. DOMAIN a.got \subseteq Players
    BY <1>2, <1>3 DEF GoodCall
  <2>2. GoodCall([a EXCEPT !.got = <<>>])
    BY <1>2, <1>3 DEF GoodCall, Fields, SongOps
  <2>3. LooksUp([a EXCEPT !.got = <<>>]) /\ [a EXCEPT !.got = <<>>] # Idle
    BY <1>1, <1>2, <1>3 DEF LooksUp, GoodCall, Fields, Idle, TickerKeys
  <2>4. GoodCall(With([a EXCEPT !.got = <<>>], a.got))
    BY <2>1, <2>2, <2>3, WithGood
  <2>5. DOMAIN call' = Consoles /\ \A d \in Consoles : GoodCall(call[d])'
    BY <1>7, <2>4, ContinueGood DEF LookupFill
  <2>6. \A key \in DOMAIN cache' : DOMAIN cache'[key] \subseteq Players
    BY <1>7, <2>1 DEF LookupFill, Stored, Shape
  <2> QED BY <1>7, <2>5, <2>6 DEF LookupFill, Shape, database
<1> QED BY <1>4, <1>5, <1>6, <1>7

LEMMA HandlerGood ==
    ASSUME Shape, NEW c \in Consoles, Handler(c)
    PROVE  Shape'
<1> DEFINE a == call[c]
<1>1. GoodCall(a)
  BY DEF Shape
<1>2. CASE LookupHit(c) \/ LookupMiss(c) \/ LookupFind(c) \/ LookupFill(c)
  BY <1>2, LookupGood
<1>3. CASE Aggregate(c)
  <2>1. PICK r : Continue(c, [a EXCEPT !.op = "answer", !.rows = Page(r, IndexOf(r, a.ask.who))])
    BY <1>3 DEF Aggregate
  <2>2. a # Idle
    BY <1>3 DEF Aggregate, Idle
  <2>3. GoodCall([a EXCEPT !.op = "answer", !.rows = Page(r, IndexOf(r, a.ask.who))])
    BY <1>1, <2>2 DEF GoodCall, Fields, SongOps
  <2>4. DOMAIN call' = Consoles /\ \A d \in Consoles : GoodCall(call[d])'
    BY <2>1, <2>3, ContinueGood
  <2> QED BY <1>3, <2>4 DEF Aggregate, Shape, database
<1>4. CASE PlayerScore(c)
  <2> DEFINE mine == PointsOn(a.ask.board)[a.ask.who]
  <2>1. a # Idle /\ a.op = "score"
    BY <1>4 DEF PlayerScore, Idle
  <2>2. \/ Continue(c, [a EXCEPT !.op = "fallback"])
        \/ Continue(c, [a EXCEPT !.op = CountNext(a), !.mine = mine])
    BY <1>4 DEF PlayerScore
  <2>3. CountNext(a) \in {"again", "count"}
    BY DEF CountNext
  <2>4. GoodCall([a EXCEPT !.op = "fallback"])
    BY <1>1, <2>1 DEF GoodCall, Fields, SongOps
  <2>5. GoodCall([a EXCEPT !.op = CountNext(a), !.mine = mine])
    <3> HIDE DEF mine
    <3> QED BY <1>1, <2>1, <2>3 DEF GoodCall, Fields, SongOps
  <2>6. DOMAIN call' = Consoles /\ \A d \in Consoles : GoodCall(call[d])'
    <3> HIDE DEF mine
    <3> QED BY <2>2, <2>4, <2>5, ContinueGood
  <2> QED BY <1>4, <2>6 DEF PlayerScore, Shape, database
<1>5. CASE Fallback(c)
  <2> DEFINE mine == TopScore(PointsOn(a.ask.board), a.base)
  <2>1. a # Idle /\ a.op = "fallback"
    BY <1>5 DEF Fallback, Idle
  <2>2. Continue(c, [a EXCEPT !.op = CountNext(a), !.mine = mine])
    BY <1>5 DEF Fallback
  <2>3. CountNext(a) \in {"again", "count"}
    BY DEF CountNext
  <2> HIDE DEF mine
  <2>4. GoodCall([a EXCEPT !.op = CountNext(a), !.mine = mine])
    BY <1>1, <2>1, <2>3 DEF GoodCall, Fields, SongOps
  <2>5. DOMAIN call' = Consoles /\ \A d \in Consoles : GoodCall(call[d])'
    BY <2>2, <2>4, ContinueGood
  <2> QED BY <1>5, <2>5 DEF Fallback, Shape, database
<1>6. CASE Count(c)
  <2> DEFINE higher == NumHigher(PointsOn(a.ask.board), a.counted, a.mine)
  <2>1. a # Idle /\ a.op = "count"
    BY <1>6 DEF Count, Idle
  <2>2. Continue(c, [a EXCEPT !.op = "page", !.higher = higher])
    BY <1>6 DEF Count
  <2> HIDE DEF higher
  <2>3. GoodCall([a EXCEPT !.op = "page", !.higher = higher])
    BY <1>1, <2>1 DEF GoodCall, Fields, SongOps
  <2>4. DOMAIN call' = Consoles /\ \A d \in Consoles : GoodCall(call[d])'
    BY <2>2, <2>3, ContinueGood
  <2> QED BY <1>6, <2>4 DEF Count, Shape, database
<1>7. CASE FindPage(c)
  <2>1. PICK r : Continue(c, [a EXCEPT !.op = "answer", !.rows = Page(r, a.higher)])
    BY <1>7 DEF FindPage
  <2>2. a # Idle
    BY <1>7 DEF FindPage, Idle
  <2>3. GoodCall([a EXCEPT !.op = "answer", !.rows = Page(r, a.higher)])
    BY <1>1, <2>2 DEF GoodCall, Fields, SongOps
  <2>4. DOMAIN call' = Consoles /\ \A d \in Consoles : GoodCall(call[d])'
    BY <2>1, <2>3, ContinueGood
  <2> QED BY <1>7, <2>4 DEF FindPage, Shape, database
<1>8. CASE Answer(c)
  <2>1. GoodCall(Idle)
    BY DEF GoodCall
  <2>2. DOMAIN call' = Consoles /\ \A d \in Consoles : GoodCall(call[d])'
    BY <1>8, <2>1, ContinueGood DEF Answer
  <2> QED BY <1>8, <2>2 DEF Answer, Shape, database
<1> QED BY <1>2, <1>3, <1>4, <1>5, <1>6, <1>7, <1>8 DEF Handler

\* What changes the scores, the users and the caches leaves the calls alone.
LEMMA OthersGood ==
    ASSUME Shape,
           \/ \E key \in CacheKeys : Expire(key)
           \/ \E r \in Recordings : Record(r)
           \/ \E b \in Battles : DeleteBattle(b)
           \/ \E f \in Friendships : FriendsUpdate(f[1], f[2])
           \/ \E ch \in TypeChanges :
                 \/ CreateUser(ch[1], ch[2])
                 \/ RegisterUpdate(ch[1], ch[2])
                 \/ LoginInvalidate(ch[1], ch[2])
           \/ \E p \in Players : SessionGoesOn(p)
    PROVE  Shape'
<1>1. call' = call
  BY DEF Expire, Record, DeleteBattle, FriendsUpdate, CreateUser, RegisterUpdate,
         LoginInvalidate, SessionGoesOn, InvalidateNow, LoginUpdate, database
<1>2. score' \in [ScoreBoards -> Points]
  <2>1. CASE \E r \in Recordings : Record(r)
    <3>1. PICK r \in Recordings : Record(r)
      BY <2>1
    <3>2. r.board \in ScoreBoards /\ r.points \in 0 .. MaxPoints
      BY LeaderboardsAssumption
    <3>3. score[r.board] \in Points
      BY <3>2 DEF Shape
    <3>4. [score[r.board] EXCEPT ![r.who] = r.points] \in Points
      BY <3>2, <3>3 DEF Points
    <3>5. score' = [score EXCEPT ![r.board] = [score[r.board] EXCEPT ![r.who] = r.points]]
      BY <3>1 DEF Record
    <3> QED BY <3>2, <3>4, <3>5 DEF Shape
  <2>2. CASE \E b \in Battles : DeleteBattle(b)
    <3>1. PICK b \in Battles : DeleteBattle(b)
      BY <2>2
    <3>2. [p \in Players |-> NoScore] \in Points
      BY DEF Points
    <3> QED BY <3>1, <3>2 DEF DeleteBattle, Shape, ScoreBoards
  <2>3. CASE score' = score
    BY <2>3 DEF Shape
  <2> QED BY <2>1, <2>2, <2>3 DEF Expire, FriendsUpdate, CreateUser, RegisterUpdate,
             LoginInvalidate, SessionGoesOn, InvalidateNow, LoginUpdate, database
<1>3. friends' \in [Players -> SUBSET Players]
  <2>1. CASE \E f \in Friendships : FriendsUpdate(f[1], f[2])
    <3>1. PICK f \in Friendships : FriendsUpdate(f[1], f[2])
      BY <2>1
    <3>2. f[1] \in Players /\ f[2] \in Players
      BY LeaderboardsAssumption
    <3> QED BY <3>1, <3>2 DEF FriendsUpdate, Shape
  <2>2. CASE friends' = friends
    BY <2>2 DEF Shape
  <2> QED BY <2>1, <2>2 DEF Expire, Record, DeleteBattle, CreateUser, RegisterUpdate,
             LoginInvalidate, SessionGoesOn, InvalidateNow, LoginUpdate, database
<1>4. \A key \in DOMAIN cache' : key \in DOMAIN cache /\ cache'[key] = cache[key]
  BY DEF Expire, Record, DeleteBattle, FriendsUpdate, CreateUser, RegisterUpdate,
         LoginInvalidate, SessionGoesOn, InvalidateNow, LoginUpdate, database, Invalidate,
         Restrict
<1>5. \A d \in Consoles : GoodCall(call[d])'
  BY <1>1 DEF Shape, GoodCall, Idle, Fields, Asks, SongOps, Totals
<1> QED BY <1>1, <1>2, <1>3, <1>4, <1>5 DEF Shape

LEMMA ShapeStep == Shape /\ [Next]_vars => Shape'
<1> SUFFICES ASSUME Shape, [Next]_vars
             PROVE  Shape'
  OBVIOUS
<1>1. CASE \E c \in Consoles : \E ask \in Requests : PlayerGet(c, ask) \/ TickerInfo(c, ask)
  BY <1>1, PlayerGetGood, TickerInfoGood
<1>2. CASE \E c \in Consoles : Handler(c)
  BY <1>2, HandlerGood
<1>3. CASE UNCHANGED vars
  <2>1. \A d \in Consoles : GoodCall(call[d])'
    BY <1>3 DEF vars, Shape, GoodCall, Idle, Fields, Asks, SongOps, Totals
  <2> QED BY <1>3, <2>1 DEF vars, Shape
<1> QED BY <1>1, <1>2, <1>3, OthersGood DEF Next

LEMMA ShapeInvariant == Spec => []Shape
BY ShapeInit, ShapeStep, PTL DEF Spec
------------------------------------------------------------------------------
(* Pages are the player's.                                                 *)

\* A console that waits for a page gets it from the action that makes it.
LEMMA PageStep ==
    ASSUME Shape, Next, NEW c \in Consoles, call[c].op \in {"page", "aggregate"},
           call'[c] # call[c]
    PROVE  \/ call[c].op = "page" /\ FindPage(c)
           \/ call[c].op = "aggregate" /\ Aggregate(c)
<1>1. call' # call
  OBVIOUS
<1>2. PICK d \in Consoles :
         \/ \E ask \in Requests : PlayerGet(d, ask) \/ TickerInfo(d, ask)
         \/ Handler(d)
  BY <1>1 DEF Next, Expire, Record, DeleteBattle, FriendsUpdate, CreateUser, RegisterUpdate,
         LoginInvalidate, SessionGoesOn, InvalidateNow, LoginUpdate, database
<1>3. \E next : Continue(d, next)
  BY <1>2 DEF Handler, PlayerGet, TickerInfo, LookupHit, LookupMiss, LookupFind, LookupFill,
         Aggregate, PlayerScore, Fallback, Count, FindPage, Answer
<1>4. d = c
  BY <1>3 DEF Continue, Shape
<1>5. call[c] # Idle
  BY DEF Idle
<1>6. ~ \E ask \in Requests : PlayerGet(c, ask) \/ TickerInfo(c, ask)
  BY <1>5 DEF PlayerGet, TickerInfo
<1>7. ~ (LookupHit(c) \/ LookupMiss(c) \/ LookupFind(c) \/ LookupFill(c))
  BY DEF LookupHit, LookupMiss, LookupFind, LookupFill, LooksUp, TickerKeys
<1>8. ~ (PlayerScore(c) \/ Fallback(c) \/ Count(c) \/ Answer(c))
  BY DEF PlayerScore, Fallback, Count, Answer
<1>9. FindPage(c) \/ Aggregate(c)
  BY <1>2, <1>4, <1>6, <1>7, <1>8 DEF Handler
<1> QED BY <1>9 DEF FindPage, Aggregate

LEMMA CountedPage ==
    ASSUME Shape, NEW c \in Consoles, FindPage(c), CountHolds(call[c])
    PROVE  LET a == call[c]
               points == PointsOn(a.ask.board)
               rows == call'[c].rows
           IN /\ a.higher + 1 \in DOMAIN rows
              /\ points[rows[a.higher + 1]] = a.mine
<1> DEFINE a == call[c]
           points == PointsOn(a.ask.board)
<1>1. a.op = "page" /\ a # Idle
  BY DEF FindPage, Idle
<1>2. DOMAIN a = Fields /\ a.base \in SUBSET Players /\ a.ask.board \in ScoreBoards
  BY <1>1 DEF Shape, GoodCall, SongOps, ScoreBoards
<1>3. points \in Points
  <2>1. points = score[a.ask.board]
    BY <1>2, LeaderboardsAssumption DEF PointsOn, Totals, TickerKeys
  <2> QED BY <1>2, <2>1 DEF Shape
<1>4. PICK r \in Rankings(points, a.base) :
         Continue(c, [a EXCEPT !.op = "answer", !.rows = Page(r, a.higher)])
  BY DEF FindPage
<1>5. call'[c].rows = Page(r, a.higher)
  BY <1>2, <1>4 DEF Continue, Fields, Shape
<1>6. PICK p \in Scorers(points, a.base) : points[p] = a.mine
  BY DEF CountHolds
<1>7. a.higher = NumHigher(points, a.base, points[p])
  BY <1>6 DEF CountHolds
<1> HIDE DEF points
<1>8. /\ a.higher \in Nat
      /\ a.higher + 1 \in DOMAIN r
      /\ points[r[a.higher + 1]] = points[p]
  BY <1>2, <1>3, <1>7, PointsScored, RowAfterHigher
<1>9. /\ a.higher + 1 \in DOMAIN Page(r, a.higher)
      /\ Page(r, a.higher)[a.higher + 1] = r[a.higher + 1]
  BY <1>8, RowOnPage
<1> QED BY <1>5, <1>6, <1>8, <1>9 DEF points

LEMMA AggregatedPage ==
    ASSUME Shape, NEW c \in Consoles, Aggregate(c),
           PointsOn(call[c].ask.board)[call[c].ask.who] # NoScore,
           call[c].base # {} => call[c].ask.who \in call[c].base
    PROVE  call[c].ask.who \in Range(call'[c].rows)
<1> DEFINE a == call[c]
           points == PointsOn(a.ask.board)
           among == IF a.base = {} THEN Players ELSE a.base
           p == a.ask.who
<1>1. a # Idle
  BY DEF Aggregate, Idle
<1>2. DOMAIN a = Fields /\ a.ask \in Asks /\ a.base \subseteq Players
  BY <1>1 DEF Shape, GoodCall
<1>3. among \in SUBSET Players /\ p \in among
  BY <1>2 DEF Asks
<1>4. PICK r \in Rankings(points, among) :
         Continue(c, [a EXCEPT !.op = "answer", !.rows = Page(r, IndexOf(r, p))])
  BY DEF Aggregate
<1>5. call'[c].rows = Page(r, IndexOf(r, p))
  BY <1>2, <1>4 DEF Continue, Fields, Shape
<1>6. p \in Scorers(points, among)
  BY <1>3 DEF Scorers
<1> HIDE DEF points, among, p
<1>7. /\ IndexOf(r, p) \in Nat
      /\ IndexOf(r, p) + 1 \in DOMAIN r
      /\ r[IndexOf(r, p) + 1] = p
  BY <1>3, <1>6, IndexOfPlayer
<1>8. /\ IndexOf(r, p) + 1 \in DOMAIN Page(r, IndexOf(r, p))
      /\ Page(r, IndexOf(r, p))[IndexOf(r, p) + 1] = p
  BY <1>7, RowOnPage
<1>9. p \in Range(Page(r, IndexOf(r, p)))
  BY <1>8 DEF Range
<1> QED BY <1>5, <1>9 DEF p

\* For every board, every length of a page and every order of equal scores, the
\* page that leaderboards/player and battle_player answer with is the one with
\* the score it was made for, if what they counted still holds (player.go:291,
\* battle_player_get.go:134), and a page of a total has the player (player.go:147).
THEOREM PageIsThePlayers == Spec => PlayerOnPage
<1> DEFINE OnPage ==
        \A c \in Consoles :
            LET a == call[c]
                points == PointsOn(a.ask.board)
                rows == call'[c].rows
            IN
            /\ a.op = "page" /\ call'[c] # a /\ CountHolds(a) =>
                  /\ a.higher + 1 \in DOMAIN rows
                  /\ points[rows[a.higher + 1]] = a.mine
            /\ a.op = "aggregate" /\ call'[c] # a /\ points[a.ask.who] # NoScore
                  /\ (a.base # {} => a.ask.who \in a.base) =>
                  a.ask.who \in Range(rows)
<1>1. Shape /\ [Next]_vars => [OnPage]_call
  <2> SUFFICES ASSUME Shape, Next, NEW c \in Consoles,
                      call[c].op \in {"page", "aggregate"}, call'[c] # call[c]
               PROVE  LET a == call[c]
                          points == PointsOn(a.ask.board)
                          rows == call'[c].rows
                      IN
                      /\ a.op = "page" /\ CountHolds(a) =>
                            /\ a.higher + 1 \in DOMAIN rows
                            /\ points[rows[a.higher + 1]] = a.mine
                      /\ a.op = "aggregate" /\ points[a.ask.who] # NoScore
                            /\ (a.base # {} => a.ask.who \in a.base) =>
                            a.ask.who \in Range(rows)
    BY DEF vars
  <2>1. CASE call[c].op = "page"
    <3>1. FindPage(c)
      BY <2>1, PageStep
    <3> QED BY <2>1, <3>1, CountedPage
  <2>2. CASE call[c].op = "aggregate"
    <3>1. Aggregate(c)
      BY <2>2, PageStep
    <3> QED BY <2>2, <3>1, AggregatedPage
  <2> QED BY <2>1, <2>2
<1>2. Spec => [][OnPage]_call
  BY <1>1, ShapeInvariant, PTL DEF Spec
<1> QED BY <1>2 DEF PlayerOnPage
------------------------------------------------------------------------------
(* Induction: what does not hold of all numbers fails first at one of them.*)

LEMMA LeastNatural ==
  ASSUME NEW T, T \subseteq Nat, T # {}
  PROVE  \E n \in T : \A m \in T : n <= m
<1>1. PICK n \in T : \A m \in T : <<m, n>> \notin OpToRel(<, Nat)
  <2> DEFINE Less == OpToRel(<, Nat)
  <2>1. IsWellFoundedOn(Less, Nat)
    BY NatLessThanWellFounded
  <2> HIDE DEF Less
  <2> QED
    BY <2>1, WFMin DEF Less
<1>2. \A m \in T : ~ (m < n)
  BY <1>1 DEF OpToRel
<1> QED
  BY <1>2

\* A set that has 0 and, with a number below length, the next one.
LEMMA UpTo ==
  ASSUME NEW length \in Nat, NEW S, 0 \in S, \A n \in 1 .. length : n - 1 \in S => n \in S
  PROVE  0 .. length \subseteq S
<1> DEFINE T == (0 .. length) \ S
<1> SUFFICES ASSUME T # {} PROVE FALSE
  OBVIOUS
<1>1. T \subseteq Nat
  OBVIOUS
<1>2. PICK n \in T : \A m \in T : n <= m
  <2> HIDE DEF T
  <2> QED
    BY <1>1, LeastNatural
<1>3. n \in 1 .. length /\ n - 1 \in 0 .. length /\ ~(n <= n - 1)
  BY <1>2
<1> QED
  BY <1>2, <1>3
------------------------------------------------------------------------------
(* Totals: the sum of natural numbers is one.                              *)

SumOf(f, S) == LET Of(x) == f[x] IN MapThenSumSet(Of, S)

Sum(f, sum, s) == IF s = {} THEN 0 ELSE LET x == CHOOSE x \in s : TRUE IN f[x] + sum[s \ {x}]

\* The sums over the subsets of S with at most n elements.
IsSum(f, S, sum, n) ==
    sum = [s \in {t \in SUBSET S : Cardinality(t) <= n} |-> Sum(f, sum, s)]

LEMMA SumsExist ==
    ASSUME NEW S, IsFiniteSet(S), NEW f
    PROVE  \E sum : IsSum(f, S, sum, Cardinality(S))
<1> DEFINE Small(n) == {t \in SUBSET S : Cardinality(t) <= n}
           Sizes == {n \in Nat : \E sum : IsSum(f, S, sum, n)}
<1>1. Cardinality(S) \in Nat
  BY FS_CardinalityType
<1>2. \A s \in SUBSET S : IsFiniteSet(s) /\ Cardinality(s) \in Nat /\ (Cardinality(s) = 0 <=> s = {})
  BY FS_Subset, FS_CardinalityType, FS_EmptySet
<1>3. 0 \in Sizes
  <2> DEFINE sum == [s \in Small(0) |-> 0]
  <2>1. \A s \in Small(0) : s = {}
    BY <1>2
  <2>2. sum = [s \in Small(0) |-> Sum(f, sum, s)]
    <3>1. \A s \in Small(0) : Sum(f, sum, s) = 0
      BY <2>1 DEF Sum
    <3> QED
      BY <3>1
  <2> HIDE DEF sum
  <2>3. IsSum(f, S, sum, 0)
    BY <2>2 DEF IsSum
  <2> QED
    BY <2>3
<1>4. ASSUME NEW n \in 1 .. Cardinality(S), n - 1 \in Sizes PROVE n \in Sizes
  <2>1. PICK old : IsSum(f, S, old, n - 1)
    BY <1>4
  <2> DEFINE sum == [s \in Small(n) |-> IF Cardinality(s) = n THEN Sum(f, old, s) ELSE old[s]]
  <2>2. ASSUME NEW s \in Small(n), s # {}
        PROVE  LET x == CHOOSE x \in s : TRUE IN
               x \in S /\ s \ {x} \in Small(n - 1) /\ sum[s \ {x}] = old[s \ {x}]
    <3> DEFINE x == CHOOSE y \in s : TRUE
    <3>1. x \in s
      BY <2>2
    <3> HIDE DEF x
    <3>2. Cardinality(s \ {x}) = Cardinality(s) - 1 /\ s \ {x} \in SUBSET S
      BY <1>2, <3>1, FS_RemoveElement
    <3>3. Cardinality(s) \in Nat /\ Cardinality(s) <= n /\ n \in Nat
      BY <1>2
    <3>4. s \ {x} \in Small(n - 1) /\ s \ {x} \in Small(n) /\ Cardinality(s \ {x}) # n
      BY <3>2, <3>3
    <3> QED
      BY <3>1, <3>4 DEF x
  <2>3. ASSUME NEW s \in Small(n) PROVE Sum(f, sum, s) = Sum(f, old, s)
    <3>1. CASE s = {}
      BY <3>1 DEF Sum
    <3>2. CASE s # {}
      <4> DEFINE x == CHOOSE y \in s : TRUE
      <4>1. x \in S /\ s \ {x} \in Small(n - 1) /\ sum[s \ {x}] = old[s \ {x}]
        BY <2>2, <3>2
      <4>2. Sum(f, sum, s) = f[x] + sum[s \ {x}] /\ Sum(f, old, s) = f[x] + old[s \ {x}]
        BY <3>2 DEF Sum
      <4> HIDE DEF x, sum
      <4> QED
        BY <4>1, <4>2
    <3> QED
      BY <3>1, <3>2
  <2>4. ASSUME NEW s \in Small(n) PROVE sum[s] = Sum(f, old, s)
    <3>1. CASE Cardinality(s) = n
      BY <3>1
    <3>2. CASE Cardinality(s) # n
      <4>1. s \in Small(n - 1)
        BY <1>2, <3>2
      <4> QED
        BY <2>1, <3>2, <4>1 DEF IsSum
    <3> QED
      BY <3>1, <3>2
  <2>5. sum = [s \in Small(n) |-> sum[s]]
    OBVIOUS
  <2> HIDE DEF sum
  <2>6. \A s \in Small(n) : sum[s] = Sum(f, sum, s)
    BY <2>3, <2>4
  <2>7. sum = [s \in Small(n) |-> Sum(f, sum, s)]
    BY <2>5, <2>6
  <2>8. IsSum(f, S, sum, n) /\ n \in Nat
    BY <2>7 DEF IsSum
  <2> QED
    BY <2>8
<1> HIDE DEF Sizes
<1>5. 0 .. Cardinality(S) \subseteq Sizes
  BY <1>1, <1>3, <1>4, UpTo
<1> QED
  BY <1>1, <1>5 DEF Sizes

LEMMA SumIsNatural ==
    ASSUME NEW S, IsFiniteSet(S), NEW f, \A x \in S : f[x] \in Nat
    PROVE  SumOf(f, S) \in Nat
<1> DEFINE sums == CHOOSE sum : sum = [s \in SUBSET S |-> Sum(f, sum, s)]
<1>1. /\ Cardinality(S) \in Nat
      /\ \A s \in SUBSET S : IsFiniteSet(s) /\ Cardinality(s) \in Nat /\ Cardinality(s) <= Cardinality(S)
      /\ \A s \in SUBSET S : Cardinality(s) = 0 <=> s = {}
  BY FS_CardinalityType, FS_Subset, FS_EmptySet
<1>2. {t \in SUBSET S : Cardinality(t) <= Cardinality(S)} = SUBSET S
  BY <1>1
<1>3. \E sum : sum = [s \in SUBSET S |-> Sum(f, sum, s)]
  <2>1. PICK sum : IsSum(f, S, sum, Cardinality(S))
    BY SumsExist
  <2>2. sum = [s \in SUBSET S |-> Sum(f, sum, s)]
    BY <1>2, <2>1 DEF IsSum
  <2> QED
    BY <2>2
<1>4. sums = [s \in SUBSET S |-> Sum(f, sums, s)]
  BY <1>3
<1>5. SumOf(f, S) = sums[S]
  BY DEF SumOf, MapThenSumSet, MapThenFoldSet, Sum
<1> HIDE DEF sums
<1> DEFINE Sizes == {n \in Nat : \A s \in SUBSET S : Cardinality(s) = n => sums[s] \in Nat}
<1>6. 0 \in Sizes
  BY <1>1, <1>4 DEF Sum
<1>7. ASSUME NEW n \in 1 .. Cardinality(S), n - 1 \in Sizes PROVE n \in Sizes
  <2>1. ASSUME NEW s \in SUBSET S, Cardinality(s) = n PROVE sums[s] \in Nat
    <3> DEFINE x == CHOOSE y \in s : TRUE
    <3>1. s # {}
      BY <1>1, <2>1
    <3>2. sums[s] = f[x] + sums[s \ {x}]
      <4>1. sums[s] = Sum(f, sums, s)
        BY <1>4
      <4> QED
        BY <3>1, <4>1 DEF Sum
    <3>3. x \in s
      BY <3>1
    <3> HIDE DEF x
    <3>4. s \ {x} \in SUBSET S /\ Cardinality(s \ {x}) = n - 1
      BY <1>1, <2>1, <3>3, FS_RemoveElement
    <3>5. sums[s \ {x}] \in Nat /\ f[x] \in Nat
      BY <1>7, <3>3, <3>4
    <3> QED
      BY <3>2, <3>5
  <2> QED
    BY <2>1
<1> HIDE DEF Sizes
<1>8. Cardinality(S) \in Sizes
  BY <1>1, <1>6, <1>7, UpTo
<1> QED
  BY <1>5, <1>8 DEF Sizes

\* So what the requests rank is scores, of single boards and of totals.
LEMMA TotalScored ==
    ASSUME Shape, NEW boards \in SUBSET ScoreBoards, IsFiniteSet(boards)
    PROVE  Total(boards) \in Scored
<1> SUFFICES ASSUME NEW p \in Players PROVE Total(boards)[p] \in Nat \cup {NoScore}
  BY DEF Total, Scored
<1> DEFINE scored == {b \in boards : score[b][p] # NoScore}
           f == [b \in scored |-> score[b][p]]
           Found(b) == score[b][p]
<1>1. IsFiniteSet(scored)
  BY FS_Subset
<1>2. \A b \in scored : f[b] \in Nat
  <2>1. \A b \in boards : score[b][p] \in Nat \cup {NoScore}
    BY PointsScored DEF Shape, Scored
  <2> QED
    BY <2>1
<1>3. SumOf(f, scored) \in Nat
  <2> HIDE DEF scored, f
  <2> QED
    BY <1>1, <1>2, SumIsNatural
<1>4. SumOf(f, scored) = MapThenSumSet(Found, scored)
  <2> HIDE DEF scored
  <2> QED
    BY DEF SumOf, MapThenSumSet, MapThenFoldSet
<1>5. Total(boards)[p] = IF scored = {} THEN NoScore ELSE MapThenSumSet(Found, scored)
  BY DEF Total
<1> QED
  BY <1>3, <1>4, <1>5

LEMMA BoardsScored ==
    ASSUME Shape, NEW board \in ScoreBoards \cup Totals
    PROVE  PointsOn(board) \in Scored
<1>1. CASE board = "total"
  <2>1. Songs \in SUBSET ScoreBoards /\ IsFiniteSet(Songs)
    BY SongsFinite DEF ScoreBoards
  <2> QED
    BY <1>1, <2>1, TotalScored DEF PointsOn
<1>2. CASE board = "rb3"
  <2>1. RB3Songs \in SUBSET ScoreBoards /\ IsFiniteSet(RB3Songs)
    BY SongsFinite, FS_Subset DEF ScoreBoards
  <2>2. "rb3" \notin {"total", "role"}
    OBVIOUS
  <2> QED
    BY <1>2, <2>1, <2>2, TotalScored DEF PointsOn
<1>3. CASE board \in ScoreBoards
  <2>1. PointsOn(board) = score[board]
    BY <1>3, LeaderboardsAssumption DEF PointsOn, Totals, TickerKeys
  <2> QED
    BY <1>3, <2>1, PointsScored DEF Shape
<1> QED
  BY <1>1, <1>2, <1>3 DEF Totals
------------------------------------------------------------------------------
(* The requests agree.                                                     *)

LEMMA AccWindowPositive == AccWindow \in Nat \ {0}
BY LeaderboardsAssumption

LEMMA Division ==
    ASSUME NEW n \in Nat, NEW size \in Nat \ {0}
    PROVE  /\ n \div size \in Nat
           /\ (n \div size) * size \in Nat
           /\ (n \div size) * size <= n
           /\ n < (n \div size) * size + size
           /\ n \div size <= n
<1>1. n \div size \in Nat /\ n % size \in 0 .. size - 1
  OBVIOUS
<1>2. n = size * (n \div size) + (n % size)
  OBVIOUS
<1>3. \A k \in Nat : k * size \in Nat /\ k <= k * size /\ k * size = size * k
  OBVIOUS
<1> DEFINE k == n \div size
           m == n % size
<1> HIDE DEF k, m
<1> QED
  BY <1>1, <1>2, <1>3 DEF k, m

\* acc_player: the page that begins at a multiple of its length has the player.
LEMMA AccPageHas ==
    ASSUME NEW points, NEW r \in Rankings(points, Players), NEW p \in Scorers(points, Players)
    PROVE  p \in Range(AccPage(r, p))
<1> DEFINE n == IndexOf(r, p)
           start == (n \div AccWindow) * AccWindow
<1>1. n \in Nat /\ n + 1 \in DOMAIN r /\ r[n + 1] = p
  BY IndexOfPlayer
<1> HIDE DEF n
<1>2. start \in Nat /\ start <= n /\ n < start + AccWindow /\ AccWindow \in Nat
  BY <1>1, Division, AccWindowPositive
<1>3. AccPage(r, p) = Rows(r, start, AccWindow)
  BY DEF AccPage, n
<1> HIDE DEF start
<1>4. n + 1 \in DOMAIN Rows(r, start, AccWindow) /\ Rows(r, start, AccWindow)[n + 1] = p
  BY <1>1, <1>2 DEF Rows, Restrict
<1> QED
  BY <1>3, <1>4 DEF Range

\* The requests for a range cut the same rows.
LEMMA RangesAgree ==
    ASSUME NEW r, NEW size \in Nat \ {0}
    PROVE  RankRanges(r, size) = RestPages(r, size) /\ AccRanges(r, size) = RestPages(r, size)
<1> SUFFICES ASSUME NEW page \in Pages
             PROVE  /\ RankRange(r, (page - 1) * size + 1, page * size) = RestPage(r, page, size)
                    /\ AccRange(r, (page - 1) * size + 1, page * size) = RestPage(r, page, size)
  BY DEF RankRanges, AccRanges, RestPages
<1> DEFINE k == (page - 1) * size
           last == page * size
<1>1. k \in Nat /\ last = k + size
  <2>1. page \in Nat \ {0}
    BY PlayersFinite, FS_CardinalityType DEF Pages
  <2> QED
    BY <2>1
<1> HIDE DEF k, last
<1>2. RankRange(r, k + 1, last) = Rows(r, k, size)
  <2>1. (k + 1) - 1 = k /\ last - (k + 1) + 1 = size
    BY <1>1
  <2> QED
    BY <2>1 DEF RankRange
<1>3. AccRange(r, k + 1, last) = Rows(r, k, size)
  <2>1. (k + 1) - 1 = k /\ ~(k < 0) /\ last - k = size
    BY <1>1
  <2> QED
    BY <2>1 DEF AccRange
<1>4. RestPage(r, page, size) = Rows(r, k, size)
  BY DEF RestPage, k
<1> QED
  BY <1>2, <1>3, <1>4 DEF k, last

\* Every row is on a page.
LEMMA AllRowsShown ==
    ASSUME NEW points, NEW r \in Rankings(points, Players), NEW size \in Nat \ {0}
    PROVE  ShowAll(RestPages(r, size), r)
<1> SUFFICES ASSUME NEW i \in DOMAIN r
             PROVE  \E page \in Pages :
                       LET shown == RestPage(r, page, size) IN i \in DOMAIN shown /\ shown[i] = r[i]
  BY DEF ShowAll, RestPages
<1> DEFINE N == Cardinality(Scorers(points, Players))
           n == i - 1
           k == n \div size
           start == k * size
<1>1. N \in Nat /\ DOMAIN r = 1 .. N
  BY RankingNumbers
<1>2. Scorers(points, Players) \in SUBSET Players
  BY DEF Scorers
<1>3. N <= Cardinality(Players) /\ Cardinality(Players) \in Nat
  BY <1>2, PlayersFinite, FS_Subset, FS_CardinalityType
<1> HIDE DEF N
<1>4. i \in 1 .. N /\ n \in Nat /\ i = n + 1
  BY <1>1
<1> HIDE DEF n
<1>5. k \in Nat /\ start \in Nat /\ start <= n /\ n < start + size /\ k <= n
  BY <1>4, Division
<1> HIDE DEF k, start
<1>6. k + 1 \in Pages
  BY <1>1, <1>3, <1>4, <1>5 DEF Pages
<1>7. RestPage(r, k + 1, size) = Rows(r, start, size)
  <2>1. (k + 1) - 1 = k
    BY <1>5
  <2> QED
    BY <2>1 DEF RestPage, start
<1>8. i \in DOMAIN Rows(r, start, size) /\ Rows(r, start, size)[i] = r[i]
  BY <1>4, <1>5 DEF Rows, Restrict
<1> QED
  BY <1>6, <1>7, <1>8

\* A board of scores: its last rank, its ranges, and the ranks of players.
LEMMA BoardAgreement ==
    ASSUME Shape, NEW board \in Songs \cup Battles \cup Totals,
           NEW r \in Rankings(PointsOn(board), Players)
    PROVE  /\ DOMAIN r = 1 .. MaxRank(board)
           /\ \A size \in 1 .. Window :
                 ShowAll(RankRanges(r, size), r) /\ RestPages(r, size) = RankRanges(r, size)
           /\ \A mine \in 0 .. MaxPoints, i \in DOMAIN r :
                 i < PlayerRank(board, mine) <=> PointsOn(board)[r[i]] > mine
<1> DEFINE points == PointsOn(board)
<1>1. points \in Scored
  BY BoardsScored DEF ScoreBoards
<1>2. MaxRank(board) = Cardinality(Scorers(points, Players))
  BY DEF MaxRank
<1>3. \A mine : PlayerRank(board, mine) = NumHigher(points, Players, mine) + 1
  BY DEF PlayerRank
<1> HIDE DEF points
<1>4. r \in Rankings(points, Players)
  BY DEF points
<1>5. DOMAIN r = 1 .. MaxRank(board) /\ MaxRank(board) \in Nat
  BY <1>2, <1>4, RankingNumbers
<1>6. ASSUME NEW size \in 1 .. Window
      PROVE  ShowAll(RankRanges(r, size), r) /\ RestPages(r, size) = RankRanges(r, size)
  <2>1. size \in Nat \ {0}
    BY WindowPositive
  <2> QED
    BY <1>4, <2>1, AllRowsShown, RangesAgree
<1>7. ASSUME NEW mine \in 0 .. MaxPoints, NEW i \in DOMAIN r
      PROVE  i < PlayerRank(board, mine) <=> points[r[i]] > mine
  <2> DEFINE n == NumHigher(points, Players, mine)
  <2>1. mine \in Nat
    BY LeaderboardsAssumption
  <2>2. n \in Nat /\ {k \in DOMAIN r : points[r[k]] > mine} = 1 .. n
    BY <1>1, <1>4, <2>1, HigherComeFirst
  <2>3. PlayerRank(board, mine) = n + 1
    BY <1>3
  <2> HIDE DEF n
  <2>4. i \in Nat /\ i >= 1 /\ (points[r[i]] > mine <=> i \in 1 .. n)
    BY <1>5, <2>2
  <2> QED
    BY <2>2, <2>3, <2>4
<1> QED
  BY <1>5, <1>6, <1>7 DEF points

\* A goal that the requests have a case for.
LEMMA GoalAgreement ==
    ASSUME NEW goal \in Served, NEW r \in Rankings(AccomplishmentField(goal), Players)
    PROVE  /\ \A size \in 1 .. Window : ShowAll(AccRanges(r, size), r)
           /\ \A p \in Scorers(score[goal], Players) : p \in Range(AccPage(r, p))
<1>1. AccomplishmentField(goal) = score[goal]
  BY DEF AccomplishmentField
<1>2. ASSUME NEW size \in 1 .. Window
      PROVE  ShowAll(AccRanges(r, size), r)
  <2>1. size \in Nat \ {0}
    BY WindowPositive
  <2> QED
    BY <2>1, AllRowsShown, RangesAgree
<1> QED
  BY <1>1, <1>2, AccPageHas

LEMMA ShapeAgreement ==
    ASSUME Shape
    PROVE  Agreement
<1>1. ASSUME NEW board \in Songs PROVE PointsOn(board) = score[board]
  BY LeaderboardsAssumption DEF PointsOn, Totals, TickerKeys, ScoreBoards
<1> QED
  BY <1>1, BoardAgreement, GoalAgreement DEF Agreement

\* Whatever the scores are, and however the database orders equal ones, the
\* requests for ranks, ranges and pages agree on every song, battle, total, and goal
\* that they have a case for.
THEOREM RanksAlwaysAgree == Spec => []Agreement /\ RanksAgree
<1>1. Shape /\ Shape' => (score' # score => Agreement /\ Agreement')
  <2>1. Shape => Agreement
    BY ShapeAgreement
  <2>2. Shape' => Agreement'
    BY <2>1, PTL
  <2> QED
    BY <2>1, <2>2
<1>2. Shape /\ [Next]_vars => [score' # score => Agreement /\ Agreement']_score
  BY <1>1, ShapeStep
<1>3. Shape => Agreement
  BY ShapeAgreement
<1> QED
  BY <1>2, <1>3, ShapeInvariant, PTL DEF Spec, RanksAgree
==============================================================================
