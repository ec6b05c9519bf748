----------------------------- MODULE Scores_proofs -----------------------------
(***************************************************************************)
(* Proofs about the scores collection: types, that the ID of a new battle  *)
(* is new, that scores get higher and that a player keeps a song score,    *)
(* for any players, bands, songs, goroutines and bounds.                   *)
(***************************************************************************)
EXTENDS Scores, SequenceTheorems, TLAPS

------------------------------------------------------------------------------
(* What the proofs use of the assumption.                                  *)

LEMMA Bounds ==
  /\ MaxBattles \in Nat
  /\ MaxScores \in Nat
  /\ SongPoints \subseteq Points /\ Points \subseteq Nat
  /\ Bannable \subseteq Players
  BY ScoresAssumption

LEMMA SongsAreNoBattles == \A song \in Songs : song \notin Int
  BY ScoresAssumption
------------------------------------------------------------------------------
(* The entries a call still has to record.                                 *)

Entries == Seq(Entry) \ {<<>>}

LEMMA RequestedEntries ==
  ASSUME NEW band \in Bands
  PROVE  /\ \A i \in 1 .. Len(band) : band[i] \in Players
         /\ \A entries \in [1 .. Len(band) -> Entry] : entries \in Entries
<1>1. band \in Seq(Players) /\ band # <<>>
  BY ScoresAssumption
<1>2. Len(band) \in Nat \ {0}
  BY <1>1, EmptySeq
<1>3. \A i \in 1 .. Len(band) : band[i] \in Players
  BY <1>1, ElementOfSeq
<1>4. ASSUME NEW entries \in [1 .. Len(band) -> Entry]
      PROVE  entries \in Entries
  <2>1. entries \in Seq(Entry)
    BY <1>2, SeqDef
  <2>2. entries # <<>>
    BY <1>2
  <2> QED
    BY <2>1, <2>2 DEF Entries
<1> QED
  BY <1>3, <1>4

LEMMA FirstAndRest ==
  ASSUME NEW todo \in Entries
  PROVE  /\ Len(todo) \in Nat \ {0}
         /\ Head(todo) = todo[1]
         /\ Head(todo) \in Entry
         /\ \A i \in 1 .. Len(todo) : todo[i] \in Entry
         /\ Len(todo) # 1 => /\ Tail(todo) \in Entries
                             /\ Len(Tail(todo)) = Len(todo) - 1
                             /\ \A i \in 1 .. Len(Tail(todo)) : Tail(todo)[i] = todo[i + 1]
<1>1. todo \in Seq(Entry) /\ todo # <<>>
  BY DEF Entries
<1>2. Len(todo) \in Nat \ {0}
  BY <1>1, EmptySeq
<1>3. /\ Head(todo) \in Entry
      /\ Tail(todo) \in Seq(Entry)
      /\ Len(Tail(todo)) = Len(todo) - 1
      /\ \A i \in 1 .. Len(Tail(todo)) : Tail(todo)[i] = todo[i + 1]
  BY <1>1, HeadTailProperties
<1>4. Head(todo) = todo[1]
  BY <1>1
<1>5. \A i \in 1 .. Len(todo) : todo[i] \in Entry
  BY <1>1, ElementOfSeq
<1>6. ASSUME Len(todo) # 1 PROVE Tail(todo) # <<>>
  BY <1>2, <1>3, <1>6, EmptySeq
<1> QED
  BY <1>2, <1>3, <1>4, <1>5, <1>6 DEF Entries
------------------------------------------------------------------------------
(* The records of calls and the states of housekeeping, told apart.        *)

Recording(r) == r.op \in {"find", "update", "overwrite", "insert"}

LEMMA CallRecordKinds ==
  ASSUME NEW r \in CallRecords
  PROVE  /\ Recording(r) => r.board \in Boards /\ r.todo \in Entries
         /\ r.op = "create" => r.id \in Battles /\ r.type \in {PlayerBattle, HarmonixBattle}
         /\ r.op = "delete scores" => r.id \in Battles
<1>1. CASE r = Idle
  BY <1>1 DEF Idle, Recording
<1>2. CASE r \in [op : {"find", "update", "overwrite", "insert"}, board : Boards, todo : Entries]
  BY <1>2 DEF Recording
<1>3. CASE r \in [op : {"create"}, id : Battles, type : {PlayerBattle, HarmonixBattle}]
  BY <1>3 DEF Recording
<1>4. CASE r \in [op : {"delete scores"}, id : Battles]
  BY <1>4 DEF Recording
<1> QED
  BY <1>1, <1>2, <1>3, <1>4 DEF CallRecords, Entries

LEMMA RecordingRecord ==
  ASSUME NEW op \in {"find", "update", "overwrite", "insert"}, NEW board \in Boards, NEW todo \in Entries
  PROVE  [op |-> op, board |-> board, todo |-> todo] \in CallRecords
  BY DEF CallRecords, Entries

\* The next stage of a call that records a score, and its next turn.
LEMMA RecordingGoesOn ==
  ASSUME NEW r \in CallRecords, Recording(r), NEW op \in {"find", "update", "overwrite", "insert"}
  PROVE  /\ [r EXCEPT !.op = op] \in CallRecords
         /\ [r EXCEPT !.op = op].op = op
         /\ [r EXCEPT !.op = op].board = r.board
         /\ [r EXCEPT !.op = op].todo = r.todo
         /\ Len(r.todo) # 1 =>
              LET next == [r EXCEPT !.op = "find", !.todo = Tail(@)] IN
              /\ next \in CallRecords
              /\ next.op = "find"
              /\ next.board = r.board
              /\ next.todo = Tail(r.todo)
<1>1. r \in [op : {"find", "update", "overwrite", "insert"}, board : Boards, todo : Entries]
  <2>1. r # Idle
    BY DEF Idle, Recording
  <2>2. r \notin [op : {"create"}, id : Battles, type : {PlayerBattle, HarmonixBattle}]
    BY DEF Recording
  <2>3. r \notin [op : {"delete scores"}, id : Battles]
    BY DEF Recording
  <2> QED
    BY <2>1, <2>2, <2>3 DEF CallRecords, Entries
<1>2. Len(r.todo) # 1 => Tail(r.todo) \in Entries
  BY <1>1, FirstAndRest
<1>3. /\ [r EXCEPT !.op = op] \in [op : {"find", "update", "overwrite", "insert"}, board : Boards, todo : Entries]
      /\ [r EXCEPT !.op = op].op = op
      /\ [r EXCEPT !.op = op].board = r.board
      /\ [r EXCEPT !.op = op].todo = r.todo
  BY <1>1
<1>4. Len(r.todo) # 1 =>
        LET next == [r EXCEPT !.op = "find", !.todo = Tail(@)] IN
        /\ next \in [op : {"find", "update", "overwrite", "insert"}, board : Boards, todo : Entries]
        /\ next.op = "find"
        /\ next.board = r.board
        /\ next.todo = Tail(r.todo)
  BY <1>1, <1>2
<1> QED
  BY <1>3, <1>4 DEF CallRecords, Entries

LEMMA HousekeepingKinds ==
  ASSUME NEW r \in HousekeepingStates
  PROVE  /\ r.task = "duplicates" => r.work \in SUBSET SUBSET (1 .. MaxScores)
         /\ r.task \in {"battles", "delete battle", "delete scores"} => r.work \in SUBSET Battles
         /\ r.task \in {"delete battle", "delete scores"} =>
              r \in [task : {"delete battle", "delete scores"}, work : SUBSET Battles, battle : Battles]
         /\ r.task = "banned" => r.work \in SUBSET Players
<1>1. CASE r \in [task : {"idle", "find battles"}, work : {{}}]
  BY <1>1
<1>2. CASE r \in [task : {"duplicates"}, work : SUBSET SUBSET (1 .. MaxScores)]
  BY <1>2
<1>3. CASE r \in [task : {"battles"}, work : SUBSET Battles]
  BY <1>3
<1>4. CASE r \in [task : {"delete battle", "delete scores"}, work : SUBSET Battles, battle : Battles]
  BY <1>4
<1>5. CASE r \in [task : {"banned"}, work : SUBSET Players]
  BY <1>5
<1> QED
  BY <1>1, <1>2, <1>3, <1>4, <1>5 DEF HousekeepingStates
------------------------------------------------------------------------------
(* What steps do to calls and to the collection.                           *)

\* The call of k goes on with next.
LEMMA CallContinues ==
  ASSUME call \in [Calls -> CallRecords], NEW k \in Calls, NEW next \in CallRecords, Continue(k, next)
  PROVE  /\ call' \in [Calls -> CallRecords]
         /\ call'[k] = next
         /\ \A m \in Calls \ {k} : call'[m] = call[m]
  BY DEF Continue

LEMMA IdleRecord == Idle \in CallRecords /\ Idle.op = "idle"
  BY DEF CallRecords, Idle

\* The call of k is over, or turns to the rest of its entries.
Advanced(k) ==
  /\ call' \in [Calls -> CallRecords]
  /\ \A m \in Calls \ {k} : call'[m] = call[m]
  /\ \/ call'[k].op = "idle"
     \/ /\ Len(call[k].todo) # 1
        /\ call'[k].op = "find"
        /\ call'[k].board = call[k].board
        /\ call'[k].todo = Tail(call[k].todo)

LEMMA NextEntryAdvances ==
  ASSUME call \in [Calls -> CallRecords], NEW k \in Calls, Recording(call[k]), NextEntry(k)
  PROVE  Advanced(k)
<1>1. CASE Len(call[k].todo) = 1
  BY <1>1, IdleRecord, CallContinues DEF NextEntry, Return, Advanced
<1>2. CASE Len(call[k].todo) # 1
  <2> DEFINE next == [call[k] EXCEPT !.op = "find", !.todo = Tail(@)]
  <2>1. /\ next \in CallRecords
        /\ next.op = "find"
        /\ next.board = call[k].board
        /\ next.todo = Tail(call[k].todo)
    BY <1>2, RecordingGoesOn
  <2>2. Continue(k, next)
    BY <1>2 DEF NextEntry
  <2> HIDE DEF next
  <2> QED
    BY <1>2, <2>1, <2>2, CallContinues DEF Advanced
<1> QED
  BY <1>1, <1>2

\* Documents are deleted and the others stay as they are.
Shrinks ==
  /\ DOMAIN scores' \subseteq DOMAIN scores
  /\ \A id \in DOMAIN scores' : scores'[id] = scores[id]

LEMMA DeleteManyShrinks ==
  ASSUME NEW ids, DeleteMany(ids)
  PROVE  Shrinks /\ DOMAIN scores' = DOMAIN scores \ ids
  BY DEF DeleteMany, KeptScores, Shrinks
------------------------------------------------------------------------------
(* Types.  A song score that is on its way to the collection has passed    *)
(* the check on its points, and an ID a battle will get was drawn.         *)

ScoresTyped ==
  /\ inserted \in 0 .. MaxScores
  /\ DOMAIN scores \subseteq 1 .. inserted
  /\ \A id \in DOMAIN scores : scores[id] \in Score

SetlistsTyped ==
  /\ lastSetlistID \in 0 .. MaxBattles
  /\ DOMAIN setlists \subseteq 1 .. lastSetlistID
  /\ \A b \in DOMAIN setlists :
       setlists[b] \in [type : {PlayerBattle, HarmonixBattle}, age : {Open, Closed, Forgotten}]

BansTyped == banned \subseteq Bannable /\ cachedBans \subseteq Bannable

Writing(r) == r.op \in {"update", "overwrite", "insert"}

Checked(r) == Writing(r) /\ r.board \in Songs => Head(r.todo).score > 0

Drawn(r, last) == r.op = "create" => r.id <= last

CallsTyped ==
  /\ call \in [Calls -> CallRecords]
  /\ \A k \in Calls : Checked(call[k]) /\ Drawn(call[k], lastSetlistID)

TypeInv ==
  /\ ScoresTyped
  /\ SetlistsTyped
  /\ BansTyped
  /\ CallsTyped
  /\ hk \in HousekeepingStates

LEMMA TypesAreTypes == TypeInv => TypeOK
  BY DEF TypeInv, TypeOK, ScoresTyped, SetlistsTyped, BansTyped, CallsTyped

LEMMA InitTyped == Init => TypeInv
<1> SUFFICES ASSUME Init PROVE TypeInv
  OBVIOUS
<1>1. ScoresTyped /\ SetlistsTyped /\ BansTyped
  BY Bounds DEF Init, ScoresTyped, SetlistsTyped, BansTyped
<1>2. CallsTyped
  BY IdleRecord DEF Init, CallsTyped, Checked, Drawn, Writing
<1>3. hk \in HousekeepingStates
  BY DEF Init, Waiting, HousekeepingStates
<1> QED
  BY <1>1, <1>2, <1>3 DEF TypeInv

LEMMA ShrinkingKeepsTypes ==
  ASSUME ScoresTyped, Shrinks, inserted' = inserted
  PROVE  ScoresTyped'
  BY DEF ScoresTyped, Shrinks

\* A call goes on with a record that is in order, and no ID is taken back.
LEMMA CallKeepsTypes ==
  ASSUME TypeInv, NEW k \in Calls, NEW next \in CallRecords, Continue(k, next),
         lastSetlistID' \in 0 .. MaxBattles, lastSetlistID <= lastSetlistID',
         Checked(next), Drawn(next, lastSetlistID')
  PROVE  CallsTyped'
<1>1. /\ call' \in [Calls -> CallRecords]
      /\ call'[k] = next
      /\ \A m \in Calls \ {k} : call'[m] = call[m]
  BY CallContinues DEF TypeInv, CallsTyped
<1>2. \A m \in Calls : Checked(call[m]) /\ Drawn(call[m], lastSetlistID)
  BY DEF TypeInv, CallsTyped
<1>3. ASSUME NEW m \in Calls, call[m].op = "create" PROVE call[m].id \in Nat
  <2>1. call[m] \in CallRecords
    BY DEF TypeInv, CallsTyped
  <2>2. call[m].id \in Battles
    BY <1>3, <2>1, CallRecordKinds
  <2> QED
    BY <2>2, Bounds DEF Battles
<1>4. lastSetlistID \in Nat /\ lastSetlistID' \in Nat
  BY Bounds DEF TypeInv, SetlistsTyped
<1>5. \A m \in Calls : Checked(call'[m])
  BY <1>1, <1>2
<1>6. \A m \in Calls : Drawn(call'[m], lastSetlistID')
  BY <1>1, <1>2, <1>3, <1>4 DEF Drawn
<1> QED
  BY <1>1, <1>5, <1>6 DEF CallsTyped

LEMMA ReturnKeepsTypes ==
  ASSUME TypeInv, NEW k \in Calls, Return(k), lastSetlistID' = lastSetlistID
  PROVE  CallsTyped'
<1>1. lastSetlistID \in 0 .. MaxBattles /\ lastSetlistID <= lastSetlistID'
  BY Bounds DEF TypeInv, SetlistsTyped
<1>2. Checked(Idle) /\ Drawn(Idle, lastSetlistID)
  BY IdleRecord DEF Checked, Drawn, Writing
<1> QED
  BY <1>1, <1>2, IdleRecord, CallKeepsTypes DEF Return

LEMMA NextEntryKeepsTypes ==
  ASSUME TypeInv, NEW k \in Calls, Recording(call[k]), NextEntry(k), lastSetlistID' = lastSetlistID
  PROVE  CallsTyped'
<1>1. Advanced(k)
  BY NextEntryAdvances DEF TypeInv, CallsTyped
<1>2. Checked(call'[k]) /\ Drawn(call'[k], lastSetlistID')
  BY <1>1 DEF Advanced, Checked, Drawn, Writing
<1> QED
  BY <1>1, <1>2 DEF Advanced, TypeInv, CallsTyped

LEMMA AcceptKeepsTypes ==
  ASSUME TypeInv, NEW k \in Calls, NEW board \in Boards, NEW entries \in Entries,
         Accept(k, board, entries), lastSetlistID' = lastSetlistID
  PROVE  CallsTyped'
<1> DEFINE next == [op |-> "find", board |-> board, todo |-> entries]
<1>1. next \in CallRecords
  BY RecordingRecord
<1>2. next.op = "find"
  OBVIOUS
<1>3. Continue(k, next)
  BY DEF Accept
<1> HIDE DEF next
<1>4. Checked(next) /\ Drawn(next, lastSetlistID)
  BY <1>2 DEF Checked, Drawn, Writing
<1>5. lastSetlistID \in 0 .. MaxBattles /\ lastSetlistID <= lastSetlistID'
  BY Bounds DEF TypeInv, SetlistsTyped
<1> QED
  BY <1>1, <1>3, <1>4, <1>5, CallKeepsTypes

\* A call takes the next of its steps with one entry.
LEMMA StageKeepsTypes ==
  ASSUME TypeInv, NEW k \in Calls, Recording(call[k]), NEW op \in {"update", "overwrite", "insert"},
         Continue(k, [call[k] EXCEPT !.op = op]), lastSetlistID' = lastSetlistID,
         call[k].board \in Songs => Head(call[k].todo).score > 0
  PROVE  CallsTyped'
<1> DEFINE next == [call[k] EXCEPT !.op = op]
<1>1. /\ next \in CallRecords
      /\ next.op = op
      /\ next.board = call[k].board
      /\ next.todo = call[k].todo
  <2>1. call[k] \in CallRecords /\ op \in {"find", "update", "overwrite", "insert"}
    BY DEF TypeInv, CallsTyped
  <2> QED
    BY <2>1, RecordingGoesOn
<1> HIDE DEF next
<1>2. Checked(next) /\ Drawn(next, lastSetlistID)
  BY <1>1 DEF Checked, Drawn, Writing
<1>3. lastSetlistID \in 0 .. MaxBattles /\ lastSetlistID <= lastSetlistID'
  BY Bounds DEF TypeInv, SetlistsTyped
<1> QED
  BY <1>1, <1>2, <1>3, CallKeepsTypes DEF next

\* What is known of a call that records a score.
LEMMA CallOfEntries ==
  ASSUME call \in [Calls -> CallRecords], NEW k \in Calls, Recording(call[k])
  PROVE  /\ call[k].board \in Boards
         /\ call[k].todo \in Entries
         /\ Head(call[k].todo) \in Entry
         /\ Head(call[k].todo).pid \in Players
         /\ Head(call[k].todo).score \in Points
         /\ Head(call[k].todo).score \in Nat
<1>1. call[k].board \in Boards /\ call[k].todo \in Entries
  BY CallRecordKinds
<1>2. Head(call[k].todo) \in Entry
  BY <1>1, FirstAndRest
<1> QED
  BY <1>1, <1>2, Bounds DEF Entry

\* The entries of a request are accepted.
LEMMA OneSongRequest ==
  ASSUME NEW k \in Calls, NEW band \in Bands, NEW song \in Songs, RecordSong(k, song, band)
  PROVE  \E entries \in Entries : Accept(k, song, entries)
<1>1. PICK points \in [1 .. Len(band) -> SongPoints] :
        Accept(k, song, [i \in 1 .. Len(band) |-> [pid |-> band[i], score |-> points[i]]])
  BY DEF RecordSong
<1> DEFINE entries == [i \in 1 .. Len(band) |-> [pid |-> band[i], score |-> points[i]]]
<1>2. entries \in [1 .. Len(band) -> Entry]
  BY Bounds, RequestedEntries DEF Entry
<1>3. entries \in Entries
  BY <1>2, RequestedEntries
<1> QED
  BY <1>1, <1>3

LEMMA OneBattleRequest ==
  ASSUME NEW k \in Calls, NEW band \in Bands, NEW b \in Battles, RecordBattle(k, b, band)
  PROVE  \E entries \in Entries : Accept(k, b, entries)
<1>1. PICK points \in Points :
        Accept(k, b, [i \in 1 .. Len(band) |-> [pid |-> band[i], score |-> points]])
  BY DEF RecordBattle
<1> DEFINE entries == [i \in 1 .. Len(band) |-> [pid |-> band[i], score |-> points]]
<1>2. entries \in [1 .. Len(band) -> Entry]
  BY RequestedEntries DEF Entry
<1>3. entries \in Entries
  BY <1>2, RequestedEntries
<1> QED
  BY <1>1, <1>3

LEMMA RequestKeepsTypes ==
  ASSUME TypeInv, NEW k \in Calls, NEW band \in Bands,
         \/ \E song \in Songs : RecordSong(k, song, band)
         \/ \E b \in Battles : RecordBattle(k, b, band)
  PROVE  TypeInv'
<1>1. UNCHANGED <<collections, bans, hk>>
  BY DEF RecordSong, RecordBattle
<1>2. CallsTyped'
  <2>1. PICK board \in Boards, entries \in Entries : Accept(k, board, entries)
    BY OneSongRequest, OneBattleRequest DEF Boards
  <2> QED
    BY <1>1, <2>1, AcceptKeepsTypes DEF collections
<1> QED
  BY <1>1, <1>2 DEF TypeInv, ScoresTyped, SetlistsTyped, BansTyped, collections, bans

LEMMA FindKeepsTypes ==
  ASSUME TypeInv, NEW k \in Calls, FindScore(k)
  PROVE  TypeInv'
<1>1. Recording(call[k]) /\ call \in [Calls -> CallRecords]
  BY DEF FindScore, Recording, TypeInv, CallsTyped
<1>2. UNCHANGED <<collections, bans, hk>>
  BY DEF FindScore
<1>3. Head(call[k].todo).score \in Nat
  BY <1>1, CallOfEntries
<1>4. CallsTyped'
  <2>1. CASE NextEntry(k)
    BY <1>1, <1>2, <2>1, NextEntryKeepsTypes DEF collections
  <2>2. CASE /\ Continue(k, [call[k] EXCEPT !.op = "update"])
             /\ ~(call[k].board \in Songs /\ Head(call[k].todo).score <= 0)
    <3>1. call[k].board \in Songs => Head(call[k].todo).score > 0
      BY <1>3, <2>2
    <3> QED
      BY <1>1, <1>2, <2>2, <3>1, StageKeepsTypes DEF collections
  <2> QED
    BY <2>1, <2>2 DEF FindScore
<1> QED
  BY <1>2, <1>4 DEF TypeInv, ScoresTyped, SetlistsTyped, BansTyped, collections, bans

LEMMA FailedFindKeepsTypes ==
  ASSUME TypeInv, NEW k \in Calls, FindScoreFails(k)
  PROVE  TypeInv'
<1>1. Recording(call[k]) /\ call \in [Calls -> CallRecords]
  BY DEF FindScoreFails, Recording, TypeInv, CallsTyped
<1>2. UNCHANGED <<collections, bans, hk>>
  BY DEF FindScoreFails
<1>3. CallsTyped'
  BY <1>1, <1>2, StageKeepsTypes DEF FindScoreFails, collections
<1> QED
  BY <1>2, <1>3 DEF TypeInv, ScoresTyped, SetlistsTyped, BansTyped, collections, bans

LEMMA UpdateKeepsTypes ==
  ASSUME TypeInv, NEW k \in Calls, UpdateScore(k)
  PROVE  TypeInv'
<1>1. Recording(call[k]) /\ call \in [Calls -> CallRecords] /\ Checked(call[k])
  BY DEF UpdateScore, Recording, TypeInv, CallsTyped
<1>2. UNCHANGED <<inserted, setlists, lastSetlistID, bans, hk>>
  BY DEF UpdateScore
<1>3. CallsTyped'
  BY <1>1, <1>2, NextEntryKeepsTypes DEF UpdateScore
<1>4. ScoresTyped'
  <2> DEFINE points == Head(call[k].todo).score
  <2>1. PICK id \in Matching(Head(call[k].todo).pid, call[k].board) :
          scores' = [scores EXCEPT ![id].score = points]
    BY DEF UpdateScore
  <2>2. id \in DOMAIN scores /\ scores[id].board = call[k].board
    BY <2>1 DEF Matching
  <2>3. points \in Points /\ (call[k].board \in Songs => points > 0)
    BY <1>1, CallOfEntries DEF UpdateScore, Checked, Writing
  <2> HIDE DEF points
  <2>4. [scores[id] EXCEPT !.score = points] \in Score
    BY <2>2, <2>3 DEF TypeInv, ScoresTyped, Score
  <2> QED
    BY <1>2, <2>1, <2>2, <2>4 DEF TypeInv, ScoresTyped
<1> QED
  BY <1>2, <1>3, <1>4 DEF TypeInv, SetlistsTyped, BansTyped, bans

LEMMA UpsertKeepsTypes ==
  ASSUME TypeInv, NEW k \in Calls, UpsertMisses(k) \/ UpsertInserts(k)
  PROVE  TypeInv'
<1>1. Recording(call[k]) /\ call \in [Calls -> CallRecords] /\ Checked(call[k])
  BY DEF UpsertMisses, UpsertInserts, Recording, TypeInv, CallsTyped
<1>2. CASE UpsertMisses(k)
  <2>1. CallsTyped'
    <3>1. call[k].board \in Songs => Head(call[k].todo).score > 0
      BY <1>1, <1>2 DEF UpsertMisses, Checked, Writing
    <3> QED
      BY <1>1, <1>2, <3>1, StageKeepsTypes DEF UpsertMisses, collections
  <2> QED
    BY <1>2, <2>1 DEF UpsertMisses, TypeInv, ScoresTyped, SetlistsTyped, BansTyped, collections, bans
<1>3. CASE UpsertInserts(k)
  <2>1. CallsTyped'
    BY <1>1, <1>3, NextEntryKeepsTypes DEF UpsertInserts
  <2> DEFINE entry == Head(call[k].todo)
             doc == [pid |-> entry.pid, board |-> call[k].board, score |-> entry.score]
  <2>2. doc \in Score
    <3>1. /\ entry.pid \in Players
          /\ entry.score \in Points
          /\ call[k].board \in Boards
          /\ call[k].board \in Songs => entry.score > 0
      BY <1>1, <1>3, CallOfEntries DEF UpsertInserts, Checked, Writing
    <3> HIDE DEF entry
    <3> QED
      BY <3>1 DEF Score
  <2>3. ScoresTyped'
    <3>1. /\ inserted' = inserted + 1
          /\ inserted < MaxScores
          /\ scores' = [id \in DOMAIN scores \cup {inserted'} |->
                          IF id = inserted' THEN doc ELSE scores[id]]
      BY <1>3 DEF UpsertInserts
    <3> HIDE DEF doc
    <3>2. /\ inserted' \in 0 .. MaxScores
          /\ DOMAIN scores' \subseteq 1 .. inserted'
      BY <3>1, Bounds DEF TypeInv, ScoresTyped
    <3>3. \A id \in DOMAIN scores' : scores'[id] \in Score
      BY <3>1, <2>2 DEF TypeInv, ScoresTyped
    <3> QED
      BY <3>2, <3>3 DEF ScoresTyped
  <2> QED
    BY <1>3, <2>1, <2>3 DEF UpsertInserts, TypeInv, SetlistsTyped, BansTyped, bans
<1> QED
  BY <1>2, <1>3

LEMMA CreationKeepsTypes ==
  ASSUME TypeInv, NEW k \in Calls,
         \/ \E type \in {PlayerBattle, HarmonixBattle} : GetNextSetlistID(k, type)
         \/ InsertBattle(k)
  PROVE  TypeInv'
<1>1. lastSetlistID \in 0 .. MaxBattles /\ lastSetlistID \in Nat
  BY Bounds DEF TypeInv, SetlistsTyped
<1>2. ASSUME NEW type \in {PlayerBattle, HarmonixBattle}, GetNextSetlistID(k, type)
      PROVE  TypeInv'
  <2>1. lastSetlistID' = lastSetlistID + 1 /\ lastSetlistID' \in Battles
    BY <1>1, <1>2, Bounds DEF GetNextSetlistID, Battles
  <2> DEFINE next == [op |-> "create", id |-> lastSetlistID', type |-> type]
  <2>2. /\ next \in CallRecords
        /\ next.op = "create"
        /\ next.id = lastSetlistID'
    BY <2>1 DEF CallRecords
  <2>3. Continue(k, next)
    BY <1>2 DEF GetNextSetlistID
  <2> HIDE DEF next
  <2>4. lastSetlistID' \in 0 .. MaxBattles /\ lastSetlistID <= lastSetlistID'
    BY <1>1, <2>1, Bounds DEF Battles
  <2>5. Checked(next) /\ Drawn(next, lastSetlistID')
    BY <2>2, <2>4 DEF Checked, Drawn, Writing
  <2>6. CallsTyped'
    BY <2>2, <2>3, <2>4, <2>5, CallKeepsTypes
  <2>7. SetlistsTyped'
    BY <1>1, <1>2, <2>1, <2>4, Bounds DEF GetNextSetlistID, TypeInv, SetlistsTyped
  <2> QED
    BY <1>2, <2>6, <2>7 DEF GetNextSetlistID, TypeInv, ScoresTyped, BansTyped, bans
<1>3. CASE InsertBattle(k)
  <2>1. call[k] \in CallRecords /\ call[k].op = "create" /\ Drawn(call[k], lastSetlistID)
    BY <1>3 DEF InsertBattle, TypeInv, CallsTyped
  <2>2. call[k].id \in Battles /\ call[k].type \in {PlayerBattle, HarmonixBattle}
    BY <2>1, CallRecordKinds
  <2>3. call[k].id \in 1 .. lastSetlistID
    BY <1>1, <2>1, <2>2, Bounds DEF Drawn, Battles
  <2> DEFINE battle == [type |-> call[k].type, age |-> Open]
  <2>4. battle \in [type : {PlayerBattle, HarmonixBattle}, age : {Open, Closed, Forgotten}]
    BY <2>2
  <2>5. setlists' = [b \in DOMAIN setlists \cup {call[k].id} |->
                       IF b = call[k].id THEN battle ELSE setlists[b]]
    BY <1>3 DEF InsertBattle
  <2>6. lastSetlistID' = lastSetlistID
    BY <1>3 DEF InsertBattle
  <2> HIDE DEF battle
  <2>7. SetlistsTyped'
    BY <2>3, <2>4, <2>5, <2>6 DEF TypeInv, SetlistsTyped
  <2>8. CallsTyped'
    BY <1>3, <2>6, ReturnKeepsTypes DEF InsertBattle
  <2> QED
    BY <1>3, <2>7, <2>8 DEF InsertBattle, TypeInv, ScoresTyped, BansTyped, bans
<1> QED
  BY <1>2, <1>3

LEMMA DeletionKeepsTypes ==
  ASSUME TypeInv, NEW k \in Calls,
         DeleteBattleScores(k) \/ \E b \in Battles : DeleteBattle(k, b)
  PROVE  TypeInv'
<1>1. ASSUME NEW b \in Battles, DeleteBattle(k, b)
      PROVE  TypeInv'
  <2> DEFINE next == [op |-> "delete scores", id |-> b]
  <2>1. next \in CallRecords /\ next.op = "delete scores"
    BY DEF CallRecords
  <2>2. Continue(k, next)
    BY <1>1 DEF DeleteBattle
  <2> HIDE DEF next
  <2>3. Checked(next) /\ Drawn(next, lastSetlistID)
    BY <2>1 DEF Checked, Drawn, Writing
  <2>4. lastSetlistID \in 0 .. MaxBattles /\ lastSetlistID' = lastSetlistID /\ lastSetlistID <= lastSetlistID'
    <3>1. lastSetlistID' = lastSetlistID
      BY <1>1 DEF DeleteBattle
    <3> QED
      BY <3>1, Bounds DEF TypeInv, SetlistsTyped
  <2>5. CallsTyped'
    BY <2>1, <2>2, <2>3, <2>4, CallKeepsTypes
  <2>6. SetlistsTyped'
    BY <1>1 DEF DeleteBattle, TypeInv, SetlistsTyped
  <2> QED
    BY <1>1, <2>5, <2>6 DEF DeleteBattle, TypeInv, ScoresTyped, BansTyped, bans
<1>2. CASE DeleteBattleScores(k)
  <2>1. CallsTyped'
    BY <1>2, ReturnKeepsTypes DEF DeleteBattleScores
  <2>2. ScoresTyped'
    BY <1>2, DeleteManyShrinks, ShrinkingKeepsTypes DEF DeleteBattleScores, TypeInv
  <2> QED
    BY <1>2, <2>1, <2>2 DEF DeleteBattleScores, TypeInv, SetlistsTyped, BansTyped, bans
<1> QED
  BY <1>1, <1>2

LEMMA AgeKeepsTypes ==
  ASSUME TypeInv, NEW b \in Battles, AgeBattle(b)
  PROVE  TypeInv'
<1>1. [setlists[b] EXCEPT !.age = @ + 1] \in
        [type : {PlayerBattle, HarmonixBattle}, age : {Open, Closed, Forgotten}]
  <2>1. setlists[b] \in [type : {PlayerBattle, HarmonixBattle}, age : {Open, Closed, Forgotten}]
    BY DEF AgeBattle, TypeInv, SetlistsTyped
  <2>2. setlists[b].age + 1 \in {Open, Closed, Forgotten}
    BY <2>1 DEF AgeBattle, Open, Closed, Forgotten
  <2> QED
    BY <2>1, <2>2
<1>2. SetlistsTyped'
  <2>1. setlists' = [setlists EXCEPT ![b] = [setlists[b] EXCEPT !.age = @ + 1]]
    BY DEF AgeBattle
  <2> QED
    BY <1>1, <2>1 DEF AgeBattle, TypeInv, SetlistsTyped
<1>3. CallsTyped'
  BY DEF AgeBattle, TypeInv, CallsTyped
<1> QED
  BY <1>2, <1>3 DEF AgeBattle, TypeInv, ScoresTyped, BansTyped, bans

LEMMA AdministrationKeepsTypes ==
  ASSUME TypeInv, Administer \/ RefillConfigCache
  PROVE  TypeInv'
<1>1. ASSUME NEW p \in Bannable, Ban(p) \/ Unban(p)
      PROVE  TypeInv'
  <2>1. BansTyped'
    BY <1>1 DEF Ban, Unban, TypeInv, BansTyped
  <2> QED
    BY <1>1, <2>1 DEF Ban, Unban, TypeInv, ScoresTyped, SetlistsTyped, CallsTyped, collections
<1>2. ASSUME NEW p \in Players, DeletePlayerScores(p)
      PROVE  TypeInv'
  <2>1. ScoresTyped'
    BY <1>2, DeleteManyShrinks, ShrinkingKeepsTypes DEF DeletePlayerScores, TypeInv
  <2> QED
    BY <1>2, <2>1 DEF DeletePlayerScores, TypeInv, SetlistsTyped, BansTyped, CallsTyped, bans
<1>3. CASE RefillConfigCache
  BY <1>3 DEF RefillConfigCache, TypeInv, ScoresTyped, SetlistsTyped, BansTyped, CallsTyped, collections
<1> QED
  BY <1>1, <1>2, <1>3 DEF Administer

\* A task of housekeeping goes on, and some documents may be gone.
LEMMA TaskKeepsTypes ==
  ASSUME TypeInv, hk' \in HousekeepingStates, scores' = scores \/ \E ids : DeleteMany(ids),
         UNCHANGED <<inserted, setlists, lastSetlistID, bans, call>>
  PROVE  TypeInv'
<1>1. ScoresTyped'
  <2>1. CASE scores' = scores
    BY <2>1 DEF TypeInv, ScoresTyped
  <2>2. CASE \E ids : DeleteMany(ids)
    BY <2>2, DeleteManyShrinks, ShrinkingKeepsTypes DEF TypeInv
  <2> QED
    BY <2>1, <2>2
<1> QED
  BY <1>1 DEF TypeInv, SetlistsTyped, BansTyped, CallsTyped, bans

LEMMA DuplicateTasksKeepTypes ==
  ASSUME TypeInv, AggregateDuplicates \/ DeleteDuplicates \/ CleanupInvalidScores
  PROVE  TypeInv'
<1>1. CASE AggregateDuplicates
  <2> DEFINE groups == {Duplicates(id) :
                          id \in {i \in DOMAIN scores : ~\E j \in DOMAIN scores : j > i /\ Same(i, j)}}
                       \ {{}}
  <2>1. groups \in SUBSET SUBSET (1 .. MaxScores)
    <3>1. DOMAIN scores \subseteq 1 .. MaxScores
      BY Bounds DEF TypeInv, ScoresTyped
    <3>2. \A id : Duplicates(id) \subseteq DOMAIN scores
      BY DEF Duplicates
    <3> QED
      BY <3>1, <3>2
  <2>2. hk' = [task |-> "duplicates", work |-> groups]
    BY <1>1 DEF AggregateDuplicates, Goto
  <2> HIDE DEF groups
  <2>3. hk' \in HousekeepingStates
    BY <2>1, <2>2 DEF HousekeepingStates
  <2> QED
    BY <1>1, <2>3, TaskKeepsTypes DEF AggregateDuplicates, collections
<1>2. CASE DeleteDuplicates
  <2>1. hk.work \in SUBSET SUBSET (1 .. MaxScores)
    BY <1>2, HousekeepingKinds DEF DeleteDuplicates, At, TypeInv
  <2>2. PICK group \in hk.work : DeleteMany(group) /\ hk' = [task |-> "duplicates", work |-> hk.work \ {group}]
    BY <1>2 DEF DeleteDuplicates, Goto
  <2>3. hk' \in HousekeepingStates
    BY <2>1, <2>2 DEF HousekeepingStates
  <2> QED
    BY <1>2, <2>2, <2>3, TaskKeepsTypes DEF DeleteDuplicates
<1>3. CASE CleanupInvalidScores
  <2>1. hk' \in HousekeepingStates
    BY <1>3 DEF CleanupInvalidScores, Goto, HousekeepingStates
  <2> QED
    BY <1>3, <2>1, TaskKeepsTypes DEF CleanupInvalidScores
<1> QED
  BY <1>1, <1>2, <1>3

LEMMA BattleTasksKeepTypes ==
  ASSUME TypeInv, FindBattles \/ ExamineBattle \/ DeleteExpiredBattle \/ DeleteExpiredBattleScores
  PROVE  TypeInv'
<1>1. CASE FindBattles
  <2>1. DOMAIN setlists \subseteq Battles
    BY Bounds DEF TypeInv, SetlistsTyped, Battles
  <2>2. hk' \in HousekeepingStates
    BY <1>1, <2>1 DEF FindBattles, Goto, HousekeepingStates
  <2> QED
    BY <1>1, <2>2, TaskKeepsTypes DEF FindBattles, collections
<1>2. CASE ExamineBattle
  <2>1. hk.work \in SUBSET Battles
    BY <1>2, HousekeepingKinds DEF ExamineBattle, At, TypeInv
  <2>2. PICK b \in hk.work :
          \/ hk' = [task |-> "delete battle", work |-> hk.work, battle |-> b]
          \/ hk' = [task |-> "battles", work |-> hk.work \ {b}]
    BY <1>2 DEF ExamineBattle, Goto
  <2>3. \/ hk' \in [task : {"delete battle", "delete scores"}, work : SUBSET Battles, battle : Battles]
        \/ hk' \in [task : {"battles"}, work : SUBSET Battles]
    <3>1. b \in Battles /\ hk.work \ {b} \in SUBSET Battles
      BY <2>1
    <3>2. CASE hk' = [task |-> "delete battle", work |-> hk.work, battle |-> b]
      BY <2>1, <3>1, <3>2
    <3>3. CASE hk' = [task |-> "battles", work |-> hk.work \ {b}]
      BY <3>1, <3>3
    <3> QED
      BY <2>2, <3>2, <3>3
  <2>4. hk' \in HousekeepingStates
    BY <2>3 DEF HousekeepingStates
  <2> QED
    BY <1>2, <2>4, TaskKeepsTypes DEF ExamineBattle, collections
<1>3. CASE DeleteExpiredBattle
  <2>1. hk \in [task : {"delete battle", "delete scores"}, work : SUBSET Battles, battle : Battles]
    BY <1>3, HousekeepingKinds DEF DeleteExpiredBattle, At, TypeInv
  <2>2. hk' \in [task : {"delete battle", "delete scores"}, work : SUBSET Battles, battle : Battles]
    BY <1>3, <2>1 DEF DeleteExpiredBattle
  <2>3. hk' \in HousekeepingStates
    BY <2>2 DEF HousekeepingStates
  <2>4. SetlistsTyped'
    BY <1>3 DEF DeleteExpiredBattle, TypeInv, SetlistsTyped
  <2> QED
    BY <1>3, <2>3, <2>4 DEF DeleteExpiredBattle, TypeInv, ScoresTyped, BansTyped, CallsTyped, bans
<1>4. CASE DeleteExpiredBattleScores
  <2>1. hk.work \in SUBSET Battles
    BY <1>4, HousekeepingKinds DEF DeleteExpiredBattleScores, At, TypeInv
  <2>2. hk' \in HousekeepingStates
    BY <1>4, <2>1 DEF DeleteExpiredBattleScores, Goto, HousekeepingStates
  <2> QED
    BY <1>4, <2>2, TaskKeepsTypes DEF DeleteExpiredBattleScores
<1> QED
  BY <1>1, <1>2, <1>3, <1>4

LEMMA BanTasksKeepTypes ==
  ASSUME TypeInv, ReadBans \/ CleanupBannedUserScores \/ Sleep
  PROVE  TypeInv'
<1>1. CASE ReadBans
  <2>1. hk' \in HousekeepingStates
    BY <1>1, Bounds DEF ReadBans, Goto, HousekeepingStates, TypeInv, BansTyped
  <2> QED
    BY <1>1, <2>1, TaskKeepsTypes DEF ReadBans, collections
<1>2. CASE CleanupBannedUserScores
  <2>1. hk.work \in SUBSET Players
    BY <1>2, HousekeepingKinds DEF CleanupBannedUserScores, At, TypeInv
  <2>2. PICK p \in hk.work :
          /\ DeleteMany({id \in DOMAIN scores : scores[id].pid = p})
          /\ hk' = [task |-> "banned", work |-> hk.work \ {p}]
    BY <1>2 DEF CleanupBannedUserScores, Goto
  <2>3. hk' \in HousekeepingStates
    BY <2>1, <2>2 DEF HousekeepingStates
  <2> QED
    BY <1>2, <2>2, <2>3, TaskKeepsTypes DEF CleanupBannedUserScores
<1>3. CASE Sleep
  <2>1. hk' \in HousekeepingStates
    BY <1>3 DEF Sleep, Waiting, HousekeepingStates
  <2> QED
    BY <1>3, <2>1, TaskKeepsTypes DEF Sleep, collections
<1> QED
  BY <1>1, <1>2, <1>3

LEMMA NextKeepsTypes ==
  ASSUME TypeInv, [Next]_vars
  PROVE  TypeInv'
<1>1. ASSUME NEW k \in Calls, Record(k)
      PROVE  TypeInv'
  BY <1>1, RequestKeepsTypes, FindKeepsTypes, FailedFindKeepsTypes, UpdateKeepsTypes, UpsertKeepsTypes
  DEF Record
<1>2. ASSUME NEW k \in Calls, Battle(k)
      PROVE  TypeInv'
  BY <1>2, CreationKeepsTypes, DeletionKeepsTypes DEF Battle
<1>3. CASE Housekeeping
  BY <1>3, DuplicateTasksKeepTypes, BattleTasksKeepTypes, BanTasksKeepTypes DEF Housekeeping
<1>4. CASE UNCHANGED vars
  BY <1>4 DEF vars, collections, bans, TypeInv, ScoresTyped, SetlistsTyped, BansTyped, CallsTyped
<1> QED
  BY <1>1, <1>2, <1>3, <1>4, AgeKeepsTypes, AdministrationKeepsTypes DEF Next

LEMMA TypesInvariant == Spec => []TypeInv
  BY InitTyped, NextKeepsTypes, PTL DEF Spec

\* Every variable has its type; so no song score that the sanity checks reject
\* (record.go:126) is ever stored, though it is looked up in between.
THEOREM TypeCorrect == Spec => []TypeOK
  BY TypesInvariant, TypesAreTypes, PTL
------------------------------------------------------------------------------
(* The kinds of steps.                                                     *)

\* A step that records nothing and makes no battle: documents and battles may be
\* deleted, and calls may end.
Quiet ==
  /\ Shrinks
  /\ \A m \in Calls : call'[m] = call[m] \/ call'[m].op \in {"idle", "delete scores"}
  /\ lastSetlistID' = lastSetlistID
  /\ DOMAIN setlists' \subseteq DOMAIN setlists

Requests(k) ==
  \E band \in Bands :
    \/ \E song \in Songs : RecordSong(k, song, band)
    \/ \E b \in Battles : RecordBattle(k, b, band)

LEMMA UnchangedShrinks == scores' = scores => Shrinks
  BY DEF Shrinks

LEMMA HousekeepingIsQuiet ==
  ASSUME Housekeeping
  PROVE  Quiet
<1>1. lastSetlistID' = lastSetlistID /\ call' = call
  BY DEF Housekeeping, AggregateDuplicates, DeleteDuplicates, CleanupInvalidScores, FindBattles,
         ExamineBattle, DeleteExpiredBattle, DeleteExpiredBattleScores, ReadBans,
         CleanupBannedUserScores, Sleep, collections
<1>2. DOMAIN setlists' \subseteq DOMAIN setlists
  <2>1. CASE DeleteExpiredBattle
    BY <2>1 DEF DeleteExpiredBattle
  <2>2. CASE ~DeleteExpiredBattle
    <3>1. setlists' = setlists
      BY <2>2 DEF Housekeeping, AggregateDuplicates, DeleteDuplicates, CleanupInvalidScores, FindBattles,
             ExamineBattle, DeleteExpiredBattleScores, ReadBans, CleanupBannedUserScores, Sleep,
             collections
    <3> QED
      BY <3>1
  <2> QED
    BY <2>1, <2>2
<1>3. scores' = scores \/ \E ids : DeleteMany(ids)
  BY DEF Housekeeping, AggregateDuplicates, DeleteDuplicates, CleanupInvalidScores, FindBattles,
         ExamineBattle, DeleteExpiredBattle, DeleteExpiredBattleScores, ReadBans,
         CleanupBannedUserScores, Sleep, collections
<1>4. Shrinks
  BY <1>3, UnchangedShrinks, DeleteManyShrinks
<1> QED
  BY <1>1, <1>2, <1>4 DEF Quiet

LEMMA StepKinds ==
  ASSUME TypeInv, [Next]_vars
  PROVE  \/ Quiet
         \/ \E k \in Calls :
              \/ Requests(k)
              \/ FindScore(k) \/ FindScoreFails(k)
              \/ UpdateScore(k) \/ UpsertMisses(k) \/ UpsertInserts(k)
              \/ \E type \in {PlayerBattle, HarmonixBattle} : GetNextSetlistID(k, type)
              \/ InsertBattle(k)
<1>1. ASSUME NEW k \in Calls, NEW b \in Battles, DeleteBattle(k, b)
      PROVE  Quiet
  <2> DEFINE next == [op |-> "delete scores", id |-> b]
  <2>1. next \in CallRecords /\ next.op = "delete scores"
    BY DEF CallRecords
  <2>2. Continue(k, next)
    BY <1>1 DEF DeleteBattle
  <2> HIDE DEF next
  <2>3. \A m \in Calls : call'[m] = call[m] \/ call'[m].op \in {"idle", "delete scores"}
    BY <2>1, <2>2, CallContinues DEF TypeInv, CallsTyped
  <2> QED
    BY <1>1, <2>3, UnchangedShrinks DEF DeleteBattle, Quiet
<1>2. ASSUME NEW k \in Calls, DeleteBattleScores(k)
      PROVE  Quiet
  <2>1. \A m \in Calls : call'[m] = call[m] \/ call'[m].op \in {"idle", "delete scores"}
    BY <1>2, IdleRecord, CallContinues DEF DeleteBattleScores, Return, TypeInv, CallsTyped
  <2> QED
    BY <1>2, <2>1, DeleteManyShrinks DEF DeleteBattleScores, Quiet
<1>3. ASSUME NEW b \in Battles, AgeBattle(b)
      PROVE  Quiet
  <2>1. DOMAIN setlists' = DOMAIN setlists
    BY <1>3 DEF AgeBattle
  <2> QED
    BY <1>3, <2>1, UnchangedShrinks DEF AgeBattle, Quiet
<1>4. CASE Administer
  BY <1>4, UnchangedShrinks, DeleteManyShrinks
  DEF Administer, Ban, Unban, DeletePlayerScores, Quiet, collections
<1>5. CASE RefillConfigCache \/ UNCHANGED vars
  BY <1>5, UnchangedShrinks DEF RefillConfigCache, Quiet, collections, vars
<1> QED
  BY <1>1, <1>2, <1>3, <1>4, <1>5, HousekeepingIsQuiet DEF Next, Record, Battle, Requests
------------------------------------------------------------------------------
(* The steps that record a score.                                          *)

PlayersOf(todo) == {todo[i].pid : i \in 1 .. Len(todo)}

\* The call of k takes up a request, with entries for players nobody else has under
\* way on a board where calls do not overlap.
Accepted(k) ==
  /\ call[k].op = "idle"
  /\ call'[k].op = "find"
  /\ \A m \in Calls \ {k} : call'[m] = call[m]
  /\ call'[k].board \in Racing \/
       \A m \in Calls : Recording(call[m]) /\ call[m].board = call'[k].board =>
                          PlayersOf(call[m].todo) \cap PlayersOf(call'[k].todo) = {}
  /\ call'[k].board \in Battles => call'[k].board \in DOMAIN setlists
  /\ UNCHANGED <<scores, setlists, lastSetlistID, hk>>

\* The call of k goes on with the same entries, or with what is left of them, or ends.
Proceeds(k) ==
  /\ Recording(call[k])
  /\ \A m \in Calls \ {k} : call'[m] = call[m]
  /\ \/ call'[k].op = "idle"
     \/ /\ Recording(call'[k])
        /\ call'[k].board = call[k].board
        /\ PlayersOf(call'[k].todo) \subseteq PlayersOf(call[k].todo)

LEMMA AcceptAccepts ==
  ASSUME call \in [Calls -> CallRecords], NEW k \in Calls, NEW board \in Boards, NEW entries \in Entries,
         Accept(k, board, entries)
  PROVE  /\ call[k].op = "idle"
         /\ call'[k].op = "find"
         /\ call'[k].board = board
         /\ \A m \in Calls \ {k} : call'[m] = call[m]
         /\ board \in Racing \/
              \A m \in Calls : Recording(call[m]) /\ call[m].board = board =>
                                 PlayersOf(call[m].todo) \cap PlayersOf(call'[k].todo) = {}
<1> DEFINE next == [op |-> "find", board |-> board, todo |-> entries]
<1>1. next \in CallRecords
  BY RecordingRecord
<1>2. next.op = "find" /\ next.board = board /\ next.todo = entries
  OBVIOUS
<1>3. Continue(k, next)
  BY DEF Accept
<1> HIDE DEF next
<1>4. call'[k] = next /\ \A m \in Calls \ {k} : call'[m] = call[m]
  BY <1>1, <1>3, CallContinues
<1>5. ASSUME board \notin Racing, NEW m \in Calls, Recording(call[m]), call[m].board = board
      PROVE  PlayersOf(call[m].todo) \cap PlayersOf(entries) = {}
  <2>1. \A i \in 1 .. Len(entries) : <<entries[i].pid, board>> \notin Playing(m)
    BY <1>5 DEF Accept
  <2>2. Playing(m) = {<<call[m].todo[i].pid, board>> : i \in 1 .. Len(call[m].todo)}
    BY <1>5 DEF Playing, Recording
  <2> QED
    BY <2>1, <2>2 DEF PlayersOf
<1> QED
  BY <1>2, <1>4, <1>5, IdleRecord DEF Accept

LEMMA RequestIsAccepted ==
  ASSUME TypeInv, NEW k \in Calls, Requests(k)
  PROVE  Accepted(k)
<1>1. PICK band \in Bands : \/ \E song \in Songs : RecordSong(k, song, band)
                            \/ \E b \in Battles : RecordBattle(k, b, band)
  BY DEF Requests
<1>2. UNCHANGED <<collections, bans, hk>>
  BY <1>1 DEF RecordSong, RecordBattle
<1>3. PICK board \in Boards, entries \in Entries :
        /\ Accept(k, board, entries)
        /\ board \in Songs \/ BattleAge(board) = Open
  <2>1. ASSUME NEW song \in Songs, RecordSong(k, song, band)
        PROVE  \E entries \in Entries : Accept(k, song, entries)
    BY <2>1, OneSongRequest
  <2>2. ASSUME NEW b \in Battles, RecordBattle(k, b, band)
        PROVE  \E entries \in Entries : Accept(k, b, entries)
    BY <2>2, OneBattleRequest
  <2> QED
    BY <1>1, <2>1, <2>2 DEF Boards, RecordBattle
<1>4. board \in Battles => board \in DOMAIN setlists
  <2>1. Battles \subseteq Int
    BY Bounds DEF Battles
  <2>2. Open # Forgotten
    BY DEF Open, Forgotten
  <2> QED
    BY <1>3, <2>1, <2>2, SongsAreNoBattles DEF BattleAge
<1>5. call \in [Calls -> CallRecords]
  BY DEF TypeInv, CallsTyped
<1> QED
  BY <1>2, <1>3, <1>4, <1>5, AcceptAccepts DEF Accepted, collections

\* The players left after the first are among the players there were.
LEMMA AdvancedProceeds ==
  ASSUME call \in [Calls -> CallRecords], NEW k \in Calls, Recording(call[k]), Advanced(k)
  PROVE  Proceeds(k) /\ ~Writing(call'[k])
<1>1. CASE call'[k].op = "idle"
  BY <1>1 DEF Advanced, Proceeds, Writing
<1>2. CASE /\ Len(call[k].todo) # 1
           /\ call'[k].op = "find"
           /\ call'[k].board = call[k].board
           /\ call'[k].todo = Tail(call[k].todo)
  <2> DEFINE todo == call[k].todo
             rest == call'[k].todo
  <2>1. /\ Len(todo) \in Nat
        /\ Len(rest) = Len(todo) - 1
        /\ \A i \in 1 .. Len(rest) : rest[i] = todo[i + 1]
    BY <1>2, CallOfEntries, FirstAndRest
  <2> HIDE DEF todo, rest
  <2>2. PlayersOf(rest) \subseteq PlayersOf(todo)
    <3> SUFFICES ASSUME NEW i \in 1 .. Len(rest)
                 PROVE  rest[i].pid \in PlayersOf(todo)
      BY DEF PlayersOf
    <3>1. i + 1 \in 1 .. Len(todo) /\ rest[i] = todo[i + 1]
      BY <2>1
    <3> QED
      BY <3>1 DEF PlayersOf
  <2> QED
    BY <1>2, <2>2 DEF Advanced, Proceeds, Recording, Writing, todo, rest
<1> QED
  BY <1>1, <1>2 DEF Advanced

LEMMA StageProceeds ==
  ASSUME call \in [Calls -> CallRecords], NEW k \in Calls, Recording(call[k]),
         NEW op \in {"find", "update", "overwrite", "insert"}, Continue(k, [call[k] EXCEPT !.op = op])
  PROVE  /\ Proceeds(k)
         /\ call'[k].op = op
         /\ call'[k].board = call[k].board
         /\ call'[k].todo = call[k].todo
<1> DEFINE next == [call[k] EXCEPT !.op = op]
<1>1. /\ next \in CallRecords
      /\ next.op = op
      /\ next.board = call[k].board
      /\ next.todo = call[k].todo
  BY RecordingGoesOn
<1> HIDE DEF next
<1>2. call'[k] = next /\ \A m \in Calls \ {k} : call'[m] = call[m]
  BY <1>1, CallContinues DEF next
<1> QED
  BY <1>1, <1>2 DEF Proceeds, Recording

First(k) == Head(call[k].todo)

Found(k) == Matching(First(k).pid, call[k].board)

LEMMA FindEffect ==
  ASSUME TypeInv, NEW k \in Calls, FindScore(k)
  PROVE  /\ Proceeds(k)
         /\ UNCHANGED <<scores, setlists, lastSetlistID, hk>>
         /\ Writing(call'[k]) =>
              /\ call'[k].op = "update"
              /\ call'[k].board = call[k].board
              /\ call'[k].todo = call[k].todo
              /\ Found(k) = {} \/ \E id \in Found(k) : First(k).score > scores[id].score
<1>1. Recording(call[k]) /\ call \in [Calls -> CallRecords]
  BY DEF FindScore, Recording, TypeInv, CallsTyped
<1>2. UNCHANGED <<scores, setlists, lastSetlistID, hk>>
  BY DEF FindScore, collections
<1>3. CASE NextEntry(k)
  BY <1>1, <1>2, <1>3, NextEntryAdvances, AdvancedProceeds
<1>4. CASE /\ Found(k) = {} \/ \E id \in Found(k) : First(k).score > scores[id].score
           /\ Continue(k, [call[k] EXCEPT !.op = "update"])
  BY <1>1, <1>2, <1>4, StageProceeds
<1> QED
  BY <1>3, <1>4 DEF FindScore, Found, First

LEMMA FailedFindEffect ==
  ASSUME TypeInv, NEW k \in Calls, FindScoreFails(k)
  PROVE  /\ Proceeds(k)
         /\ UNCHANGED <<scores, setlists, lastSetlistID, hk>>
         /\ call'[k].op = "overwrite"
<1>1. Recording(call[k]) /\ call \in [Calls -> CallRecords]
  BY DEF FindScoreFails, Recording, TypeInv, CallsTyped
<1> QED
  BY <1>1, StageProceeds DEF FindScoreFails, collections

LEMMA UpdateEffect ==
  ASSUME TypeInv, NEW k \in Calls, UpdateScore(k)
  PROVE  /\ Proceeds(k) /\ ~Writing(call'[k])
         /\ call[k].op \in {"update", "overwrite"}
         /\ call'[k] # call[k]
         /\ UNCHANGED <<setlists, lastSetlistID, hk>>
         /\ DOMAIN scores' = DOMAIN scores
         /\ \E id \in Found(k) :
              /\ scores'[id].pid = scores[id].pid
              /\ scores'[id].board = scores[id].board
              /\ scores'[id].score = First(k).score
              /\ \A other \in DOMAIN scores \ {id} : scores'[other] = scores[other]
<1>1. /\ Recording(call[k])
      /\ call \in [Calls -> CallRecords]
      /\ call[k].op \in {"update", "overwrite"}
  BY DEF UpdateScore, Recording, TypeInv, CallsTyped
<1>2. Proceeds(k) /\ ~Writing(call'[k]) /\ call'[k] # call[k]
  BY <1>1, NextEntryAdvances, AdvancedProceeds DEF UpdateScore, Writing
<1> DEFINE points == First(k).score
<1>3. PICK id \in Found(k) : scores' = [scores EXCEPT ![id].score = points]
  BY DEF UpdateScore, Found, First
<1> HIDE DEF points
<1>4. id \in DOMAIN scores /\ scores[id] \in Score
  BY <1>3 DEF Found, Matching, TypeInv, ScoresTyped
<1>5. scores'[id] = [scores[id] EXCEPT !.score = points]
  BY <1>3, <1>4
<1>6. /\ scores'[id].pid = scores[id].pid
      /\ scores'[id].board = scores[id].board
      /\ scores'[id].score = points
  BY <1>4, <1>5 DEF Score
<1>7. DOMAIN scores' = DOMAIN scores /\ \A other \in DOMAIN scores \ {id} : scores'[other] = scores[other]
  BY <1>3
<1> QED
  BY <1>1, <1>2, <1>6, <1>7 DEF UpdateScore, points

LEMMA MissEffect ==
  ASSUME TypeInv, NEW k \in Calls, UpsertMisses(k)
  PROVE  /\ Proceeds(k)
         /\ UNCHANGED <<scores, setlists, lastSetlistID, hk>>
         /\ call'[k].op = "insert"
         /\ call'[k].board = call[k].board
         /\ call'[k].todo = call[k].todo
         /\ Found(k) = {}
<1>1. Recording(call[k]) /\ call \in [Calls -> CallRecords]
  BY DEF UpsertMisses, Recording, TypeInv, CallsTyped
<1> QED
  BY <1>1, StageProceeds DEF UpsertMisses, Found, First, collections

LEMMA InsertEffect ==
  ASSUME TypeInv, NEW k \in Calls, UpsertInserts(k)
  PROVE  /\ Proceeds(k) /\ ~Writing(call'[k])
         /\ call[k].op = "insert"
         /\ UNCHANGED <<setlists, lastSetlistID, hk>>
         /\ inserted' \notin DOMAIN scores /\ inserted' \notin 1 .. inserted
         /\ DOMAIN scores' = DOMAIN scores \cup {inserted'}
         /\ \A id \in DOMAIN scores : scores'[id] = scores[id]
         /\ scores'[inserted'].pid = First(k).pid
         /\ scores'[inserted'].board = call[k].board
         /\ scores'[inserted'].score = First(k).score
<1>1. Recording(call[k]) /\ call \in [Calls -> CallRecords] /\ call[k].op = "insert"
  BY DEF UpsertInserts, Recording, TypeInv, CallsTyped
<1>2. Proceeds(k) /\ ~Writing(call'[k])
  BY <1>1, NextEntryAdvances, AdvancedProceeds DEF UpsertInserts
<1>3. inserted' \notin DOMAIN scores /\ inserted' \notin 1 .. inserted
  BY Bounds DEF UpsertInserts, TypeInv, ScoresTyped
<1> DEFINE doc == [pid |-> First(k).pid, board |-> call[k].board, score |-> First(k).score]
<1>4. scores' = [id \in DOMAIN scores \cup {inserted'} |->
                   IF id = inserted' THEN doc ELSE scores[id]]
  BY DEF UpsertInserts, First
<1>5. doc.pid = First(k).pid /\ doc.board = call[k].board /\ doc.score = First(k).score
  OBVIOUS
<1> HIDE DEF doc
<1>6. /\ DOMAIN scores' = DOMAIN scores \cup {inserted'}
      /\ \A id \in DOMAIN scores : scores'[id] = scores[id]
      /\ scores'[inserted'] = doc
  BY <1>3, <1>4
<1> QED
  BY <1>1, <1>2, <1>3, <1>5, <1>6 DEF UpsertInserts
------------------------------------------------------------------------------
(* The ID of a battle about to be inserted is new: what uses an ID, be it  *)
(* the battle, a score or a call that will record one, uses one that was   *)
(* drawn before and belongs to a battle that was inserted.                 *)

Creators == {k \in Calls : call[k].op = "create"}

Used == DOMAIN setlists
        \cup {scores[id].board : id \in DOMAIN scores}
        \cup {call[k].board : k \in {m \in Calls : Recording(call[m])}}

NewIDInv ==
  /\ \A b \in Battles : b \in Used => b <= lastSetlistID
  /\ \A k \in Creators : call[k].id <= lastSetlistID /\ call[k].id \notin Used
  /\ \A k, m \in Creators : k # m => call[k].id # call[m].id

LEMMA NewIDsAreNew == NewIDInv => BattleIDsAreNew
  BY DEF NewIDInv, BattleIDsAreNew, Used, Creators

LEMMA InitNewIDs == Init => NewIDInv
  BY IdleRecord DEF Init, NewIDInv, Used, Creators, Recording

LEMMA CreatedID ==
  ASSUME TypeInv, NEW k \in Creators
  PROVE  call[k].id \in Battles /\ call[k].id \in Nat
<1>1. call[k].id \in Battles
  BY CallRecordKinds DEF Creators, TypeInv, CallsTyped
<1> QED
  BY <1>1, Bounds DEF Battles

\* A step after which no other ID is in use and nobody else is about to use one.
LEMMA NoOtherIDUsed ==
  ASSUME TypeInv, NewIDInv, lastSetlistID' = lastSetlistID,
         \A b \in Battles : b \in Used' => b \in Used,
         \A k \in Creators' : call'[k] = call[k]
  PROVE  NewIDInv'
<1>1. \A k \in Creators' : k \in Creators /\ call'[k] = call[k] /\ call[k].id \in Battles
  BY CreatedID DEF Creators
<1>2. \A k \in Creators' : call'[k].id <= lastSetlistID' /\ call'[k].id \notin Used'
  BY <1>1 DEF NewIDInv
<1>3. \A k, m \in Creators' : k # m => call'[k].id # call'[m].id
  BY <1>1 DEF NewIDInv
<1> QED
  BY <1>2, <1>3 DEF NewIDInv

\* Such is a step with one entry of a score, which goes to a board in use.
LEMMA ProceedingUsesNoOtherID ==
  ASSUME TypeInv, NEW k \in Calls, Proceeds(k), setlists' = setlists,
         \A id \in DOMAIN scores' :
            \/ scores'[id].board = call[k].board
            \/ id \in DOMAIN scores /\ scores'[id].board = scores[id].board
  PROVE  /\ \A b \in Battles : b \in Used' => b \in Used
         /\ \A m \in Creators' : call'[m] = call[m]
<1>1. \A m \in Calls : Recording(call'[m]) => Recording(call[m]) /\ call'[m].board = call[m].board
  BY DEF Proceeds, Recording
<1>2. ASSUME NEW b \in Battles, b \in Used'
      PROVE  b \in Used
  <2>1. CASE \E id \in DOMAIN scores' : scores'[id].board = b
    BY <2>1 DEF Used, Proceeds
  <2>2. CASE b \in DOMAIN setlists' \/ \E m \in Calls : Recording(call'[m]) /\ call'[m].board = b
    BY <1>1, <2>2 DEF Used
  <2> QED
    BY <1>2, <2>1, <2>2 DEF Used
<1>3. \A m \in Creators' : call'[m] = call[m]
  BY DEF Creators, Proceeds, Recording
<1> QED
  BY <1>2, <1>3

LEMMA NextKeepsNewIDs ==
  ASSUME TypeInv, NewIDInv, [Next]_vars
  PROVE  NewIDInv'
<1>1. CASE Quiet
  <2>1. \A b \in Battles : b \in Used' => b \in Used
    BY <1>1 DEF Quiet, Shrinks, Used, Recording
  <2>2. \A m \in Creators' : call'[m] = call[m]
    BY <1>1 DEF Quiet, Creators
  <2>3. lastSetlistID' = lastSetlistID
    BY <1>1 DEF Quiet
  <2> QED
    BY <2>1, <2>2, <2>3, NoOtherIDUsed
<1>2. ASSUME NEW k \in Calls, Requests(k)
      PROVE  NewIDInv'
  <2>1. Accepted(k)
    BY <1>2, RequestIsAccepted
  <2>2. ASSUME NEW b \in Battles, b \in Used'
        PROVE  b \in Used
    <3>1. CASE b \in DOMAIN setlists' \/ \E id \in DOMAIN scores' : scores'[id].board = b
      BY <2>1, <3>1 DEF Accepted, Used
    <3>2. CASE \E m \in Calls : Recording(call'[m]) /\ call'[m].board = b
      BY <2>1, <3>2 DEF Accepted, Used
    <3> QED
      BY <2>2, <3>1, <3>2 DEF Used
  <2>3. \A m \in Creators' : call'[m] = call[m]
    BY <2>1 DEF Accepted, Creators
  <2> QED
    BY <2>1, <2>2, <2>3, NoOtherIDUsed DEF Accepted
<1>3. ASSUME NEW k \in Calls, FindScore(k) \/ FindScoreFails(k) \/ UpsertMisses(k)
      PROVE  NewIDInv'
  <2>1. Proceeds(k) /\ UNCHANGED <<scores, setlists, lastSetlistID>>
    BY <1>3, FindEffect, FailedFindEffect, MissEffect
  <2> QED
    BY <2>1, ProceedingUsesNoOtherID, NoOtherIDUsed
<1>4. ASSUME NEW k \in Calls, UpdateScore(k) \/ UpsertInserts(k)
      PROVE  NewIDInv'
  <2>1. Proceeds(k) /\ UNCHANGED <<setlists, lastSetlistID>>
    BY <1>4, UpdateEffect, InsertEffect
  <2>2. \A id \in DOMAIN scores' :
            \/ scores'[id].board = call[k].board
            \/ id \in DOMAIN scores /\ scores'[id].board = scores[id].board
    <3>1. CASE UpdateScore(k)
      BY <3>1, UpdateEffect
    <3>2. CASE UpsertInserts(k)
      BY <3>2, InsertEffect
    <3> QED
      BY <1>4, <3>1, <3>2
  <2> QED
    BY <2>1, <2>2, ProceedingUsesNoOtherID, NoOtherIDUsed
<1>5. ASSUME NEW k \in Calls, NEW type \in {PlayerBattle, HarmonixBattle}, GetNextSetlistID(k, type)
      PROVE  NewIDInv'
  <2> DEFINE next == [op |-> "create", id |-> lastSetlistID', type |-> type]
  <2>1. lastSetlistID \in Nat /\ lastSetlistID' = lastSetlistID + 1 /\ lastSetlistID' \in Battles
    BY <1>5, Bounds DEF GetNextSetlistID, Battles, TypeInv, SetlistsTyped
  <2>2. next \in CallRecords /\ next.op = "create" /\ next.id = lastSetlistID'
    BY <2>1 DEF CallRecords
  <2>3. Continue(k, next) /\ UNCHANGED <<scores, setlists>> /\ call[k].op = "idle"
    BY <1>5, IdleRecord DEF GetNextSetlistID
  <2> HIDE DEF next
  <2>4. call'[k] = next /\ \A m \in Calls \ {k} : call'[m] = call[m]
    BY <2>2, <2>3, CallContinues DEF TypeInv, CallsTyped
  <2>5. \A b \in Battles : b \in Used' => b \in Used
    BY <2>2, <2>3, <2>4 DEF Used, Recording
  <2>6. \A b \in Battles : b \in Used' => b <= lastSetlistID
    BY <2>5 DEF NewIDInv
  <2>7. Battles \subseteq Nat
    BY Bounds DEF Battles
  <2>8. \A b \in Battles : b \in Used' => b <= lastSetlistID'
    BY <2>1, <2>6, <2>7
  <2>9. lastSetlistID' \notin Used'
    BY <2>1, <2>6
  <2>10. \A m \in Creators' \ {k} :
           /\ m \in Creators
           /\ call'[m].id = call[m].id
           /\ call[m].id \in Battles
           /\ call[m].id \in Nat
    BY <2>4, CreatedID DEF Creators
  <2>11. \A m \in Creators' \ {k} :
           /\ call'[m].id <= lastSetlistID'
           /\ call'[m].id # lastSetlistID'
           /\ call'[m].id \notin Used'
    BY <2>1, <2>5, <2>10 DEF NewIDInv
  <2>12. \A m \in Creators' : call'[m].id <= lastSetlistID' /\ call'[m].id \notin Used'
    BY <2>1, <2>2, <2>4, <2>9, <2>11
  <2>13. \A l, m \in Creators' : l # m => call'[l].id # call'[m].id
    BY <2>2, <2>4, <2>10, <2>11 DEF NewIDInv
  <2> QED
    BY <2>8, <2>12, <2>13 DEF NewIDInv
<1>6. ASSUME NEW k \in Calls, InsertBattle(k)
      PROVE  NewIDInv'
  <2> DEFINE id == call[k].id
  <2>1. k \in Creators /\ id \in Battles /\ id <= lastSetlistID
    BY <1>6, CreatedID DEF InsertBattle, Creators, NewIDInv
  <2>2. call'[k].op = "idle" /\ \A m \in Calls \ {k} : call'[m] = call[m]
    BY <1>6, IdleRecord, CallContinues DEF InsertBattle, Return, TypeInv, CallsTyped
  <2>3. DOMAIN setlists' = DOMAIN setlists \cup {id} /\ UNCHANGED <<scores, lastSetlistID>>
    BY <1>6 DEF InsertBattle
  <2> HIDE DEF id
  <2>4. \A b \in Battles : b \in Used' => b \in Used \/ b = id
    BY <2>2, <2>3 DEF Used, Recording
  <2>5. \A m \in Creators' :
          m # k /\ m \in Creators /\ call'[m] = call[m] /\ call[m].id \in Battles
    BY <2>2, CreatedID DEF Creators
  <2>6. \A m \in Creators' : call[m].id # id
    BY <2>1, <2>5 DEF NewIDInv, id
  <2>7. \A b \in Battles : b \in Used' => b <= lastSetlistID'
    BY <2>1, <2>3, <2>4 DEF NewIDInv
  <2>8. \A m \in Creators' : call'[m].id <= lastSetlistID' /\ call'[m].id \notin Used'
    BY <2>3, <2>4, <2>5, <2>6 DEF NewIDInv
  <2>9. \A l, m \in Creators' : l # m => call'[l].id # call'[m].id
    BY <2>5 DEF NewIDInv
  <2> QED
    BY <2>7, <2>8, <2>9 DEF NewIDInv
<1> QED
  BY <1>1, <1>2, <1>3, <1>4, <1>5, <1>6, StepKinds

\* For any number of battles made, deleted and expired at a time, a battle's ID is
\* in use nowhere when it is inserted: not by another battle, not by scores an expired
\* one has left behind (housekeeping_tasks.go:160), not by a call that is recording.
THEOREM NewBattlesAreNew == Spec => []BattleIDsAreNew
  BY InitNewIDs, NextKeepsNewIDs, NewIDsAreNew, TypesInvariant, PTL DEF Spec
------------------------------------------------------------------------------
(* Where a console waits for the answer before it records another score of *)
(* a player on a board, the comparison FindScore made still holds when     *)
(* UpdateScore writes.  This needs that the document compared with is the  *)
(* only one, and so that a document is inserted only if there is none.     *)

\* A player has one document on a board.
OneDocument ==
  \A i, j \in DOMAIN scores :
    scores[i].board \notin Racing /\ scores[i].board = scores[j].board /\ scores[i].pid = scores[j].pid
      => i = j

\* No two calls record a score of one player on the board.
OneCall ==
  \A k, m \in Calls :
    k # m /\ Recording(call[k]) /\ Recording(call[m])
      /\ call[k].board = call[m].board /\ call[k].board \notin Racing
      => PlayersOf(call[k].todo) \cap PlayersOf(call[m].todo) = {}

\* What an update will overwrite is lower.
UpdateImproves ==
  \A k \in Calls : call[k].op = "update" /\ call[k].board \notin Racing
    => \A id \in Found(k) : scores[id].score < First(k).score

\* What an upsert will insert is the first.
InsertIsFirst ==
  \A k \in Calls : call[k].op = "insert" /\ call[k].board \notin Racing => Found(k) = {}

TurnInv == OneDocument /\ OneCall /\ UpdateImproves /\ InsertIsFirst

LEMMA InitTurns == Init => TurnInv
  BY IdleRecord
  DEF Init, TurnInv, OneDocument, OneCall, UpdateImproves, InsertIsFirst, Recording

LEMMA FirstIsPlaying ==
  ASSUME TypeInv, NEW k \in Calls, Recording(call[k])
  PROVE  First(k).pid \in PlayersOf(call[k].todo) /\ First(k).score \in Nat
<1>1. call[k].todo \in Entries /\ First(k).score \in Nat
  BY CallOfEntries DEF First, TypeInv, CallsTyped
<1>2. Len(call[k].todo) \in Nat \ {0} /\ First(k) = call[k].todo[1]
  BY <1>1, FirstAndRest DEF First
<1> QED
  BY <1>1, <1>2 DEF PlayersOf

LEMMA ProceedingKeepsOneCall ==
  ASSUME OneCall, NEW k \in Calls, Proceeds(k)
  PROVE  OneCall'
<1>1. \A m \in Calls : Recording(call'[m]) =>
        /\ Recording(call[m])
        /\ call'[m].board = call[m].board
        /\ PlayersOf(call'[m].todo) \subseteq PlayersOf(call[m].todo)
  BY DEF Proceeds, Recording
<1> SUFFICES ASSUME NEW l \in Calls, NEW m \in Calls, l # m, Recording(call'[l]), Recording(call'[m]),
                    call'[l].board = call'[m].board, call'[l].board \notin Racing
             PROVE  PlayersOf(call'[l].todo) \cap PlayersOf(call'[m].todo) = {}
  BY DEF OneCall, Recording, PlayersOf
<1>2. PlayersOf(call[l].todo) \cap PlayersOf(call[m].todo) = {}
  BY <1>1 DEF OneCall
<1> QED
  BY <1>1, <1>2

LEMMA QuietKeepsTurns ==
  ASSUME TurnInv, Quiet
  PROVE  TurnInv'
<1>1. OneDocument'
  BY DEF TurnInv, OneDocument, Quiet, Shrinks
<1>2. \A m \in Calls : Recording(call'[m]) => call'[m] = call[m]
  BY DEF Quiet, Recording
<1>3. OneCall'
  <2> SUFFICES ASSUME NEW l \in Calls, NEW m \in Calls, l # m, Recording(call'[l]), Recording(call'[m]),
                      call'[l].board = call'[m].board, call'[l].board \notin Racing
               PROVE  PlayersOf(call'[l].todo) \cap PlayersOf(call'[m].todo) = {}
    BY DEF OneCall, Recording, PlayersOf
  <2> QED
    BY <1>2 DEF TurnInv, OneCall
<1>4. UpdateImproves'
  <2> SUFFICES ASSUME NEW m \in Calls, call'[m].op = "update", call'[m].board \notin Racing,
                      NEW id \in Found(m)'
               PROVE  scores'[id].score < First(m)'.score
    BY DEF UpdateImproves
  <2>1. call'[m] = call[m]
    BY <1>2 DEF Recording
  <2>2. id \in Found(m) /\ scores'[id] = scores[id]
    BY <2>1 DEF Found, Matching, First, Quiet, Shrinks
  <2> QED
    BY <2>1, <2>2 DEF TurnInv, UpdateImproves, First
<1>5. InsertIsFirst'
  <2> SUFFICES ASSUME NEW m \in Calls, call'[m].op = "insert", call'[m].board \notin Racing
               PROVE  Found(m)' = {}
    BY DEF InsertIsFirst
  <2>1. call'[m] = call[m]
    BY <1>2 DEF Recording
  <2>2. Found(m) = {}
    BY <2>1 DEF TurnInv, InsertIsFirst
  <2> QED
    BY <2>1, <2>2 DEF Found, Matching, First, Quiet, Shrinks
<1> QED
  BY <1>1, <1>3, <1>4, <1>5 DEF TurnInv

LEMMA RequestKeepsTurns ==
  ASSUME TypeInv, TurnInv, NEW k \in Calls, Requests(k)
  PROVE  TurnInv'
<1>1. Accepted(k)
  BY RequestIsAccepted
<1>2. OneDocument'
  BY <1>1 DEF Accepted, TurnInv, OneDocument
<1>3. OneCall'
  <2> SUFFICES ASSUME NEW l \in Calls, NEW m \in Calls, l # m, Recording(call'[l]), Recording(call'[m]),
                      call'[l].board = call'[m].board, call'[l].board \notin Racing
               PROVE  PlayersOf(call'[l].todo) \cap PlayersOf(call'[m].todo) = {}
    BY DEF OneCall, Recording, PlayersOf
  <2>1. CASE l = k
    BY <1>1, <2>1 DEF Accepted
  <2>2. CASE m = k
    BY <1>1, <2>2 DEF Accepted
  <2>3. CASE l # k /\ m # k
    BY <1>1, <2>3 DEF Accepted, TurnInv, OneCall
  <2> QED
    BY <2>1, <2>2, <2>3
<1>4. \A m \in Calls : Writing(call'[m]) => call'[m] = call[m]
  BY <1>1 DEF Accepted, Writing
<1>5. UpdateImproves' /\ InsertIsFirst'
  BY <1>1, <1>4
  DEF Accepted, TurnInv, UpdateImproves, InsertIsFirst, Found, First, Matching, Writing
<1> QED
  BY <1>2, <1>3, <1>5 DEF TurnInv

LEMMA FindKeepsTurns ==
  ASSUME TypeInv, TurnInv, NEW k \in Calls, FindScore(k) \/ FindScoreFails(k) \/ UpsertMisses(k)
  PROVE  TurnInv'
<1>1. Proceeds(k) /\ UNCHANGED scores
  BY FindEffect, FailedFindEffect, MissEffect
<1>2. OneDocument' /\ OneCall'
  BY <1>1, ProceedingKeepsOneCall DEF TurnInv, OneDocument
<1>3. \A m \in Calls \ {k} : call'[m] = call[m] /\ First(m)' = First(m) /\ Found(m)' = Found(m)
  BY <1>1 DEF Proceeds, First, Found, Matching
<1>4. CASE FindScore(k)
  <2>1. ASSUME call'[k].op = "update", call'[k].board \notin Racing
        PROVE  \A id \in Found(k)' : scores'[id].score < First(k)'.score
    <3>1. /\ call'[k].board = call[k].board
          /\ call'[k].todo = call[k].todo
          /\ Found(k) = {} \/ \E id \in Found(k) : First(k).score > scores[id].score
      BY <1>4, <2>1, FindEffect DEF Writing
    <3>2. First(k)' = First(k) /\ Found(k)' = Found(k)
      BY <1>1, <3>1 DEF First, Found, Matching
    <3>3. \A i, j \in Found(k) : i = j
      BY <2>1, <3>1 DEF Found, Matching, TurnInv, OneDocument
    <3>4. \A id \in Found(k) : scores[id].score \in Nat
      BY Bounds DEF Found, Matching, TypeInv, ScoresTyped, Score
    <3>5. First(k).score \in Nat
      BY <1>1, FirstIsPlaying DEF Proceeds
    <3> QED
      BY <1>1, <3>1, <3>2, <3>3, <3>4, <3>5
  <2>2. call'[k].op # "insert"
    BY <1>4, FindEffect DEF Writing
  <2>3. UpdateImproves'
    BY <1>1, <1>3, <2>1 DEF TurnInv, UpdateImproves
  <2>4. InsertIsFirst'
    BY <1>3, <2>2 DEF TurnInv, InsertIsFirst
  <2> QED
    BY <1>2, <2>3, <2>4 DEF TurnInv
<1>5. CASE FindScoreFails(k)
  <2>1. call'[k].op = "overwrite"
    BY <1>5, FailedFindEffect
  <2>2. UpdateImproves'
    BY <1>1, <1>3, <2>1 DEF TurnInv, UpdateImproves
  <2>3. InsertIsFirst'
    BY <1>3, <2>1 DEF TurnInv, InsertIsFirst
  <2> QED
    BY <1>2, <2>2, <2>3 DEF TurnInv
<1>6. CASE UpsertMisses(k)
  <2>1. /\ call'[k].op = "insert"
        /\ call'[k].board = call[k].board
        /\ call'[k].todo = call[k].todo
        /\ Found(k) = {}
    BY <1>6, MissEffect
  <2>2. Found(k)' = {}
    BY <1>1, <2>1 DEF First, Found, Matching
  <2>3. UpdateImproves'
    BY <1>1, <1>3, <2>1 DEF TurnInv, UpdateImproves
  <2>4. InsertIsFirst'
    BY <1>3, <2>2 DEF TurnInv, InsertIsFirst
  <2> QED
    BY <1>2, <2>3, <2>4 DEF TurnInv
<1> QED
  BY <1>4, <1>5, <1>6

\* The documents one call looks at are none of those another one writes.
LEMMA OthersLookElsewhere ==
  ASSUME TypeInv, TurnInv, NEW k \in Calls, NEW m \in Calls, k # m,
         Recording(call[k]), Recording(call[m]),
         call[k].board = call[m].board, call[m].board \notin Racing
  PROVE  First(k).pid # First(m).pid
  BY FirstIsPlaying DEF TurnInv, OneCall

LEMMA UpdateKeepsTurns ==
  ASSUME TypeInv, TurnInv, NEW k \in Calls, UpdateScore(k)
  PROVE  TurnInv'
<1>1. Proceeds(k) /\ ~Writing(call'[k]) /\ DOMAIN scores' = DOMAIN scores
  BY UpdateEffect
<1>2. PICK written \in Found(k) :
        /\ scores'[written].pid = scores[written].pid
        /\ scores'[written].board = scores[written].board
        /\ \A other \in DOMAIN scores \ {written} : scores'[other] = scores[other]
  BY UpdateEffect
<1>3. \A id \in DOMAIN scores :
        scores'[id].pid = scores[id].pid /\ scores'[id].board = scores[id].board
  BY <1>2
<1>4. OneDocument' /\ OneCall'
  BY <1>1, <1>3, ProceedingKeepsOneCall DEF TurnInv, OneDocument
<1>5. \A m \in Calls \ {k} : call'[m] = call[m] /\ First(m)' = First(m) /\ Found(m)' = Found(m)
  BY <1>1, <1>3 DEF Proceeds, First, Found, Matching
<1>6. UpdateImproves'
  <2> SUFFICES ASSUME NEW m \in Calls, call'[m].op = "update", call'[m].board \notin Racing,
                      NEW id \in Found(m)'
               PROVE  scores'[id].score < First(m)'.score
    BY DEF UpdateImproves
  <2>1. m # k /\ call'[m] = call[m] /\ First(m)' = First(m) /\ id \in Found(m)
    BY <1>1, <1>5 DEF Writing
  <2>2. id # written
    <3> SUFFICES ASSUME id = written PROVE FALSE
      OBVIOUS
    <3>1. First(k).pid = First(m).pid /\ call[k].board = call[m].board
      BY <1>2, <2>1 DEF Found, Matching
    <3> QED
      BY <1>1, <2>1, <3>1, OthersLookElsewhere DEF Recording, Proceeds
  <2>3. scores'[id] = scores[id]
    BY <1>2, <2>1, <2>2 DEF Found, Matching
  <2> QED
    BY <2>1, <2>3 DEF TurnInv, UpdateImproves
<1>7. InsertIsFirst'
  BY <1>1, <1>5 DEF TurnInv, InsertIsFirst, Writing
<1> QED
  BY <1>4, <1>6, <1>7 DEF TurnInv

LEMMA InsertKeepsTurns ==
  ASSUME TypeInv, TurnInv, NEW k \in Calls, UpsertInserts(k)
  PROVE  TurnInv'
<1> DEFINE new == inserted'
<1>1. /\ Proceeds(k) /\ ~Writing(call'[k])
      /\ call[k].op = "insert"
      /\ new \notin DOMAIN scores
      /\ DOMAIN scores' = DOMAIN scores \cup {new}
      /\ \A id \in DOMAIN scores : scores'[id] = scores[id]
      /\ scores'[new].pid = First(k).pid
      /\ scores'[new].board = call[k].board
  BY InsertEffect
<1> HIDE DEF new
<1>2. OneCall'
  BY <1>1, ProceedingKeepsOneCall DEF TurnInv
<1>3. OneDocument'
  <2>1. ASSUME NEW id \in DOMAIN scores, call[k].board \notin Racing,
               scores[id].board = call[k].board, scores[id].pid = First(k).pid
        PROVE  FALSE
    BY <1>1, <2>1 DEF TurnInv, InsertIsFirst, Found, Matching
  <2> SUFFICES ASSUME NEW i \in DOMAIN scores', NEW j \in DOMAIN scores', scores'[i].board \notin Racing,
                      scores'[i].board = scores'[j].board, scores'[i].pid = scores'[j].pid
               PROVE  i = j
    BY DEF OneDocument
  <2>2. CASE i = new /\ j # new
    BY <1>1, <2>1, <2>2
  <2>3. CASE i # new /\ j = new
    BY <1>1, <2>1, <2>3
  <2>4. CASE i # new /\ j # new
    BY <1>1, <2>4 DEF TurnInv, OneDocument
  <2> QED
    BY <2>2, <2>3, <2>4
<1>4. \A m \in Calls \ {k} : call'[m] = call[m] /\ First(m)' = First(m)
  BY <1>1 DEF Proceeds, First
<1>5. ASSUME NEW m \in Calls \ {k}, Recording(call[m]), call[m].board \notin Racing
      PROVE  Found(m)' = Found(m)
  <2>1. ~(First(k).pid = First(m).pid /\ call[k].board = call[m].board)
    BY <1>1, <1>5, OthersLookElsewhere DEF Proceeds
  <2> QED
    BY <1>1, <1>4, <2>1 DEF Found, Matching
<1>6. UpdateImproves'
  <2> SUFFICES ASSUME NEW m \in Calls, call'[m].op = "update", call'[m].board \notin Racing,
                      NEW id \in Found(m)'
               PROVE  scores'[id].score < First(m)'.score
    BY DEF UpdateImproves
  <2>1. m # k /\ call'[m] = call[m] /\ First(m)' = First(m)
    BY <1>1, <1>4 DEF Writing
  <2>2. id \in Found(m)
    BY <1>5, <2>1 DEF Recording
  <2>3. scores'[id] = scores[id]
    BY <1>1, <2>2 DEF Found, Matching
  <2> QED
    BY <2>1, <2>2, <2>3 DEF TurnInv, UpdateImproves
<1>7. InsertIsFirst'
  <2> SUFFICES ASSUME NEW m \in Calls, call'[m].op = "insert", call'[m].board \notin Racing
               PROVE  Found(m)' = {}
    BY DEF InsertIsFirst
  <2>1. m # k /\ call'[m] = call[m]
    BY <1>1, <1>4 DEF Writing
  <2> QED
    BY <1>5, <2>1 DEF Recording, TurnInv, InsertIsFirst
<1> QED
  BY <1>2, <1>3, <1>6, <1>7 DEF TurnInv

LEMMA NextKeepsTurns ==
  ASSUME TypeInv, TurnInv, [Next]_vars
  PROVE  TurnInv'
<1>1. ASSUME NEW k \in Calls,
             InsertBattle(k) \/ \E type \in {PlayerBattle, HarmonixBattle} : GetNextSetlistID(k, type)
      PROVE  TurnInv'
  <2>1. scores' = scores
    BY <1>1 DEF InsertBattle, GetNextSetlistID
  <2>2. \A m \in Calls : Recording(call'[m]) => call'[m] = call[m]
    <3>1. CASE InsertBattle(k)
      BY <3>1, IdleRecord, CallContinues DEF InsertBattle, Return, TypeInv, CallsTyped, Recording
    <3>2. CASE \E type \in {PlayerBattle, HarmonixBattle} : GetNextSetlistID(k, type)
      BY <3>2 DEF GetNextSetlistID, Continue, TypeInv, CallsTyped, Recording
    <3> QED
      BY <1>1, <3>1, <3>2
  <2>3. OneCall'
    <3> SUFFICES ASSUME NEW l \in Calls, NEW m \in Calls, l # m, Recording(call'[l]), Recording(call'[m]),
                        call'[l].board = call'[m].board, call'[l].board \notin Racing
                 PROVE  PlayersOf(call'[l].todo) \cap PlayersOf(call'[m].todo) = {}
      BY DEF OneCall, Recording, PlayersOf
    <3> QED
      BY <2>2 DEF TurnInv, OneCall
  <2>4. OneDocument'
    BY <2>1 DEF TurnInv, OneDocument
  <2>5. UpdateImproves' /\ InsertIsFirst'
    BY <2>1, <2>2 DEF TurnInv, UpdateImproves, InsertIsFirst, Found, First, Matching, Recording
  <2> QED
    BY <2>3, <2>4, <2>5 DEF TurnInv
<1> QED
  BY <1>1, StepKinds, QuietKeepsTurns, RequestKeepsTurns, FindKeepsTurns, UpdateKeepsTurns, InsertKeepsTurns

LEMMA TurnsInvariant == Spec => []TurnInv
  BY InitTurns, NextKeepsTurns, TypesInvariant, PTL DEF Spec

\* "Only update if the new score is higher" (record.go:167): for any number of players,
\* bands with common members, boards and goroutines, the comparison with the score that
\* was found is one with the score that is overwritten, wherever a console waits for
\* the answer before it records another score of the player, and FindOne answers.
THEOREM HigherScoresOnly == Spec => HigherOnlyInTurn
<1> DEFINE NotLower ==
        \A id \in DOMAIN scores \cap DOMAIN scores' :
          scores[id].board \notin Racing =>
            \/ scores'[id].score >= scores[id].score
            \/ \E k \in Calls : call[k].op = "overwrite" /\ call'[k] # call[k]
<1>1. TypeInv /\ TurnInv /\ [Next]_vars => [NotLower]_vars
  <2> SUFFICES ASSUME TypeInv, TurnInv, [Next]_vars,
                      NEW id \in DOMAIN scores, id \in DOMAIN scores', scores[id].board \notin Racing,
                      ~ \E k \in Calls : call[k].op = "overwrite" /\ call'[k] # call[k]
               PROVE  scores'[id].score >= scores[id].score
    OBVIOUS
  <2>1. scores[id].score \in Nat
    BY Bounds DEF TypeInv, ScoresTyped, Score
  <2>2. CASE \E k \in Calls : UpdateScore(k)
    <3>1. PICK k \in Calls : UpdateScore(k)
      BY <2>2
    <3>2. PICK written \in Found(k) :
            /\ scores'[written].score = First(k).score
            /\ \A other \in DOMAIN scores \ {written} : scores'[other] = scores[other]
      BY <3>1, UpdateEffect
    <3>3. CASE id = written
      <4>1. call[k].op = "update" /\ call[k].board \notin Racing
        BY <2>1, <3>1, <3>2, <3>3, UpdateEffect DEF Found, Matching
      <4>2. scores[id].score < First(k).score
        BY <3>2, <3>3, <4>1 DEF TurnInv, UpdateImproves
      <4>3. First(k).score \in Nat
        BY <4>1, FirstIsPlaying DEF Recording
      <4> QED
        BY <2>1, <3>2, <3>3, <4>2, <4>3
    <3>4. CASE id # written
      BY <2>1, <3>2, <3>4
    <3> QED
      BY <3>3, <3>4
  <2>3. CASE scores'[id] = scores[id]
    BY <2>1, <2>3
  <2>4. \/ scores'[id] = scores[id]
        \/ \E k \in Calls : UpdateScore(k)
    <3>1. ASSUME NEW k \in Calls, Requests(k)
          PROVE  scores'[id] = scores[id]
      BY <3>1, RequestIsAccepted DEF Accepted
    <3>2. ASSUME NEW k \in Calls, FindScore(k) \/ FindScoreFails(k) \/ UpsertMisses(k) \/ UpsertInserts(k)
          PROVE  scores'[id] = scores[id]
      BY <3>2, FindEffect, FailedFindEffect, MissEffect, InsertEffect
    <3>3. ASSUME NEW k \in Calls,
                 InsertBattle(k) \/ \E type \in {PlayerBattle, HarmonixBattle} : GetNextSetlistID(k, type)
          PROVE  scores'[id] = scores[id]
      BY <3>3 DEF InsertBattle, GetNextSetlistID
    <3>4. CASE Quiet
      BY <3>4 DEF Quiet, Shrinks
    <3> QED
      BY <3>1, <3>2, <3>3, <3>4, StepKinds
  <2> QED
    BY <2>2, <2>3, <2>4
<1>2. Spec => [][NotLower]_vars
  BY <1>1, TypesInvariant, TurnsInvariant, PTL DEF Spec
<1> QED
  BY <1>2 DEF HigherOnlyInTurn
------------------------------------------------------------------------------
(* A player keeps a score on a song.  The duplicates of one aggregation    *)
(* are deleted group by group while scores come and go; a score that will  *)
(* be deleted has one beside it that will not, which can go only with all  *)
(* scores of the player.                                                   *)

Condemned == UNION hk.work

DuplicatesInv ==
  At("duplicates") =>
    /\ Condemned \subseteq 1 .. inserted
    /\ \A id \in DOMAIN scores \cap Condemned : scores[id].board \in Songs =>
         \E kept \in DOMAIN scores \ Condemned :
            scores[kept].pid = scores[id].pid /\ scores[kept].board = scores[id].board

\* What a step may do to the documents: those that stay belong to the same player and
\* board, and a new one is newer than all before.
OwnersStay ==
  /\ \A id \in DOMAIN scores \cap DOMAIN scores' :
       scores'[id].pid = scores[id].pid /\ scores'[id].board = scores[id].board
  /\ \A id \in DOMAIN scores' \ DOMAIN scores : id \notin 1 .. inserted
  /\ inserted' \in Nat /\ inserted <= inserted'

SongScoresStay == \A id \in DOMAIN scores : scores[id].board \in Songs => id \in DOMAIN scores'

RemovesPlayer(p) == DOMAIN scores' = {id \in DOMAIN scores : scores[id].pid # p}

LEMMA InitDuplicates == Init => DuplicatesInv
  BY DEF Init, Waiting, At, DuplicatesInv

LEMMA InsertedGrows ==
  ASSUME TypeInv, [Next]_vars
  PROVE  inserted \in Nat /\ inserted' \in Nat /\ inserted <= inserted'
<1>1. inserted \in Nat
  BY Bounds DEF TypeInv, ScoresTyped
<1>2. ASSUME NEW k \in Calls, Record(k)
      PROVE  inserted' = inserted \/ inserted' = inserted + 1
  BY <1>2 DEF Record, RecordSong, RecordBattle, FindScore, FindScoreFails, UpdateScore, UpsertMisses,
              UpsertInserts, collections
<1>3. ASSUME NEW k \in Calls, Battle(k)
      PROVE  inserted' = inserted
  BY <1>3 DEF Battle, GetNextSetlistID, InsertBattle, DeleteBattle, DeleteBattleScores
<1>4. ASSUME NEW b \in Battles, AgeBattle(b)
      PROVE  inserted' = inserted
  BY <1>4 DEF AgeBattle
<1>5. ASSUME Administer \/ RefillConfigCache \/ UNCHANGED vars
      PROVE  inserted' = inserted
  BY <1>5 DEF Administer, Ban, Unban, DeletePlayerScores, RefillConfigCache, collections, vars
<1>6. ASSUME Housekeeping
      PROVE  inserted' = inserted
  BY <1>6 DEF Housekeeping, AggregateDuplicates, DeleteDuplicates, CleanupInvalidScores, FindBattles,
         ExamineBattle, DeleteExpiredBattle, DeleteExpiredBattleScores, ReadBans,
         CleanupBannedUserScores, Sleep, collections
<1> QED
  BY <1>1, <1>2, <1>3, <1>4, <1>5, <1>6 DEF Next

LEMMA OwnersAlwaysStay ==
  ASSUME TypeInv, [Next]_vars
  PROVE  OwnersStay
<1>1. inserted' \in Nat /\ inserted <= inserted'
  BY InsertedGrows
<1>2. CASE Shrinks
  BY <1>1, <1>2 DEF Shrinks, OwnersStay
<1>3. ASSUME NEW k \in Calls, UpdateScore(k)
      PROVE  OwnersStay
  BY <1>1, <1>3, UpdateEffect DEF OwnersStay
<1>4. ASSUME NEW k \in Calls, UpsertInserts(k)
      PROVE  OwnersStay
  BY <1>1, <1>4, InsertEffect DEF OwnersStay
<1>5. ASSUME NEW k \in Calls, Requests(k)
      PROVE  Shrinks
  BY <1>5, RequestIsAccepted, UnchangedShrinks DEF Accepted
<1>6. ASSUME NEW k \in Calls, FindScore(k) \/ FindScoreFails(k) \/ UpsertMisses(k)
      PROVE  Shrinks
  BY <1>6, FindEffect, FailedFindEffect, MissEffect, UnchangedShrinks
<1>7. ASSUME NEW k \in Calls,
             InsertBattle(k) \/ \E type \in {PlayerBattle, HarmonixBattle} : GetNextSetlistID(k, type)
      PROVE  Shrinks
  BY <1>7, UnchangedShrinks DEF InsertBattle, GetNextSetlistID
<1> QED
  BY <1>2, <1>3, <1>4, <1>5, <1>6, <1>7, StepKinds DEF Quiet

LEMMA UnchangedStay == scores' = scores => SongScoresStay
  BY DEF SongScoresStay

\* Outside the deletion of duplicates no song score goes without all of the player's.
LEMMA SongDeletions ==
  ASSUME TypeInv, [Next]_vars
  PROVE  SongScoresStay \/ DeleteDuplicates \/ \E p \in Players : RemovesPlayer(p)
<1>1. ASSUME NEW k \in Calls, Record(k)
      PROVE  SongScoresStay
  <2>1. CASE Requests(k)
    BY <2>1, RequestIsAccepted, UnchangedStay DEF Accepted
  <2>2. CASE FindScore(k) \/ FindScoreFails(k) \/ UpsertMisses(k)
    BY <2>2, FindEffect, FailedFindEffect, MissEffect, UnchangedStay
  <2>3. CASE UpdateScore(k) \/ UpsertInserts(k)
    BY <2>3, UpdateEffect, InsertEffect DEF SongScoresStay
  <2> QED
    BY <1>1, <2>1, <2>2, <2>3 DEF Record, Requests
<1>2. ASSUME NEW k \in Calls, Battle(k)
      PROVE  SongScoresStay
  <2>1. CASE DeleteBattleScores(k)
    <3>1. call[k].id \in Int
      <4>1. call[k].id \in Battles
        BY <2>1, CallRecordKinds DEF DeleteBattleScores, TypeInv, CallsTyped
      <4> QED
        BY <4>1, Bounds DEF Battles
    <3>2. DOMAIN scores' = DOMAIN scores \ {id \in DOMAIN scores : scores[id].board = call[k].id}
      BY <2>1, DeleteManyShrinks DEF DeleteBattleScores
    <3> QED
      BY <3>1, <3>2, SongsAreNoBattles DEF SongScoresStay
  <2>2. CASE ~DeleteBattleScores(k)
    <3>1. scores' = scores
      BY <1>2, <2>2 DEF Battle, GetNextSetlistID, InsertBattle, DeleteBattle
    <3> QED
      BY <3>1, UnchangedStay
  <2> QED
    BY <2>1, <2>2
<1>3. ASSUME NEW b \in Battles, AgeBattle(b)
      PROVE  SongScoresStay
  BY <1>3, UnchangedStay DEF AgeBattle
<1>4. ASSUME NEW p \in Players, DeletePlayerScores(p)
      PROVE  RemovesPlayer(p)
  BY <1>4, DeleteManyShrinks DEF DeletePlayerScores, RemovesPlayer
<1>5. CASE (\E p \in Bannable : Ban(p) \/ Unban(p)) \/ RefillConfigCache \/ UNCHANGED vars
  <2>1. scores' = scores
    BY <1>5 DEF Ban, Unban, RefillConfigCache, collections, vars
  <2> QED
    BY <2>1, UnchangedStay
<1>6. CASE CleanupInvalidScores
  <2>1. DOMAIN scores' = DOMAIN scores \ {id \in DOMAIN scores : scores[id].score <= 0}
    BY <1>6, DeleteManyShrinks DEF CleanupInvalidScores
  <2>2. \A id \in DOMAIN scores : scores[id].board \in Songs => scores[id].score > 0 /\ scores[id].score \in Nat
    BY Bounds DEF TypeInv, ScoresTyped, Score
  <2> QED
    BY <2>1, <2>2 DEF SongScoresStay
<1>7. CASE DeleteExpiredBattleScores
  <2>1. \A id \in DOMAIN scores : "setlist_id" \notin DOMAIN scores[id]
    BY DEF TypeInv, ScoresTyped, Score
  <2>2. DOMAIN scores' = DOMAIN scores \ {id \in DOMAIN scores :
            "setlist_id" \in DOMAIN scores[id] /\ scores[id].setlist_id = hk.battle}
    BY <1>7, DeleteManyShrinks DEF DeleteExpiredBattleScores
  <2> QED
    BY <2>1, <2>2 DEF SongScoresStay
<1>8. CASE CleanupBannedUserScores
  <2>1. hk.work \subseteq Players
    BY <1>8, HousekeepingKinds DEF CleanupBannedUserScores, At, TypeInv
  <2>2. PICK p \in hk.work : DeleteMany({id \in DOMAIN scores : scores[id].pid = p})
    BY <1>8 DEF CleanupBannedUserScores
  <2>3. RemovesPlayer(p)
    BY <2>2, DeleteManyShrinks DEF RemovesPlayer
  <2> QED
    BY <2>1, <2>2, <2>3
<1>9. CASE AggregateDuplicates \/ FindBattles \/ ExamineBattle \/ DeleteExpiredBattle \/ ReadBans \/ Sleep
  <2>1. scores' = scores
    BY <1>9 DEF AggregateDuplicates, FindBattles, ExamineBattle, DeleteExpiredBattle, ReadBans, Sleep,
                collections
  <2> QED
    BY <2>1, UnchangedStay
<1> QED
  BY <1>1, <1>2, <1>3, <1>4, <1>5, <1>6, <1>7, <1>8, <1>9 DEF Next, Administer, Housekeeping

\* A step outside the deletion of duplicates leaves beside a condemned score the one
\* that is to stay.
LEMMA OtherStepsKeepDuplicatesInv ==
  ASSUME TypeInv, DuplicatesInv, OwnersStay, hk' = hk,
         SongScoresStay \/ \E p \in Players : RemovesPlayer(p)
  PROVE  DuplicatesInv'
<1> SUFFICES ASSUME At("duplicates")
             PROVE  /\ Condemned \subseteq 1 .. inserted'
                    /\ \A id \in DOMAIN scores' \cap Condemned : scores'[id].board \in Songs =>
                         \E kept \in DOMAIN scores' \ Condemned :
                            /\ scores'[kept].pid = scores'[id].pid
                            /\ scores'[kept].board = scores'[id].board
  BY DEF DuplicatesInv, Condemned, At
<1>1. Condemned \subseteq 1 .. inserted /\ inserted \in Nat
  BY Bounds DEF DuplicatesInv, TypeInv, ScoresTyped
<1>2. Condemned \subseteq 1 .. inserted'
  BY <1>1 DEF OwnersStay
<1>3. ASSUME NEW id \in DOMAIN scores' \cap Condemned, scores'[id].board \in Songs
      PROVE  \E kept \in DOMAIN scores' \ Condemned :
                /\ scores'[kept].pid = scores'[id].pid
                /\ scores'[kept].board = scores'[id].board
  <2>1. id \in DOMAIN scores
    BY <1>1, <1>3 DEF OwnersStay
  <2>2. scores'[id].pid = scores[id].pid /\ scores'[id].board = scores[id].board
    BY <1>3, <2>1 DEF OwnersStay
  <2>3. PICK kept \in DOMAIN scores \ Condemned :
          scores[kept].pid = scores[id].pid /\ scores[kept].board = scores[id].board
    BY <1>3, <2>1, <2>2 DEF DuplicatesInv
  <2>4. kept \in DOMAIN scores'
    <3>1. CASE SongScoresStay
      BY <1>3, <2>2, <2>3, <3>1 DEF SongScoresStay
    <3>2. CASE \E p \in Players : RemovesPlayer(p)
      BY <1>3, <2>1, <2>3, <3>2 DEF RemovesPlayer
    <3> QED
      BY <3>1, <3>2
  <2>5. scores'[kept].pid = scores[kept].pid /\ scores'[kept].board = scores[kept].board
    BY <2>3, <2>4 DEF OwnersStay
  <2> QED
    BY <2>2, <2>3, <2>4, <2>5
<1> QED
  BY <1>2, <1>3

\* The newest of the scores that are the same is no duplicate of another.
LEMMA AggregationLeavesNewest ==
  ASSUME TypeInv, AggregateDuplicates
  PROVE  DuplicatesInv'
<1> DEFINE newest == {i \in DOMAIN scores : ~\E j \in DOMAIN scores : j > i /\ Same(i, j)}
           groups == {Duplicates(id) : id \in newest} \ {{}}
<1>1. hk' = [task |-> "duplicates", work |-> groups] /\ UNCHANGED <<scores, inserted>>
  BY DEF AggregateDuplicates, Goto, collections
<1>2. \A id \in UNION groups : \E n \in newest : id \in Duplicates(n)
  OBVIOUS
<1> HIDE DEF groups
<1>3. hk'.work = groups
  BY <1>1
<1>4. UNION groups \subseteq 1 .. inserted
  BY <1>2 DEF Duplicates, TypeInv, ScoresTyped
<1>5. newest \cap UNION groups = {}
  <2> SUFFICES ASSUME NEW n \in newest, n \in UNION groups PROVE FALSE
    OBVIOUS
  <2>1. PICK m \in newest : n \in Duplicates(m)
    BY <1>2
  <2>2. n < m /\ Same(n, m) /\ m \in DOMAIN scores
    BY <2>1 DEF Duplicates
  <2>3. n \in Int /\ m \in Int
    BY <2>2 DEF TypeInv, ScoresTyped
  <2> QED
    BY <2>2, <2>3
<1>6. ASSUME NEW id \in DOMAIN scores \cap UNION groups, scores[id].board \in Songs
      PROVE  \E kept \in DOMAIN scores \ UNION groups :
                scores[kept].pid = scores[id].pid /\ scores[kept].board = scores[id].board
  <2>1. PICK n \in newest : id \in Duplicates(n)
    BY <1>2, <1>6
  <2>2. Same(id, n)
    BY <2>1 DEF Duplicates
  <2>3. scores[id].board \notin Battles
    BY <1>6, SongsAreNoBattles, Bounds DEF Battles
  <2>4. scores[n].pid = scores[id].pid /\ scores[n].board = scores[id].board
    BY <2>2, <2>3 DEF Same
  <2> QED
    BY <1>5, <2>1, <2>4
<1> QED
  BY <1>1, <1>3, <1>4, <1>6 DEF DuplicatesInv, Condemned

LEMMA DeletionLeavesKept ==
  ASSUME TypeInv, DuplicatesInv, DeleteDuplicates
  PROVE  DuplicatesInv'
<1>1. PICK group \in hk.work :
        /\ DOMAIN scores' = DOMAIN scores \ group
        /\ hk' = [task |-> "duplicates", work |-> hk.work \ {group}]
  BY DeleteManyShrinks DEF DeleteDuplicates, Goto
<1>2. \A id \in DOMAIN scores' : scores'[id] = scores[id]
  BY DeleteManyShrinks DEF DeleteDuplicates, Shrinks
<1>3. inserted' = inserted /\ At("duplicates")
  BY DEF DeleteDuplicates
<1>4. UNION hk'.work \subseteq Condemned /\ group \subseteq Condemned
  BY <1>1 DEF Condemned
<1>5. ASSUME NEW id \in DOMAIN scores' \cap UNION hk'.work, scores'[id].board \in Songs
      PROVE  \E kept \in DOMAIN scores' \ UNION hk'.work :
                scores'[kept].pid = scores'[id].pid /\ scores'[kept].board = scores'[id].board
  <2>1. id \in DOMAIN scores \cap Condemned /\ scores'[id] = scores[id]
    BY <1>1, <1>2, <1>4, <1>5
  <2>2. PICK kept \in DOMAIN scores \ Condemned :
          scores[kept].pid = scores[id].pid /\ scores[kept].board = scores[id].board
    BY <1>3, <1>5, <2>1 DEF DuplicatesInv
  <2>3. kept \in DOMAIN scores' \ UNION hk'.work
    BY <1>1, <1>4, <2>2
  <2> QED
    BY <1>2, <2>1, <2>2, <2>3
<1> QED
  BY <1>3, <1>4, <1>5 DEF DuplicatesInv, Condemned

LEMMA NextKeepsDuplicatesInv ==
  ASSUME TypeInv, DuplicatesInv, [Next]_vars
  PROVE  DuplicatesInv'
<1>1. CASE Housekeeping
  <2>1. CASE AggregateDuplicates
    BY <2>1, AggregationLeavesNewest
  <2>2. CASE DeleteDuplicates
    BY <2>2, DeletionLeavesKept
  <2>3. CASE ~AggregateDuplicates /\ ~DeleteDuplicates
    <3>1. hk'.task # "duplicates"
      <4>1. CASE CleanupInvalidScores
        BY <4>1 DEF CleanupInvalidScores, Goto
      <4>2. CASE FindBattles
        BY <4>2 DEF FindBattles, Goto
      <4>3. CASE ReadBans
        BY <4>3 DEF ReadBans, Goto
      <4>4. CASE CleanupBannedUserScores
        BY <4>4 DEF CleanupBannedUserScores, Goto
      <4>5. CASE Sleep
        BY <4>5 DEF Sleep, Waiting
      <4>6. CASE ExamineBattle
        <5>1. PICK b \in hk.work :
                \/ hk' = [task |-> "delete battle", work |-> hk.work, battle |-> b]
                \/ hk' = [task |-> "battles", work |-> hk.work \ {b}]
          BY <4>6 DEF ExamineBattle, Goto
        <5>2. CASE hk' = [task |-> "delete battle", work |-> hk.work, battle |-> b]
          BY <5>2
        <5>3. CASE hk' = [task |-> "battles", work |-> hk.work \ {b}]
          BY <5>3
        <5> QED
          BY <5>1, <5>2, <5>3
      <4>7. CASE DeleteExpiredBattleScores
        BY <4>7 DEF DeleteExpiredBattleScores, Goto
      <4>8. CASE DeleteExpiredBattle
        <5>1. hk \in [task : {"delete battle", "delete scores"}, work : SUBSET Battles, battle : Battles]
          BY <4>8, HousekeepingKinds DEF DeleteExpiredBattle, At, TypeInv
        <5> QED
          BY <4>8, <5>1 DEF DeleteExpiredBattle
      <4> QED
        BY <1>1, <2>3, <4>1, <4>2, <4>3, <4>4, <4>5, <4>6, <4>7, <4>8 DEF Housekeeping
    <3> QED
      BY <3>1 DEF DuplicatesInv, At
  <2> QED
    BY <2>1, <2>2, <2>3
<1>2. CASE ~Housekeeping
  <2>1. hk' = hk
    <3>1. ASSUME NEW k \in Calls, Record(k)
          PROVE  hk' = hk
      BY <3>1 DEF Record, RecordSong, RecordBattle, FindScore, FindScoreFails, UpdateScore, UpsertMisses,
                     UpsertInserts
    <3>2. ASSUME NEW k \in Calls, Battle(k)
          PROVE  hk' = hk
      BY <3>2 DEF Battle, GetNextSetlistID, InsertBattle, DeleteBattle, DeleteBattleScores
    <3>3. ASSUME NEW b \in Battles, AgeBattle(b)
          PROVE  hk' = hk
      BY <3>3 DEF AgeBattle
    <3>4. ASSUME Administer \/ RefillConfigCache \/ UNCHANGED vars
          PROVE  hk' = hk
      BY <3>4 DEF Administer, Ban, Unban, DeletePlayerScores, RefillConfigCache, vars
    <3> QED
      BY <1>2, <3>1, <3>2, <3>3, <3>4 DEF Next
  <2>2. ~DeleteDuplicates
    BY <1>2 DEF Housekeeping
  <2> QED
    BY <2>1, <2>2, OwnersAlwaysStay, SongDeletions, OtherStepsKeepDuplicatesInv
<1> QED
  BY <1>1, <1>2

LEMMA DuplicatesInvariant == Spec => []DuplicatesInv
  BY InitDuplicates, NextKeepsDuplicatesInv, TypesInvariant, PTL DEF Spec

\* For any number of documents that upserts have inserted twice, and whatever is
\* recorded and deleted between the aggregation and the deletions it asks for
\* (housekeeping_tasks.go:63), a player who has a score on a song keeps one until all of
\* the player's scores are deleted.
THEOREM SongScoresKept == Spec => SongScoreKept
<1> DEFINE Kept ==
        \A p \in Players, song \in Songs :
          Matching(p, song) # {} /\ Matching(p, song)' = {}
            => \A id \in DOMAIN scores' : scores'[id].pid # p
<1>1. TypeInv /\ DuplicatesInv /\ [Next]_vars => [Kept]_vars
  <2> SUFFICES ASSUME TypeInv, DuplicatesInv, [Next]_vars, NEW p \in Players, NEW song \in Songs,
                      NEW old \in Matching(p, song), Matching(p, song)' = {}
               PROVE  \A id \in DOMAIN scores' : scores'[id].pid # p
    OBVIOUS
  <2>1. OwnersStay
    BY OwnersAlwaysStay
  <2>2. old \in DOMAIN scores /\ scores[old].pid = p /\ scores[old].board = song
    BY DEF Matching
  <2>3. \A id \in DOMAIN scores \cap DOMAIN scores' : ~(scores[id].pid = p /\ scores[id].board = song)
    BY <2>1 DEF Matching, OwnersStay
  <2>4. ~SongScoresStay
    BY <2>2, <2>3 DEF SongScoresStay
  <2>5. ~DeleteDuplicates
    <3> SUFFICES ASSUME DeleteDuplicates PROVE FALSE
      OBVIOUS
    <3>1. PICK group \in hk.work : DOMAIN scores' = DOMAIN scores \ group
      BY DeleteManyShrinks DEF DeleteDuplicates
    <3>2. old \in Condemned /\ At("duplicates") /\ group \subseteq Condemned
      BY <2>2, <2>3, <3>1 DEF Condemned, DeleteDuplicates
    <3>3. PICK kept \in DOMAIN scores \ Condemned : scores[kept].pid = p /\ scores[kept].board = song
      BY <2>2, <3>2 DEF DuplicatesInv
    <3> QED
      BY <2>3, <3>1, <3>2, <3>3
  <2>6. PICK q \in Players : RemovesPlayer(q)
    BY <2>4, <2>5, SongDeletions
  <2>7. q = p
    BY <2>2, <2>3, <2>6 DEF RemovesPlayer
  <2>8. \A id \in DOMAIN scores' : id \in DOMAIN scores /\ scores[id].pid # p
    BY <2>6, <2>7 DEF RemovesPlayer
  <2> QED
    BY <2>1, <2>8 DEF OwnersStay
<1>2. Spec => [][Kept]_vars
  BY <1>1, TypesInvariant, DuplicatesInvariant, PTL DEF Spec
<1> QED
  BY <1>2 DEF SongScoreKept
==============================================================================
