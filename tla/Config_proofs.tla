----------------------------- MODULE Config_proofs -----------------------------
(***************************************************************************)
(* Proofs about the config document, for any players, goroutines, bans and *)
(* bounds: types, that no ID is handed out twice, and that the list an     *)
(* unban writes lets its player in.                                        *)
(***************************************************************************)
EXTENDS Config, TLAPS

------------------------------------------------------------------------------
(* What the proofs use of the assumption.                                  *)

LEMMA Bounds ==
  /\ Keeper \in Calls
  /\ TTL \in Nat \ {0}
  /\ MaxIDs \in Nat
  /\ MaxBans \in Nat
  BY ConfigAssumption

\* The records of calls, told apart by op.
LEMMA CallRecordKinds ==
  ASSUME NEW r \in CallRecords
  PROVE  /\ r.op = "invalidate" => r.id \in IDs
         /\ r.op = "fill" => r.bans \in SUBSET BanRecord
         /\ r.op = "unban" => /\ r.player \in Players
                              /\ r.bans \in SUBSET BanRecord
                              /\ r.lastID \in 0 .. MaxIDs
         /\ r.op \in {"idle", "invalidate", "fill", "unban"}
<1>1. CASE r = Idle
  BY <1>1 DEF Idle
<1>2. CASE r \in [op : {"invalidate"}, id : IDs]
  BY <1>2
<1>3. CASE r \in [op : {"fill"}, bans : SUBSET BanRecord]
  BY <1>3
<1>4. CASE r \in [op : {"unban"}, player : Players, bans : SUBSET BanRecord, lastID : 0 .. MaxIDs]
  BY <1>4
<1> QED
  BY <1>1, <1>2, <1>3, <1>4 DEF CallRecords
------------------------------------------------------------------------------
(* Lists of bans.                                                          *)

\* A list whose bans are the first n or some of them, each once.
Numbered(list, n) ==
  /\ list \in SUBSET BanRecord
  /\ \A ban \in list : ban.number <= n
  /\ \A ban, other \in list : ban.number = other.number => ban = other

LEMMA LiftedBan ==
  ASSUME NEW ban \in BanRecord
  PROVE  /\ [ban EXCEPT !.until = "past"] \in BanRecord
         /\ [ban EXCEPT !.until = "past"].number = ban.number
         /\ [ban EXCEPT !.until = "past"].player = ban.player
  BY DEF BanRecord

\* Lifting a ban changes when it expires and leaves the list numbered.
LEMMA LiftedListNumbered ==
  ASSUME NEW list, NEW n \in Nat, Numbered(list, n), NEW lifted \in SUBSET list
  PROVE  Numbered(WithLifted(lifted, list), n)
<1> DEFINE Lifted(ban) == [ban EXCEPT !.until = "past"]
           written == WithLifted(lifted, list)
<1>1. list \in SUBSET BanRecord /\ \A ban \in list : ban.number <= n
  BY DEF Numbered
<1>2. \A ban \in written :
        \/ ban \in list \ lifted
        \/ \E old \in lifted : ban = Lifted(old)
  BY DEF WithLifted
<1>3. \A old \in lifted : Lifted(old) \in BanRecord /\ Lifted(old).number = old.number
  BY <1>1, LiftedBan
<1> HIDE DEF Lifted, written
<1>4. \A ban \in written : ban \in BanRecord /\ ban.number <= n
  BY <1>1, <1>2, <1>3
<1>5. ASSUME NEW ban \in written, NEW other \in written, ban.number = other.number
      PROVE  ban = other
  <2>1. CASE ban \in list \ lifted /\ other \in list \ lifted
    BY <2>1, <1>5 DEF Numbered
  <2>2. CASE \E old \in lifted : ban = Lifted(old)
    <3>1. PICK old \in lifted : ban = Lifted(old)
      BY <2>2
    <3>2. CASE other \in list \ lifted
      BY <3>1, <3>2, <1>3, <1>5 DEF Numbered
    <3>3. CASE \E o \in lifted : other = Lifted(o)
      BY <3>1, <3>3, <1>3, <1>5 DEF Numbered
    <3> QED
      BY <3>2, <3>3, <1>2
  <2>3. CASE ban \in list \ lifted /\ \E old \in lifted : other = Lifted(old)
    BY <2>3, <1>3, <1>5 DEF Numbered
  <2> QED
    BY <2>1, <2>2, <2>3, <1>2
<1> QED
  BY <1>4, <1>5 DEF Numbered, written
------------------------------------------------------------------------------
(* Types.  The bans in the document and in the hands of an unban are among *)
(* those that were pronounced, or a new one might have a used number.      *)

ListsNumbered ==
  /\ Numbered(bans, banned)
  /\ \A k \in Calls : call[k].op = "unban" => Numbered(call[k].bans, banned)

TypeInv == TypeOK /\ ListsNumbered

LEMMA InitTyped == Init => TypeInv
<1> SUFFICES ASSUME Init PROVE TypeInv
  OBVIOUS
<1>1. cache \in [bans : SUBSET BanRecord, age : 0 .. TTL]
  BY Bounds DEF Init, NoCache
<1>2. call \in [Calls -> CallRecords] /\ \A k \in Calls : call[k].op = "idle"
  BY DEF Init, CallRecords, Idle
<1>3. lastID \in 0 .. MaxIDs /\ banned \in 0 .. MaxBans
  BY Bounds DEF Init
<1> QED
  BY <1>1, <1>2, <1>3 DEF Init, TypeInv, TypeOK, ListsNumbered, Numbered

\* A call goes on: nothing else is asked of it than that it has a record and, if
\* it is about to write bans, a numbered list.
LEMMA CallContinues ==
  ASSUME TypeInv, NEW k \in Calls, NEW next \in CallRecords,
         next.op = "unban" => Numbered(next.bans, banned),
         Continue(k, next)
  PROVE  /\ call' \in [Calls -> CallRecords]
         /\ \A m \in Calls : call'[m].op = "unban" => Numbered(call'[m].bans, banned)
         /\ call'[k] = next
         /\ \A m \in Calls \ {k} : call'[m] = call[m]
<1>1. call \in [Calls -> CallRecords]
  BY DEF TypeInv, TypeOK
<1>2. /\ call' \in [Calls -> CallRecords]
      /\ call'[k] = next
      /\ \A m \in Calls \ {k} : call'[m] = call[m]
  BY <1>1 DEF Continue
<1> QED
  BY <1>2 DEF TypeInv, ListsNumbered

LEMMA IDsKeepTypes ==
  ASSUME TypeInv, NEW k \in Calls, IncrementCounter(k) \/ InvalidateConfigCache(k)
  PROVE  TypeInv'
<1>1. CASE IncrementCounter(k)
  <2>1. lastID' \in 0 .. MaxIDs /\ lastID' \in IDs
    BY <1>1, Bounds DEF IncrementCounter, TypeInv, TypeOK, IDs
  <2> DEFINE next == [op |-> "invalidate", id |-> lastID']
  <2>2. next \in CallRecords /\ next.op # "unban"
    BY <2>1 DEF CallRecords
  <2>3. Continue(k, next)
    BY <1>1 DEF IncrementCounter
  <2> HIDE DEF next
  <2>4. /\ call' \in [Calls -> CallRecords]
        /\ \A m \in Calls : call'[m].op = "unban" => Numbered(call'[m].bans, banned)
    BY <2>2, <2>3, CallContinues
  <2> QED
    BY <1>1, <2>1, <2>4 DEF IncrementCounter, TypeInv, TypeOK, ListsNumbered, history
<1>2. CASE InvalidateConfigCache(k)
  <2>1. Idle \in CallRecords /\ Idle.op # "unban"
    BY DEF CallRecords, Idle
  <2>2. /\ call' \in [Calls -> CallRecords]
        /\ \A m \in Calls : call'[m].op = "unban" => Numbered(call'[m].bans, banned)
    BY <1>2, <2>1, CallContinues DEF InvalidateConfigCache, Return
  <2>3. call[k].id \in IDs
    BY <1>2, CallRecordKinds DEF InvalidateConfigCache, TypeInv, TypeOK
  <2>4. NoCache \in [bans : SUBSET BanRecord, age : 0 .. TTL]
    BY Bounds DEF NoCache
  <2> QED
    BY <1>2, <2>2, <2>3, <2>4 DEF InvalidateConfigCache, TypeInv, TypeOK, ListsNumbered, document
<1> QED
  BY <1>1, <1>2

LEMMA CacheKeepsTypes ==
  ASSUME TypeInv, NEW k \in Calls, Hit(k) \/ Miss(k) \/ Fill(k)
  PROVE  TypeInv'
<1>1. CASE Hit(k)
  BY <1>1 DEF Hit, vars, document, history, TypeInv, TypeOK, ListsNumbered
<1>2. CASE Miss(k)
  <2> DEFINE next == [op |-> "fill", bans |-> bans]
  <2>1. next \in CallRecords /\ next.op # "unban"
    BY DEF CallRecords, TypeInv, TypeOK
  <2>2. Continue(k, next)
    BY <1>2 DEF Miss
  <2> HIDE DEF next
  <2>3. /\ call' \in [Calls -> CallRecords]
        /\ \A m \in Calls : call'[m].op = "unban" => Numbered(call'[m].bans, banned)
    BY <2>1, <2>2, CallContinues
  <2> QED
    BY <1>2, <2>3 DEF Miss, TypeInv, TypeOK, ListsNumbered, document, history
<1>3. CASE Fill(k)
  <2>1. Idle \in CallRecords /\ Idle.op # "unban"
    BY DEF CallRecords, Idle
  <2>2. /\ call' \in [Calls -> CallRecords]
        /\ \A m \in Calls : call'[m].op = "unban" => Numbered(call'[m].bans, banned)
    BY <1>3, <2>1, CallContinues DEF Fill, Return
  <2>3. call[k].bans \in SUBSET BanRecord
    BY <1>3, CallRecordKinds DEF Fill, TypeInv, TypeOK
  <2>4. [bans |-> call[k].bans, age |-> 0] \in [bans : SUBSET BanRecord, age : 0 .. TTL]
    BY <2>3, Bounds
  <2> QED
    BY <1>3, <2>2, <2>4 DEF Fill, TypeInv, TypeOK, ListsNumbered, document, history
<1> QED
  BY <1>1, <1>2, <1>3

\* The number of a new ban is greater than those in the list, and those in the lists
\* that are about to be written.
LEMMA BanKeepsTypes ==
  ASSUME TypeInv, NEW k \in Calls, NEW p \in Players, NEW until \in {"time", "never"},
         BanPlayer(k, p, until)
  PROVE  TypeInv'
<1> DEFINE new == [player |-> p, number |-> banned', until |-> until]
<1>1. banned \in Nat /\ banned' \in Nat /\ banned' = banned + 1 /\ banned' \in 1 .. MaxBans
  BY Bounds DEF BanPlayer, TypeInv, TypeOK
<1>2. new \in BanRecord /\ new.number = banned'
  BY <1>1 DEF BanRecord
<1>3. bans' = bans \cup {new}
  BY DEF BanPlayer
<1>4. \A ban \in BanRecord : ban.number \in Nat
  BY Bounds DEF BanRecord
<1> HIDE DEF new
<1>5. Numbered(bans', banned')
  <2>1. Numbered(bans, banned)
    BY DEF TypeInv, ListsNumbered
  <2>2. \A ban \in bans' : ban \in BanRecord /\ ban.number <= banned'
    BY <1>1, <1>2, <1>3, <1>4, <2>1 DEF Numbered
  <2>3. \A ban \in bans : ban.number # new.number
    BY <1>1, <1>2, <1>4, <2>1 DEF Numbered
  <2> QED
    BY <1>3, <2>1, <2>2, <2>3 DEF Numbered
<1>6. \A m \in Calls : call'[m].op = "unban" => Numbered(call'[m].bans, banned')
  <2> SUFFICES ASSUME NEW m \in Calls, call[m].op = "unban", Numbered(call[m].bans, banned)
               PROVE  Numbered(call[m].bans, banned')
    BY DEF BanPlayer, TypeInv, ListsNumbered
  <2> QED
    BY <1>1, <1>4 DEF Numbered
<1>7. elapsed' \in SUBSET (1 .. banned')
  BY <1>1 DEF BanPlayer, TypeInv, TypeOK
<1> QED
  BY <1>1, <1>5, <1>6, <1>7 DEF BanPlayer, TypeInv, TypeOK, ListsNumbered, Numbered

LEMMA UnbanKeepsTypes ==
  ASSUME TypeInv, NEW k \in Calls,
         UnbanWrite(k) \/ \E p \in Players : UnbanRead(k, p)
  PROVE  TypeInv'
<1>1. ASSUME NEW p \in Players, UnbanRead(k, p)
      PROVE  TypeInv'
  <2> DEFINE list == WithLifted(LatestActive(p, bans), bans)
             next == [op |-> "unban", player |-> p, lastID |-> lastID, bans |-> list]
  <2>1. Numbered(list, banned)
    <3>1. LatestActive(p, bans) \in SUBSET bans
      BY DEF LatestActive, Latest, BansOf
    <3>2. banned \in Nat /\ Numbered(bans, banned)
      BY Bounds DEF TypeInv, TypeOK, ListsNumbered
    <3> QED
      BY <3>1, <3>2, LiftedListNumbered
  <2>2. Continue(k, next)
    BY <1>1 DEF UnbanRead
  <2> HIDE DEF list
  <2>3. next \in CallRecords
    BY <2>1 DEF CallRecords, Numbered, TypeInv, TypeOK
  <2>4. next.op = "unban" => Numbered(next.bans, banned)
    BY <2>1
  <2> HIDE DEF next
  <2>5. /\ call' \in [Calls -> CallRecords]
        /\ \A m \in Calls : call'[m].op = "unban" => Numbered(call'[m].bans, banned)
    BY <2>2, <2>3, <2>4, CallContinues
  <2> QED
    BY <1>1, <2>5 DEF UnbanRead, TypeInv, TypeOK, ListsNumbered, document, history
<1>2. CASE UnbanWrite(k)
  <2>1. Idle \in CallRecords /\ Idle.op # "unban"
    BY DEF CallRecords, Idle
  <2>2. /\ call' \in [Calls -> CallRecords]
        /\ \A m \in Calls : call'[m].op = "unban" => Numbered(call'[m].bans, banned)
    BY <1>2, <2>1, CallContinues DEF UnbanWrite, Return
  <2>3. Numbered(bans', banned)
    BY <1>2 DEF UnbanWrite, TypeInv, ListsNumbered
  <2> QED
    BY <1>2, <2>2, <2>3 DEF UnbanWrite, TypeInv, TypeOK, ListsNumbered, Numbered, history
<1> QED
  BY <1>1, <1>2

LEMMA TimeKeepsTypes ==
  ASSUME TypeInv, GrowOlder \/ \E number \in 1 .. MaxBans : BanExpires(number)
  PROVE  TypeInv'
<1>1. CASE GrowOlder
  <2>1. cache' \in [bans : SUBSET BanRecord, age : 0 .. TTL]
    BY <1>1, Bounds DEF GrowOlder, Valid, TypeInv, TypeOK
  <2> QED
    BY <1>1, <2>1 DEF GrowOlder, TypeInv, TypeOK, ListsNumbered, document, history
<1>2. ASSUME NEW number \in 1 .. MaxBans, BanExpires(number)
      PROVE  TypeInv'
  BY <1>2, Bounds DEF BanExpires, TypeInv, TypeOK, ListsNumbered, document, history
<1> QED
  BY <1>1, <1>2

LEMMA NextKeepsTypes ==
  ASSUME TypeInv, [Next]_vars
  PROVE  TypeInv'
<1>1. CASE UNCHANGED vars
  BY <1>1 DEF vars, document, history, TypeInv, TypeOK, ListsNumbered
<1>2. CASE Next
  BY <1>2, IDsKeepTypes, CacheKeepsTypes, BanKeepsTypes, UnbanKeepsTypes, TimeKeepsTypes DEF Next
<1> QED
  BY <1>1, <1>2

LEMMA TypesInvariant == Spec => []TypeInv
  BY InitTyped, NextKeepsTypes, PTL DEF Spec

\* Every variable has its type, and no two bans in the document were pronounced as
\* one: an unban rewrites the list with one it read before, but changes no ban's
\* number in it.
THEOREM TypeCorrect == Spec => []TypeOK
  BY TypesInvariant, PTL DEF TypeInv
------------------------------------------------------------------------------
(* No ID is handed out twice.  The counter never goes back, an ID that was *)
(* drawn is at most the counter, and an ID on its way is on its way to one *)
(* handler and was not handed out before.                                  *)

IDInv ==
  /\ \A id \in handed : id <= lastID
  /\ \A k \in Calls : call[k].op = "invalidate" => call[k].id <= lastID
  /\ UniqueIDs

LEMMA InitIDs == Init => IDInv
  BY DEF Init, Idle, IDInv, UniqueIDs

\* A step that hands out no ID, draws none and leaves the handlers that are about to
\* return one where they are.
LEMMA OtherStepsKeepIDs ==
  ASSUME IDInv, lastID' = lastID, handed' = handed,
         \A m \in Calls : call'[m].op = "invalidate" => call'[m] = call[m]
  PROVE  IDInv'
  BY DEF IDInv, UniqueIDs

LEMMA OtherCallKeepsIDs ==
  ASSUME TypeInv, IDInv, NEW k \in Calls, NEW next, next.op # "invalidate", Continue(k, next),
         lastID' = lastID, handed' = handed
  PROVE  IDInv'
<1>1. \A m \in Calls : call'[m].op = "invalidate" => call'[m] = call[m]
  BY DEF Continue, TypeInv, TypeOK
<1> QED
  BY <1>1, OtherStepsKeepIDs

LEMMA NextKeepsIDs ==
  ASSUME TypeInv, IDInv, [Next]_vars
  PROVE  IDInv'
<1>1. ASSUME NEW k \in Calls, IncrementCounter(k)
      PROVE  IDInv'
  <2>1. /\ lastID \in Nat
        /\ handed \subseteq Nat
        /\ \A m \in Calls : call[m].op = "invalidate" => call[m].id \in Nat
    BY Bounds, CallRecordKinds DEF TypeInv, TypeOK, IDs
  <2>2. /\ call'[k] = [op |-> "invalidate", id |-> lastID']
        /\ \A m \in Calls \ {k} : call'[m] = call[m]
    BY <1>1 DEF IncrementCounter, Continue, TypeInv, TypeOK
  <2>3. lastID' = lastID + 1 /\ handed' = handed
    BY <1>1 DEF IncrementCounter, history
  <2>4. \A m \in Calls \ {k} : call'[m].op = "invalidate" => call'[m].id < lastID'
    BY <2>1, <2>2, <2>3 DEF IDInv
  <2>5. \A id \in handed' : id < lastID'
    BY <2>1, <2>3 DEF IDInv
  <2>6. /\ \A id \in handed' : id <= lastID'
        /\ \A m \in Calls : call'[m].op = "invalidate" => call'[m].id <= lastID'
    BY <2>1, <2>2, <2>3, <2>4, <2>5
  <2>7. ASSUME NEW m \in Calls, call'[m].op = "invalidate"
        PROVE  /\ call'[m].id \notin handed'
               /\ \A other \in Calls \ {m} :
                    call'[other].op = "invalidate" => call'[other].id # call'[m].id
    <3>1. CASE m = k
      BY <3>1, <2>1, <2>2, <2>3, <2>4, <2>5
    <3>2. CASE m # k
      BY <3>2, <2>1, <2>2, <2>3, <2>4, <2>7 DEF IDInv, UniqueIDs
    <3> QED
      BY <3>1, <3>2
  <2> QED
    BY <2>6, <2>7 DEF IDInv, UniqueIDs
<1>2. ASSUME NEW k \in Calls, InvalidateConfigCache(k)
      PROVE  IDInv'
  <2>1. /\ call[k].op = "invalidate"
        /\ call'[k].op = "idle"
        /\ \A m \in Calls \ {k} : call'[m] = call[m]
    BY <1>2 DEF InvalidateConfigCache, Return, Continue, Idle, TypeInv, TypeOK
  <2>2. lastID' = lastID /\ handed' = handed \cup {call[k].id}
    BY <1>2 DEF InvalidateConfigCache, document
  <2> QED
    BY <2>1, <2>2 DEF IDInv, UniqueIDs
<1>3. ASSUME NEW k \in Calls, Hit(k)
      PROVE  IDInv'
  BY <1>3 DEF Hit, vars, document, history, IDInv, UniqueIDs
<1>4. ASSUME NEW k \in Calls, Miss(k)
      PROVE  IDInv'
  BY <1>4, OtherCallKeepsIDs DEF Miss, document, history
<1>5. ASSUME NEW k \in Calls, Fill(k) \/ UnbanWrite(k)
      PROVE  IDInv'
  BY <1>5, OtherCallKeepsIDs DEF Fill, UnbanWrite, Return, Idle, document, history
<1>6. ASSUME NEW k \in Calls, NEW p \in Players, UnbanRead(k, p)
      PROVE  IDInv'
  BY <1>6, OtherCallKeepsIDs DEF UnbanRead, document, history
<1>7. ASSUME NEW k \in Calls, NEW p \in Players, NEW until \in {"time", "never"},
             BanPlayer(k, p, until)
      PROVE  IDInv'
  BY <1>7, OtherStepsKeepIDs DEF BanPlayer
<1>8. CASE GrowOlder
  BY <1>8, OtherStepsKeepIDs DEF GrowOlder, document, history
<1>9. ASSUME NEW number \in 1 .. MaxBans, BanExpires(number)
      PROVE  IDInv'
  BY <1>9, OtherStepsKeepIDs DEF BanExpires, document, history
<1>10. CASE UNCHANGED vars
  BY <1>10, OtherStepsKeepIDs DEF vars, document, history
<1> QED
  BY <1>1, <1>2, <1>3, <1>4, <1>5, <1>6, <1>7, <1>8, <1>9, <1>10 DEF Next

\* No handler is given an ID that another one has or is about to have (utils.go:112),
\* although unbans write back a part of the document they read earlier: the counter is
\* no part of what they write.
THEOREM IDsAreUnique == Spec => []UniqueIDs
<1>1. IDInv => UniqueIDs
  BY DEF IDInv
<1> QED
  BY <1>1, InitIDs, NextKeepsIDs, TypesInvariant, PTL DEF Spec
------------------------------------------------------------------------------
(* The ban that is lifted is the one a login would look at.                *)

\* A list in which the most recent active ban of p is lifted lets p in: his latest ban
\* is either that one, or was not active before.
LEMMA LiftedListAllows ==
  ASSUME NEW p \in Players, NEW list, list \in SUBSET BanRecord
  PROVE  LoginAllows(p, WithLifted(LatestActive(p, list), list))
<1> DEFINE lifted == LatestActive(p, list)
           Lifted(ban) == [ban EXCEPT !.until = "past"]
           written == WithLifted(lifted, list)
<1>1. written = (list \ lifted) \cup {Lifted(ban) : ban \in lifted}
  BY DEF WithLifted
<1>2. \A ban \in lifted : ban \in list /\ ban \in BanRecord /\ ban.player = p
  BY DEF LatestActive, Latest, BansOf
<1>3. \A ban \in lifted :
        Lifted(ban).until = "past" /\ Lifted(ban).player = p /\ Lifted(ban).number = ban.number
  BY <1>2 DEF BanRecord
<1>4. \A ban \in list : ban.number \in Nat
  BY Bounds DEF BanRecord
<1> SUFFICES ASSUME NEW ban \in Latest(BansOf(p, written)), Active(ban) PROVE FALSE
  BY DEF LoginAllows
<1>5. ban \in written /\ ban.player = p /\ \A other \in BansOf(p, written) : other.number <= ban.number
  BY DEF Latest, BansOf
<1>6. ban \in list \ lifted
  BY <1>1, <1>3, <1>5 DEF Active
<1>7. PICK later \in list : later.player = p /\ Active(later) /\ ~(later.number <= ban.number)
  BY <1>5, <1>6 DEF LatestActive, Latest, BansOf
<1>8. PICK kept \in written : kept.player = p /\ kept.number = later.number
  <2>1. CASE later \in lifted
    BY <1>1, <1>3, <2>1
  <2>2. CASE later \notin lifted
    BY <1>1, <1>7, <2>2
  <2> QED
    BY <2>1, <2>2
<1> QED
  BY <1>5, <1>7, <1>8 DEF BansOf

\* What an unban is about to write lets its player in.
UnbanInv == \A k \in Calls : call[k].op = "unban" => LoginAllows(call[k].player, call[k].bans)

LEMMA OtherStepsKeepUnbans ==
  ASSUME UnbanInv, elapsed \subseteq elapsed',
         \A m \in Calls : call'[m].op = "unban" => call'[m] = call[m]
  PROVE  UnbanInv'
<1> SUFFICES ASSUME NEW m \in Calls, call'[m].op = "unban"
             PROVE  LoginAllows(call[m].player, call[m].bans)'
  BY DEF UnbanInv
<1>1. call'[m] = call[m] /\ LoginAllows(call[m].player, call[m].bans)
  BY DEF UnbanInv
<1> QED
  BY <1>1 DEF LoginAllows, Active, Latest, BansOf

LEMMA NextKeepsUnbans ==
  ASSUME TypeInv, UnbanInv, [Next]_vars
  PROVE  UnbanInv'
<1>1. ASSUME NEW k \in Calls, NEW p \in Players, UnbanRead(k, p)
      PROVE  UnbanInv'
  <2>1. /\ call'[k].player = p /\ call'[k].bans = WithLifted(LatestActive(p, bans), bans)
        /\ \A m \in Calls \ {k} : call'[m] = call[m]
        /\ elapsed' = elapsed
    BY <1>1 DEF UnbanRead, Continue, TypeInv, TypeOK
  <2>2. LoginAllows(p, WithLifted(LatestActive(p, bans), bans))
    BY LiftedListAllows DEF TypeInv, TypeOK
  <2> QED
    BY <2>1, <2>2 DEF UnbanInv, LoginAllows, Active
<1>2. ASSUME NEW k \in Calls, NEW next, next.op # "unban", Continue(k, next), elapsed' = elapsed
      PROVE  UnbanInv'
  <2>1. \A m \in Calls : call'[m].op = "unban" => call'[m] = call[m]
    BY <1>2 DEF Continue, TypeInv, TypeOK
  <2> QED
    BY <1>2, <2>1, OtherStepsKeepUnbans
<1>3. ASSUME NEW k \in Calls, IncrementCounter(k) \/ Miss(k)
      PROVE  UnbanInv'
  BY <1>2, <1>3 DEF IncrementCounter, Miss
<1>4. ASSUME NEW k \in Calls, InvalidateConfigCache(k) \/ Fill(k) \/ UnbanWrite(k)
      PROVE  UnbanInv'
  BY <1>2, <1>4 DEF InvalidateConfigCache, Fill, UnbanWrite, Return, Idle
<1>5. ASSUME NEW k \in Calls, NEW p \in Players, NEW until \in {"time", "never"},
             BanPlayer(k, p, until)
      PROVE  UnbanInv'
  BY <1>5, OtherStepsKeepUnbans DEF BanPlayer
<1>6. ASSUME NEW k \in Calls, Hit(k)
      PROVE  UnbanInv'
  BY <1>6, OtherStepsKeepUnbans DEF Hit, vars
<1>7. CASE GrowOlder
  BY <1>7, OtherStepsKeepUnbans DEF GrowOlder
<1>8. ASSUME NEW number \in 1 .. MaxBans, BanExpires(number)
      PROVE  UnbanInv'
  BY <1>8, OtherStepsKeepUnbans DEF BanExpires
<1>9. CASE UNCHANGED vars
  BY <1>9, OtherStepsKeepUnbans DEF vars
<1> QED
  BY <1>1, <1>3, <1>4, <1>5, <1>6, <1>7, <1>8, <1>9 DEF Next

\* A handler that lifts a ban writes a list that passes Login's check (login.go:168),
\* although it chooses the most recent active ban (restapi.go:858) and Login the most recent
\* one, and although others are pronounced between its read and its write.  When Login comes
\* to read that list, through its cache, is not said here.
THEOREM UnbanListsLetIn == Spec => UnbanLetsIn
<1> DEFINE MayLogin ==
        \A k \in Calls : call[k].op = "unban" /\ call'[k] = Idle => LoginAllows(call[k].player, bans')
<1>1. ASSUME TypeInv, UnbanInv, Next PROVE MayLogin
  <2> SUFFICES ASSUME NEW k \in Calls, call[k].op = "unban", call'[k] = Idle
               PROVE  LoginAllows(call[k].player, bans')
    OBVIOUS
  <2>1. call[k] # Idle /\ call'[k] # call[k]
    BY DEF Idle
  <2>2. \A m \in Calls \ {k} : \A next : ~Continue(m, next)
    <3>1. ASSUME NEW m \in Calls \ {k}, NEW next, Continue(m, next) PROVE call'[k] = call[k]
      BY <1>1, <3>1 DEF Continue, TypeInv, TypeOK
    <3> QED
      BY <2>1, <3>1
  <2>3. UnbanWrite(k)
    BY <1>1, <2>1, <2>2 DEF Next, IncrementCounter, InvalidateConfigCache, Hit, Miss, Fill, BanPlayer,
       UnbanRead, UnbanWrite, GrowOlder, BanExpires, Return, vars
  <2> QED
    BY <1>1, <2>3 DEF UnbanWrite, UnbanInv
<1>2. TypeInv /\ UnbanInv /\ [Next]_vars => [MayLogin]_vars
  BY <1>1
<1>3. Init => UnbanInv
  BY DEF Init, Idle, UnbanInv
<1> HIDE DEF MayLogin
<1>4. Spec => [][MayLogin]_vars
  BY <1>2, <1>3, NextKeepsUnbans, TypesInvariant, PTL DEF Spec
<1> QED
  BY <1>4 DEF UnbanLetsIn, MayLogin
==============================================================================
