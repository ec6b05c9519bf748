------------------------- MODULE Accomplishments_proofs -------------------------
(***************************************************************************)
(* Proofs about the accomplishments, for any consoles, players, goals,     *)
(* requests and bans: types, that the arrays agree in every copy of the    *)
(* document, and that nobody's scores change by another one's call.        *)
(***************************************************************************)
EXTENDS Accomplishments, WellFoundedInduction, TLAPS

------------------------------------------------------------------------------
(* Induction: what does not hold of all numbers fails first at one of them.*)

LEMMA LeastNatural ==
  ASSUME NEW T, T \subseteq Nat, T # {}
  PROVE  \E n \in T : \A m \in T : n <= m
<1>1. PICK n \in T : \A m \in T : <<m, n>> \notin OpToRel(<, Nat)
  <2> DEFINE Less == OpToRel(<, Nat)
  <2>1. IsWellFoundedOn(Less, Nat)
    BY NatLessThanWellFounded
  <2> HIDE DEF Less
  <2> QED
    BY <2>1, WFMin DEF Less
<1>2. \A m \in T : ~ (m < n)
  BY <1>1 DEF OpToRel
<1> QED
  BY <1>2

\* A set that has 0 and, with a number below length, the next one.
LEMMA UpTo ==
  ASSUME NEW length \in Nat, NEW S, 0 \in S, \A n \in 1 .. length : n - 1 \in S => n \in S
  PROVE  0 .. length \subseteq S
<1> DEFINE T == (0 .. length) \ S
<1> SUFFICES ASSUME T # {} PROVE FALSE
  OBVIOUS
<1>1. T \subseteq Nat
  OBVIOUS
<1>2. PICK n \in T : \A m \in T : n <= m
  <2> HIDE DEF T
  <2> QED
    BY <1>1, LeastNatural
<1>3. n \in 1 .. length /\ n - 1 \in 0 .. length /\ ~(n <= n - 1)
  BY <1>2
<1> QED
  BY <1>2, <1>3
------------------------------------------------------------------------------
(* filterEntries.                                                          *)

\* One turn of its loop.
Turn(entries, pids, filtered, n) ==
  IF n = 0 THEN <<>>
  ELSE IF entries[n].pid \in pids THEN filtered[n - 1]
  ELSE Append(filtered[n - 1], entries[n])

\* The loop is what its turns make of it.
LEMMA FilteredUpToDef ==
  ASSUME NEW entries \in Seq(Entry), NEW pids
  PROVE  FilteredUpTo(entries, pids) =
           [n \in 0 .. Len(entries) |-> Turn(entries, pids, FilteredUpTo(entries, pids), n)]
<1> DEFINE IsLoop(f, m) == f = [n \in 0 .. m |-> Turn(entries, pids, f, n)]
           Lengths == {m \in Nat : \E f : IsLoop(f, m)}
<1>1. Len(entries) \in Nat
  OBVIOUS
<1>2. 0 \in Lengths
  <2>1. IsLoop([n \in 0 .. 0 |-> <<>>], 0)
    BY DEF Turn
  <2> QED
    BY <2>1
<1>3. ASSUME NEW m \in 1 .. Len(entries), m - 1 \in Lengths PROVE m \in Lengths
  <2>1. PICK f : IsLoop(f, m - 1)
    BY <1>3
  <2> DEFINE g == [n \in 0 .. m |-> IF n = m THEN Turn(entries, pids, f, m) ELSE f[n]]
  <2>2. ASSUME NEW n \in 0 .. m PROVE g[n] = Turn(entries, pids, g, n)
    <3>1. n # 0 => n - 1 \in 0 .. m - 1 /\ n - 1 # m /\ g[n - 1] = f[n - 1]
      OBVIOUS
    <3>2. Turn(entries, pids, g, n) = Turn(entries, pids, f, n)
      BY <3>1 DEF Turn
    <3>3. n # m => f[n] = Turn(entries, pids, f, n)
      <4> SUFFICES ASSUME n # m PROVE f[n] = Turn(entries, pids, f, n)
        OBVIOUS
      <4>1. n \in 0 .. m - 1
        OBVIOUS
      <4> HIDE DEF g
      <4> QED
        BY <2>1, <4>1
    <3> QED
      BY <3>2, <3>3
  <2>3. IsLoop(g, m) /\ m \in Nat
    BY <2>2
  <2> HIDE DEF g, IsLoop
  <2> QED
    BY <2>3
<1>4. \E f : IsLoop(f, Len(entries))
  <2> HIDE DEF Lengths
  <2>1. 0 .. Len(entries) \subseteq Lengths
    BY <1>1, <1>2, <1>3, UpTo
  <2> QED
    BY <1>1, <2>1 DEF Lengths
<1>5. FilteredUpTo(entries, pids) = CHOOSE f : IsLoop(f, Len(entries))
  BY DEF FilteredUpTo, Turn
<1> QED
  BY <1>4, <1>5

\* What it has kept after n entries: those of the others, and nothing else.
LEMMA FilteredUpToFacts ==
  ASSUME NEW entries \in Seq(Entry), NEW pids, NEW n \in 0 .. Len(entries)
  PROVE  LET kept == FilteredUpTo(entries, pids)[n] IN
         /\ kept \in Seq(Entry)
         /\ \A k \in 1 .. Len(kept) : \E i \in 1 .. n : kept[k] = entries[i] /\ entries[i].pid \notin pids
         /\ \A i \in 1 .. n : entries[i].pid \notin pids => \E k \in 1 .. Len(kept) : kept[k] = entries[i]
         /\ (\A i, j \in 1 .. Len(entries) : entries[i].pid = entries[j].pid => i = j)
              => \A i, j \in 1 .. Len(kept) : kept[i].pid = kept[j].pid => i = j
<1> DEFINE F == FilteredUpTo(entries, pids)
           Distinct(array) == \A i, j \in 1 .. Len(array) : array[i].pid = array[j].pid => i = j
           Holds(m, kept) ==
             /\ kept \in Seq(Entry)
             /\ \A k \in 1 .. Len(kept) : \E i \in 1 .. m : kept[k] = entries[i] /\ entries[i].pid \notin pids
             /\ \A i \in 1 .. m : entries[i].pid \notin pids => \E k \in 1 .. Len(kept) : kept[k] = entries[i]
             /\ Distinct(entries) => Distinct(kept)
           S == {m \in 0 .. Len(entries) : Holds(m, F[m])}
<1>1. Len(entries) \in Nat
  OBVIOUS
<1>2. ASSUME NEW m \in 0 .. Len(entries)
      PROVE  F[m] = IF m = 0 THEN <<>>
                    ELSE IF entries[m].pid \in pids THEN F[m - 1] ELSE Append(F[m - 1], entries[m])
  <2>1. F = [k \in 0 .. Len(entries) |-> Turn(entries, pids, F, k)]
    BY FilteredUpToDef
  <2> HIDE DEF F
  <2> QED
    BY <2>1 DEF Turn
<1> HIDE DEF F
<1>3. 0 \in S
  <2>1. F[0] = <<>> /\ 0 \in 0 .. Len(entries)
    BY <1>2
  <2>2. <<>> \in Seq(Entry) /\ 1 .. Len(<<>>) = {} /\ 1 .. 0 = {}
    OBVIOUS
  <2>3. Holds(0, <<>>)
    BY <2>2
  <2> HIDE DEF Holds
  <2>4. Holds(0, F[0])
    BY <2>1, <2>3
  <2> QED
    BY <2>1, <2>4
<1>4. ASSUME NEW m \in 1 .. Len(entries), m - 1 \in S PROVE m \in S
  <2>1. m \in 0 .. Len(entries) /\ m \in Nat /\ m # 0 /\ entries[m] \in Entry
    OBVIOUS
  <2>2. Holds(m - 1, F[m - 1])
    BY <1>4
  <2> DEFINE old == F[m - 1]
  <2>3. CASE entries[m].pid \in pids
    <3>1. F[m] = old
      BY <1>2, <2>1, <2>3
    <3>2. \A i \in 1 .. m : i \in 1 .. m - 1 \/ i = m
      OBVIOUS
    <3>3. 1 .. m - 1 \subseteq 1 .. m
      OBVIOUS
    <3> HIDE DEF old
    <3>4. Holds(m - 1, old)
      BY <2>2 DEF old
    <3>5. Holds(m, old)
      BY <3>2, <3>3, <3>4, <2>3
    <3> QED
      BY <3>1, <3>5, <2>1
  <2>4. CASE entries[m].pid \notin pids
    <3>1. F[m] = Append(old, entries[m])
      BY <1>2, <2>1, <2>4
    <3> HIDE DEF old
    <3>2. Holds(m - 1, old)
      BY <2>2 DEF old
    <3> DEFINE new == Append(old, entries[m])
    <3>3. /\ new \in Seq(Entry)
          /\ Len(new) = Len(old) + 1
          /\ Len(old) \in Nat
          /\ new[Len(old) + 1] = entries[m]
          /\ \A k \in 1 .. Len(old) : new[k] = old[k]
      BY <2>1, <3>2
    <3> HIDE DEF new
    <3>4. \A k \in 1 .. Len(new) : k \in 1 .. Len(old) \/ k = Len(old) + 1
      BY <3>3
    <3>5. \A k \in 1 .. Len(new) : \E i \in 1 .. m : new[k] = entries[i] /\ entries[i].pid \notin pids
      <4> SUFFICES ASSUME NEW k \in 1 .. Len(new)
                   PROVE  \E i \in 1 .. m : new[k] = entries[i] /\ entries[i].pid \notin pids
        OBVIOUS
      <4>1. CASE k = Len(old) + 1
        BY <4>1, <3>3, <2>4
      <4>2. CASE k \in 1 .. Len(old)
        <5>1. PICK i \in 1 .. m - 1 : old[k] = entries[i] /\ entries[i].pid \notin pids
          BY <3>2, <4>2
        <5>2. i \in 1 .. m
          OBVIOUS
        <5> QED
          BY <5>1, <5>2, <3>3, <4>2
      <4> QED
        BY <4>1, <4>2, <3>4
    <3>6. \A i \in 1 .. m : entries[i].pid \notin pids => \E k \in 1 .. Len(new) : new[k] = entries[i]
      <4> SUFFICES ASSUME NEW i \in 1 .. m, entries[i].pid \notin pids
                   PROVE  \E k \in 1 .. Len(new) : new[k] = entries[i]
        OBVIOUS
      <4>1. CASE i = m
        <5>1. Len(old) + 1 \in 1 .. Len(new)
          BY <3>3
        <5> QED
          BY <5>1, <4>1, <3>3
      <4>2. CASE i \in 1 .. m - 1
        <5>1. PICK k \in 1 .. Len(old) : old[k] = entries[i]
          BY <3>2, <4>2
        <5>2. k \in 1 .. Len(new)
          BY <3>3
        <5> QED
          BY <5>1, <5>2, <3>3
      <4> QED
        BY <4>1, <4>2
    <3>7. ASSUME Distinct(entries) PROVE Distinct(new)
      <4>1. \A k \in 1 .. Len(old) : old[k].pid # entries[m].pid
        <5> SUFFICES ASSUME NEW k \in 1 .. Len(old), old[k].pid = entries[m].pid PROVE FALSE
          OBVIOUS
        <5>1. PICK i \in 1 .. m - 1 : old[k] = entries[i]
          BY <3>2
        <5>2. i \in 1 .. Len(entries) /\ i # m
          OBVIOUS
        <5> QED
          BY <5>1, <5>2, <3>7
      <4> SUFFICES ASSUME NEW i \in 1 .. Len(new), NEW j \in 1 .. Len(new), new[i].pid = new[j].pid
                   PROVE  i = j
        OBVIOUS
      <4>2. CASE i \in 1 .. Len(old) /\ j \in 1 .. Len(old)
        BY <4>2, <3>2, <3>3, <3>7
      <4>3. CASE i = Len(old) + 1 /\ j \in 1 .. Len(old)
        BY <4>3, <3>3, <4>1
      <4>4. CASE j = Len(old) + 1 /\ i \in 1 .. Len(old)
        BY <4>4, <3>3, <4>1
      <4> QED
        BY <4>2, <4>3, <4>4, <3>4
    <3>8. Holds(m, new)
      BY <3>3, <3>5, <3>6, <3>7
    <3>9. F[m] = new
      BY <3>1 DEF new
    <3> QED
      BY <3>8, <3>9, <2>1
  <2> QED
    BY <2>3, <2>4
<1> HIDE DEF S
<1>5. 0 .. Len(entries) \subseteq S
  BY <1>1, <1>3, <1>4, UpTo
<1> QED
  BY <1>5 DEF S, F

\* The same players in the same order.
SamePlayers(a, b) == Len(a) = Len(b) /\ \A i \in 1 .. Len(a) : a[i].pid = b[i].pid

\* Of two arrays with the same players in the same order it keeps the same ones.
LEMMA FilteredUpToSame ==
  ASSUME NEW a \in Seq(Entry), NEW b \in Seq(Entry), NEW pids, SamePlayers(a, b), NEW n \in 0 .. Len(a)
  PROVE  SamePlayers(FilteredUpTo(a, pids)[n], FilteredUpTo(b, pids)[n])
<1> DEFINE A == FilteredUpTo(a, pids)
           B == FilteredUpTo(b, pids)
           Same(x, y) == Len(x) = Len(y) /\ \A k \in 1 .. Len(x) : x[k].pid = y[k].pid
           S == {m \in 0 .. Len(a) : Same(A[m], B[m])}
<1> USE DEF SamePlayers
<1>1. Len(a) \in Nat
  OBVIOUS
<1>2. ASSUME NEW m \in 0 .. Len(a)
      PROVE  /\ A[m] \in Seq(Entry) /\ B[m] \in Seq(Entry)
             /\ A[m] = IF m = 0 THEN <<>> ELSE IF a[m].pid \in pids THEN A[m - 1] ELSE Append(A[m - 1], a[m])
             /\ B[m] = IF m = 0 THEN <<>> ELSE IF b[m].pid \in pids THEN B[m - 1] ELSE Append(B[m - 1], b[m])
  <2>1. A = [k \in 0 .. Len(a) |-> Turn(a, pids, A, k)]
    BY FilteredUpToDef
  <2>2. B = [k \in 0 .. Len(b) |-> Turn(b, pids, B, k)]
    BY FilteredUpToDef
  <2>3. A[m] \in Seq(Entry) /\ B[m] \in Seq(Entry)
    BY FilteredUpToFacts
  <2> HIDE DEF A, B
  <2> QED
    BY <2>1, <2>2, <2>3 DEF Turn
<1> HIDE DEF A, B
<1>3. 0 \in S
  <2>1. A[0] = <<>> /\ B[0] = <<>> /\ 0 \in 0 .. Len(a)
    BY <1>2
  <2> QED
    BY <2>1
<1>4. ASSUME NEW m \in 1 .. Len(a), m - 1 \in S PROVE m \in S
  <2>1. m \in 0 .. Len(a) /\ m - 1 \in 0 .. Len(a) /\ m # 0 /\ a[m] \in Entry /\ b[m] \in Entry /\ a[m].pid = b[m].pid
    OBVIOUS
  <2>2. Same(A[m - 1], B[m - 1])
    BY <1>4
  <2>3. CASE a[m].pid \in pids
    <3>1. A[m] = A[m - 1] /\ B[m] = B[m - 1]
      BY <1>2, <2>1, <2>3
    <3> QED
      BY <2>1, <2>2, <3>1
  <2>4. CASE a[m].pid \notin pids
    <3>1. A[m] = Append(A[m - 1], a[m]) /\ B[m] = Append(B[m - 1], b[m])
      BY <1>2, <2>1, <2>4
    <3>2. A[m - 1] \in Seq(Entry) /\ B[m - 1] \in Seq(Entry)
      BY <1>2, <2>1
    <3>3. Same(A[m], B[m])
      BY <2>1, <2>2, <3>1, <3>2
    <3> QED
      BY <2>1, <3>3
  <2> QED
    BY <2>3, <2>4
<1> HIDE DEF S
<1>5. 0 .. Len(a) \subseteq S
  BY <1>1, <1>3, <1>4, UpTo
<1> QED
  BY <1>5 DEF S, A, B
------------------------------------------------------------------------------
(* The documents.                                                          *)

\* The arrays have the same players, each once, in the same order.
Aligned(read) ==
    /\ read \in Board
    /\ \A goal \in Goals :
        /\ Len(read[goal]) = Len(read[Metascore])
        /\ \A i \in 1 .. Len(read[Metascore]) : read[goal][i].pid = read[Metascore][i].pid
    /\ \A i, j \in 1 .. Len(read[Metascore]) : read[Metascore][i].pid = read[Metascore][j].pid => i = j

LEMMA NoEntriesAligned == Aligned(NoEntries)
<1>1. <<>> \in Seq(Entry) /\ 1 .. Len(<<>>) = {}
  OBVIOUS
<1>2. Metascore \in Goals
  BY AccomplishmentsAssumption
<1> QED
  BY <1>1, <1>2 DEF Aligned, NoEntries, Board

\* An array that the housekeeping task has filtered.
LEMMA FilterEntriesFacts ==
  ASSUME NEW entries \in Seq(Entry), NEW pids
  PROVE  LET kept == filterEntries(entries, pids) IN
         /\ kept \in Seq(Entry)
         /\ \A k \in 1 .. Len(kept) :
              \E i \in 1 .. Len(entries) : kept[k] = entries[i] /\ entries[i].pid \notin pids
         /\ \A i \in 1 .. Len(entries) :
              entries[i].pid \notin pids => \E k \in 1 .. Len(kept) : kept[k] = entries[i]
         /\ (\A i, j \in 1 .. Len(entries) : entries[i].pid = entries[j].pid => i = j)
              => \A i, j \in 1 .. Len(kept) : kept[i].pid = kept[j].pid => i = j
<1>1. Len(entries) \in 0 .. Len(entries)
  OBVIOUS
<1> QED
  BY <1>1, FilteredUpToFacts DEF filterEntries

LEMMA FilterEntriesSame ==
  ASSUME NEW a \in Seq(Entry), NEW b \in Seq(Entry), NEW pids, SamePlayers(a, b)
  PROVE  SamePlayers(filterEntries(a, pids), filterEntries(b, pids))
<1> DEFINE n == Len(a)
<1>1. n \in 0 .. Len(a) /\ n = Len(b)
  BY DEF SamePlayers
<1>2. filterEntries(a, pids) = FilteredUpTo(a, pids)[n] /\ filterEntries(b, pids) = FilteredUpTo(b, pids)[n]
  BY DEF filterEntries, SamePlayers
<1> HIDE DEF n
<1>3. SamePlayers(FilteredUpTo(a, pids)[n], FilteredUpTo(b, pids)[n])
  BY <1>1, FilteredUpToSame
<1> QED
  BY <1>2, <1>3

LEMMA FilteredAligned ==
  ASSUME NEW read, Aligned(read), NEW pids
  PROVE  Aligned(Filtered(read, pids))
<1> DEFINE new == Filtered(read, pids)
<1>1. Metascore \in Goals
  BY AccomplishmentsAssumption
<1>2. \A goal \in Goals : new[goal] = filterEntries(read[goal], pids) /\ read[goal] \in Seq(Entry)
  BY DEF Filtered, Aligned, Board
<1>3. new \in Board
  <2>1. \A goal \in Goals : filterEntries(read[goal], pids) \in Seq(Entry)
    BY <1>2, FilterEntriesFacts
  <2> QED
    BY <2>1 DEF Filtered, Board
<1> HIDE DEF new
<1>4. ASSUME NEW goal \in Goals
      PROVE  SamePlayers(new[Metascore], new[goal])
  <2>1. SamePlayers(read[Metascore], read[goal])
    BY DEF Aligned, SamePlayers
  <2> QED
    BY <1>1, <1>2, <2>1, FilterEntriesSame
<1>5. \A i, j \in 1 .. Len(new[Metascore]) : new[Metascore][i].pid = new[Metascore][j].pid => i = j
  <2>1. \A i, j \in 1 .. Len(read[Metascore]) : read[Metascore][i].pid = read[Metascore][j].pid => i = j
    BY DEF Aligned
  <2> DEFINE entries == read[Metascore]
             kept == filterEntries(entries, pids)
  <2>2. entries \in Seq(Entry) /\ new[Metascore] = kept
    BY <1>1, <1>2
  <2>3. \A i, j \in 1 .. Len(entries) : entries[i].pid = entries[j].pid => i = j
    BY <2>1
  <2> HIDE DEF entries
  <2>4. \A i, j \in 1 .. Len(kept) : kept[i].pid = kept[j].pid => i = j
    BY <2>2, <2>3, FilterEntriesFacts
  <2> HIDE DEF kept
  <2> QED
    BY <2>2, <2>4
<1> QED
  BY <1>3, <1>4, <1>5 DEF Aligned, SamePlayers, new

\* What filtering leaves to a player who is not banned.
LEMMA FilteredOf ==
  ASSUME NEW read \in Board, NEW pids, NEW pid, pid \notin pids, NEW goal \in Goals
  PROVE  Of(Filtered(read, pids)[goal], pid) = Of(read[goal], pid)
<1> DEFINE entries == read[goal]
           kept == filterEntries(entries, pids)
<1>1. entries \in Seq(Entry) /\ Filtered(read, pids)[goal] = kept
  BY DEF Board, Filtered
<1> HIDE DEF entries
<1>2. /\ kept \in Seq(Entry)
      /\ \A k \in 1 .. Len(kept) : \E i \in 1 .. Len(entries) : kept[k] = entries[i]
      /\ \A i \in 1 .. Len(entries) :
           entries[i].pid \notin pids => \E k \in 1 .. Len(kept) : kept[k] = entries[i]
  BY <1>1, FilterEntriesFacts
<1> HIDE DEF kept
<1>3. DOMAIN kept = 1 .. Len(kept) /\ DOMAIN entries = 1 .. Len(entries)
  BY <1>1, <1>2
<1>4. \A e \in Of(kept, pid) : e \in Of(entries, pid)
  BY <1>2, <1>3 DEF Of
<1>5. \A e \in Of(entries, pid) : e \in Of(kept, pid)
  <2> SUFFICES ASSUME NEW e \in Of(entries, pid) PROVE e \in Of(kept, pid)
    OBVIOUS
  <2>1. PICK i \in 1 .. Len(entries) : e = entries[i] /\ entries[i].pid = pid
    BY <1>3 DEF Of
  <2>2. PICK k \in 1 .. Len(kept) : kept[k] = entries[i]
    BY <1>2, <2>1
  <2> QED
    BY <1>3, <2>1, <2>2 DEF Of
<1> QED
  BY <1>1, <1>4, <1>5 DEF entries

\* The index at which record finds the player.
Index(read, pid) == CHOOSE i \in Positions(read, pid) : \A j \in Positions(read, pid) : i <= j

LEMMA IndexFound ==
  ASSUME NEW read, Aligned(read), NEW pid, Positions(read, pid) # {}
  PROVE  /\ Index(read, pid) \in 1 .. Len(read[Metascore])
         /\ read[Metascore][Index(read, pid)].pid = pid
<1>1. Metascore \in Goals
  BY AccomplishmentsAssumption
<1>2. Positions(read, pid) \subseteq 1 .. Len(read[Metascore])
  BY <1>1 DEF Positions, Aligned, Board
<1>3. Positions(read, pid) \subseteq Nat
  BY <1>2
<1>4. \E i \in Positions(read, pid) : \A j \in Positions(read, pid) : i <= j
  BY <1>3, LeastNatural
<1>5. Index(read, pid) \in Positions(read, pid)
  BY <1>4 DEF Index
<1> QED
  BY <1>2, <1>5 DEF Positions

\* Recording keeps the arrays aligned; one call changes or adds the entries of one player.
LEMMA RecordedAligned ==
  ASSUME NEW read, Aligned(read), NEW pid \in Players, NEW request \in [Goals -> Nat]
  PROVE  Aligned(Recorded(read, pid, request))
<1> DEFINE new == Recorded(read, pid, request)
<1>1. Metascore \in Goals
  BY AccomplishmentsAssumption
<1>2. /\ \A goal \in Goals : /\ read[goal] \in Seq(Entry)
                             /\ Len(read[goal]) = Len(read[Metascore])
                             /\ Len(read[goal]) \in Nat
                             /\ DOMAIN read[goal] = 1 .. Len(read[goal])
                             /\ \A i \in 1 .. Len(read[Metascore]) : read[goal][i].pid = read[Metascore][i].pid
      /\ \A i, j \in 1 .. Len(read[Metascore]) : read[Metascore][i].pid = read[Metascore][j].pid => i = j
  BY <1>1 DEF Aligned, Board
<1>3. CASE Positions(read, pid) = {}
  <2> DEFINE added(goal) == Append(read[goal], [pid |-> pid, score |-> request[goal]])
  <2>1. new = [goal \in Goals |-> added(goal)]
    BY <1>3 DEF Recorded
  <2>2. \A i \in 1 .. Len(read[Metascore]) : read[Metascore][i].pid # pid
    BY <1>1, <1>2, <1>3 DEF Positions
  <2>3. ASSUME NEW goal \in Goals
        PROVE  /\ added(goal) \in Seq(Entry)
               /\ Len(added(goal)) = Len(read[Metascore]) + 1
               /\ added(goal)[Len(read[Metascore]) + 1].pid = pid
               /\ \A i \in 1 .. Len(read[Metascore]) : added(goal)[i] = read[goal][i]
    <3>1. [pid |-> pid, score |-> request[goal]] \in Entry
      BY DEF Entry
    <3> QED
      BY <1>2, <3>1
  <2> HIDE DEF added, new
  <2>4. new \in Board /\ \A goal \in Goals : new[goal] = added(goal)
    BY <2>1, <2>3 DEF Board
  <2> DEFINE N == Len(read[Metascore])
  <2>5. N \in Nat /\ \A i \in 1 .. N + 1 : i \in 1 .. N \/ i = N + 1
    BY <1>1, <1>2
  <2>6. \A goal \in Goals : \A i \in 1 .. N : new[goal][i].pid = read[Metascore][i].pid
    BY <1>2, <2>3, <2>4
  <2>7. \A goal \in Goals : Len(new[goal]) = N + 1 /\ new[goal][N + 1].pid = pid
    BY <2>3, <2>4
  <2>8. \A i, j \in 1 .. N : read[Metascore][i].pid = read[Metascore][j].pid => i = j
    BY <1>2
  <2> HIDE DEF N
  <2>9. \A goal \in Goals : \A i \in 1 .. N + 1 : new[goal][i].pid = new[Metascore][i].pid
    BY <1>1, <2>5, <2>6, <2>7
  <2>10. \A i \in 1 .. N : read[Metascore][i].pid # pid
    BY <2>2 DEF N
  <2>11. \A i, j \in 1 .. N + 1 : new[Metascore][i].pid = new[Metascore][j].pid => i = j
    BY <1>1, <2>5, <2>6, <2>7, <2>8, <2>10
  <2>12. Aligned(new)
    BY <1>1, <2>4, <2>7, <2>9, <2>11 DEF Aligned
  <2> QED
    BY <2>12 DEF new
<1>4. CASE Positions(read, pid) # {}
  <2> DEFINE idx == Index(read, pid)
             changed(goal) == [read[goal] EXCEPT ![idx].score = request[goal]]
  <2>1. new = [goal \in Goals |-> changed(goal)]
    BY <1>4 DEF Recorded, Index
  <2>2. idx \in 1 .. Len(read[Metascore])
    BY <1>4, IndexFound
  <2> HIDE DEF idx
  <2>3. ASSUME NEW goal \in Goals
        PROVE  /\ changed(goal) \in Seq(Entry)
               /\ Len(changed(goal)) = Len(read[Metascore])
               /\ \A i \in 1 .. Len(read[Metascore]) : changed(goal)[i].pid = read[goal][i].pid
    <3>1. request[goal] \in Nat
      OBVIOUS
    <3>2. \A i \in 1 .. Len(read[goal]) : read[goal][i] \in Entry
      BY <1>2
    <3>3. \A i \in 1 .. Len(read[goal]) : changed(goal)[i] \in Entry /\ changed(goal)[i].pid = read[goal][i].pid
      BY <1>2, <3>1, <3>2 DEF Entry
    <3>4. changed(goal) \in [1 .. Len(read[goal]) -> Entry]
      BY <1>2, <3>3
    <3> QED
      BY <1>2, <3>3, <3>4
  <2> HIDE DEF changed, new
  <2>4. new \in Board /\ \A goal \in Goals : new[goal] = changed(goal)
    BY <2>1, <2>3 DEF Board
  <2>5. \A goal \in Goals : \A i \in 1 .. Len(read[Metascore]) : new[goal][i].pid = read[Metascore][i].pid
    BY <1>2, <2>3, <2>4
  <2>6. \A goal \in Goals : Len(new[goal]) = Len(read[Metascore])
    BY <2>3, <2>4
  <2>7. Aligned(new)
    BY <1>1, <1>2, <2>4, <2>5, <2>6 DEF Aligned
  <2> QED
    BY <2>7 DEF new
<1> QED
  BY <1>3, <1>4

LEMMA RecordedOf ==
  ASSUME NEW read, Aligned(read), NEW pid \in Players, NEW request \in [Goals -> Nat],
         NEW other \in Players, other # pid, NEW goal \in Goals
  PROVE  Of(Recorded(read, pid, request)[goal], other) = Of(read[goal], other)
<1> DEFINE old == read[goal]
           new == Recorded(read, pid, request)[goal]
           entry == [pid |-> pid, score |-> request[goal]]
<1>1. old \in Seq(Entry) /\ Len(old) \in Nat /\ DOMAIN old = 1 .. Len(old)
  BY DEF Aligned, Board
<1>2. CASE Positions(read, pid) = {}
  <2>1. new = Append(old, entry) /\ entry \in Entry /\ entry.pid = pid
    BY <1>2 DEF Recorded, Entry
  <2> HIDE DEF old, new, entry
  <2>2. /\ DOMAIN new = 1 .. Len(old) + 1
        /\ new[Len(old) + 1] = entry
        /\ \A i \in 1 .. Len(old) : new[i] = old[i]
    BY <1>1, <2>1
  <2>3. \A i \in 1 .. Len(old) + 1 : i \in 1 .. Len(old) \/ i = Len(old) + 1
    BY <1>1
  <2>4. \A e \in Of(new, other) : e \in Of(old, other)
    BY <1>1, <2>1, <2>2, <2>3 DEF Of
  <2>5. \A e \in Of(old, other) : e \in Of(new, other)
    BY <1>1, <2>2 DEF Of
  <2>6. Of(new, other) = Of(old, other)
    BY <2>4, <2>5
  <2> QED
    BY <2>6 DEF old, new
<1>3. CASE Positions(read, pid) # {}
  <2> DEFINE idx == Index(read, pid)
  <2>1. new = [old EXCEPT ![idx].score = request[goal]]
    BY <1>3 DEF Recorded, Index
  <2>2. idx \in 1 .. Len(old) /\ old[idx].pid = pid
    <3>1. idx \in 1 .. Len(read[Metascore]) /\ read[Metascore][idx].pid = pid
      BY <1>3, IndexFound
    <3> HIDE DEF idx
    <3> QED
      BY <3>1 DEF Aligned
  <2> HIDE DEF idx, old, new
  <2>3. old[idx] \in Entry
    BY <1>1, <2>2
  <2>4. /\ DOMAIN new = DOMAIN old
        /\ new[idx].pid = pid
        /\ \A i \in DOMAIN old : i # idx => new[i] = old[i]
    BY <1>1, <2>1, <2>2, <2>3 DEF Entry
  <2>5. \A e \in Of(new, other) : e \in Of(old, other)
    BY <2>2, <2>4 DEF Of
  <2>6. \A e \in Of(old, other) : e \in Of(new, other)
    BY <2>2, <2>4 DEF Of
  <2>7. Of(new, other) = Of(old, other)
    BY <2>5, <2>6
  <2> QED
    BY <2>7 DEF old, new
<1> QED
  BY <1>2, <1>3
------------------------------------------------------------------------------
(* The invariant: every copy of the document is aligned, and the task goes *)
(* by permanent bans that an administrator may make.                       *)

IInv ==
    /\ TypeOK
    /\ Aligned(board)
    /\ \A c \in Consoles : call[c].op = "update" => Aligned(call[c].read)
    /\ hk.op = "update" => Aligned(hk.read)
    /\ hk.op # "idle" => \A pid \in hk.pids : Permanent(pid) \in Bannable

\* What the handlers have while a call of theirs runs.
LEMMA CallTypes ==
  ASSUME IInv
  PROVE  /\ \A c \in Consoles : call[c].op = "update" =>
              call[c].pid \in Players /\ call[c].request \in [Goals -> Nat] /\ call[c].read \in Board
         /\ hk.op = "find" => hk.pids \in SUBSET Players
         /\ hk.op = "update" => hk.pids \in SUBSET Players /\ hk.read \in Board
<1>1. ASSUME NEW c \in Consoles, call[c].op = "update" PROVE call[c] \in Updates
  <2>1. call[c] \in {Idle} \cup Updates
    BY DEF IInv, TypeOK
  <2> QED
    BY <1>1, <2>1 DEF Idle
<1>2. Requests \subseteq [Goals -> Nat]
  BY AccomplishmentsAssumption
<1>3. hk \in {Idle} \cup [op : {"find"}, pids : SUBSET Players]
             \cup [op : {"update"}, pids : SUBSET Players, read : Board]
  BY DEF IInv, TypeOK
<1>4. hk.op = "find" => hk \in [op : {"find"}, pids : SUBSET Players]
  BY <1>3 DEF Idle
<1>5. hk.op = "update" => hk \in [op : {"update"}, pids : SUBSET Players, read : Board]
  BY <1>3 DEF Idle
<1> QED
  BY <1>1, <1>2, <1>4, <1>5 DEF Updates

LEMMA InitIInv == Init => IInv
<1> SUFFICES ASSUME Init PROVE IInv
  OBVIOUS
<1>1. TypeOK
  <2>1. board \in Board
    BY NoEntriesAligned DEF Init, Aligned
  <2>2. failures \in 0 .. MaxFailures
    BY AccomplishmentsAssumption DEF Init
  <2> QED
    BY <2>1, <2>2 DEF Init, TypeOK
<1>2. Aligned(board)
  BY NoEntriesAligned DEF Init
<1>3. \A c \in Consoles : call[c].op # "update"
  BY DEF Init, Idle
<1>4. hk.op = "idle"
  BY DEF Init, Idle
<1> QED
  BY <1>1, <1>2, <1>3, <1>4 DEF IInv

\* A handler that has read the document, or failed to.
LEMMA ReadKeeps ==
  ASSUME IInv, NEW c \in Consoles, NEW pid \in Players, NEW request \in Requests, NEW read, Aligned(read),
         Continue(c, [op |-> "update", pid |-> pid, request |-> request, read |-> read]),
         failures' \in 0 .. MaxFailures, UNCHANGED <<board, exists, bans, cachedBans, hk>>
  PROVE  IInv'
<1> DEFINE next == [op |-> "update", pid |-> pid, request |-> request, read |-> read]
<1>1. next \in Updates /\ next.read = read
  BY DEF Updates, Aligned
<1> HIDE DEF next
<1>2. call \in [Consoles -> {Idle} \cup Updates] /\ call' = [call EXCEPT ![c] = next]
  BY DEF IInv, TypeOK, Continue, next
<1>3. TypeOK'
  BY <1>1, <1>2 DEF IInv, TypeOK
<1>4. \A d \in Consoles : call'[d] = IF d = c THEN next ELSE call[d]
  BY <1>2
<1>5. \A d \in Consoles : call'[d].op = "update" => Aligned(call'[d].read)
  BY <1>1, <1>4 DEF IInv
<1>6. Aligned(board)'
  BY DEF IInv, Aligned
<1>7. (hk.op = "update" => Aligned(hk.read))'
  BY DEF IInv, Aligned
<1>8. (hk.op # "idle" => \A p \in hk.pids : Permanent(p) \in Bannable)'
  BY DEF IInv
<1>9. (\A d \in Consoles : call[d].op = "update" => Aligned(call[d].read))'
  BY <1>5 DEF Aligned
<1> QED
  BY <1>3, <1>6, <1>7, <1>8, <1>9 DEF IInv

LEMMA RecordFindKeeps ==
  ASSUME IInv, NEW c \in Consoles, NEW pid \in Players, NEW request \in Requests, RecordFind(c, pid, request)
  PROVE  IInv'
<1>1. Aligned(board) /\ failures \in 0 .. MaxFailures
  BY DEF IInv, TypeOK
<1>2. failures' \in 0 .. MaxFailures
  BY <1>1 DEF RecordFind
<1> QED
  BY <1>1, <1>2, ReadKeeps DEF RecordFind

LEMMA RecordFindFailsKeeps ==
  ASSUME IInv, NEW c \in Consoles, NEW pid \in Players, NEW request \in Requests, RecordFindFails(c, pid, request)
  PROVE  IInv'
<1>1. failures' \in 0 .. MaxFailures
  BY AccomplishmentsAssumption DEF IInv, TypeOK, RecordFindFails
<1> QED
  BY <1>1, NoEntriesAligned, ReadKeeps DEF RecordFindFails

LEMMA RecordUpdateKeeps ==
  ASSUME IInv, NEW c \in Consoles, RecordUpdate(c)
  PROVE  IInv'
<1>1. call[c].op = "update" /\ board' = Recorded(call[c].read, call[c].pid, call[c].request)
  BY DEF RecordUpdate
<1>2. Aligned(call[c].read) /\ call[c].pid \in Players /\ call[c].request \in [Goals -> Nat]
  BY <1>1, CallTypes DEF IInv
<1> DEFINE new == Recorded(call[c].read, call[c].pid, call[c].request)
<1>3. Aligned(new)
  BY <1>2, RecordedAligned
<1> HIDE DEF new
<1>4. board' = new
  BY <1>1 DEF new
<1>5. Aligned(board)'
  BY <1>3, <1>4 DEF Aligned
<1>6. call \in [Consoles -> {Idle} \cup Updates] /\ call' = [call EXCEPT ![c] = Idle]
  BY DEF IInv, TypeOK, RecordUpdate, Continue
<1>7. \A d \in Consoles : call'[d] = IF d = c THEN Idle ELSE call[d]
  BY <1>6
<1>8. \A d \in Consoles : call'[d].op = "update" => Aligned(call'[d].read)
  BY <1>7 DEF IInv, Idle
<1>9. (\A d \in Consoles : call[d].op = "update" => Aligned(call[d].read))'
  BY <1>8 DEF Aligned
<1>10. TypeOK'
  <2>1. board' \in Board
    BY <1>3, <1>4 DEF Aligned
  <2>2. call' \in [Consoles -> {Idle} \cup Updates]
    BY <1>6
  <2> QED
    BY <2>1, <2>2 DEF IInv, TypeOK, RecordUpdate
<1>11. (hk.op = "update" => Aligned(hk.read))'
  BY DEF IInv, Aligned, RecordUpdate
<1>12. (hk.op # "idle" => \A p \in hk.pids : Permanent(p) \in Bannable)'
  BY DEF IInv, RecordUpdate
<1> QED
  BY <1>5, <1>9, <1>10, <1>11, <1>12 DEF IInv

\* Steps that leave the documents alone.
LEMMA OthersKeep ==
  ASSUME IInv, UNCHANGED <<board, call, hk>>, exists' \in BOOLEAN, bans' \in SUBSET Bannable,
         cachedBans' \in SUBSET Bannable, failures' \in 0 .. MaxFailures
  PROVE  IInv'
<1>1. TypeOK'
  BY DEF IInv, TypeOK
<1>2. Aligned(board)'
  BY DEF IInv, Aligned
<1>3. (\A d \in Consoles : call[d].op = "update" => Aligned(call[d].read))'
  BY DEF IInv, Aligned
<1>4. (hk.op = "update" => Aligned(hk.read))'
  BY DEF IInv, Aligned
<1>5. (hk.op # "idle" => \A p \in hk.pids : Permanent(p) \in Bannable)'
  BY DEF IInv
<1> QED
  BY <1>1, <1>2, <1>3, <1>4, <1>5 DEF IInv

LEMMA BanKeeps ==
  ASSUME IInv, NEW ban \in Bannable, Ban(ban) \/ Unban(ban)
  PROVE  IInv'
<1>1. /\ UNCHANGED <<board, call, hk>>
      /\ exists' \in BOOLEAN /\ bans' \in SUBSET Bannable
      /\ cachedBans' \in SUBSET Bannable /\ failures' \in 0 .. MaxFailures
  BY DEF IInv, TypeOK, Ban, Unban
<1> QED
  BY <1>1, OthersKeep

LEMMA RefillKeeps ==
  ASSUME IInv, RefillConfigCache
  PROVE  IInv'
<1>1. /\ UNCHANGED <<board, call, hk>>
      /\ exists' \in BOOLEAN /\ bans' \in SUBSET Bannable
      /\ cachedBans' \in SUBSET Bannable /\ failures' \in 0 .. MaxFailures
  BY DEF IInv, TypeOK, RefillConfigCache
<1> QED
  BY <1>1, OthersKeep

\* Steps of the housekeeping task that leave the document alone.
LEMMA TaskKeeps ==
  ASSUME IInv, UNCHANGED <<board, exists, bans, cachedBans, call, failures>>,
         hk' \in {Idle} \cup [op : {"find"}, pids : SUBSET Players]
                 \cup [op : {"update"}, pids : SUBSET Players, read : Board],
         hk'.op = "update" => Aligned(hk'.read),
         hk'.op # "idle" => \A p \in hk'.pids : Permanent(p) \in Bannable
  PROVE  IInv'
<1>1. TypeOK'
  BY DEF IInv, TypeOK
<1>2. Aligned(board)'
  BY DEF IInv, Aligned
<1>3. (\A d \in Consoles : call[d].op = "update" => Aligned(call[d].read))'
  BY DEF IInv, Aligned
<1>4. (hk.op = "update" => Aligned(hk.read))'
  BY DEF Aligned
<1>5. (hk.op # "idle" => \A p \in hk.pids : Permanent(p) \in Bannable)'
  BY DEF Permanent
<1> QED
  BY <1>1, <1>2, <1>3, <1>4, <1>5 DEF IInv

LEMMA BannedPIDsMayBe ==
  ASSUME IInv
  PROVE  BannedPIDs \in SUBSET Players /\ \A pid \in BannedPIDs : Permanent(pid) \in Bannable
<1>1. cachedBans \subseteq Bannable /\ Bannable \subseteq [who : Players, permanent : BOOLEAN]
  BY AccomplishmentsAssumption DEF IInv, TypeOK
<1>2. ASSUME NEW ban \in cachedBans, ban.permanent PROVE ban.who \in Players /\ Permanent(ban.who) = ban
  <2>1. ban \in [who : Players, permanent : BOOLEAN]
    BY <1>1
  <2>2. ban = [who |-> ban.who, permanent |-> ban.permanent] /\ ban.who \in Players /\ ban.permanent \in BOOLEAN
    BY <2>1
  <2>3. ban.permanent = TRUE
    BY <1>2, <2>2
  <2> QED
    BY <2>2, <2>3 DEF Permanent
<1>3. \A pid \in BannedPIDs : \E ban \in cachedBans : ban.permanent /\ pid = ban.who
  BY DEF BannedPIDs
<1> QED
  BY <1>1, <1>2, <1>3

LEMMA CleanupBansKeeps ==
  ASSUME IInv, CleanupBans
  PROVE  IInv'
<1>1. hk' = [op |-> "find", pids |-> BannedPIDs] /\ UNCHANGED <<board, exists, bans, cachedBans, call, failures>>
  BY DEF CleanupBans
<1>2. BannedPIDs \in SUBSET Players /\ \A pid \in BannedPIDs : Permanent(pid) \in Bannable
  BY BannedPIDsMayBe
<1>3. hk' \in [op : {"find"}, pids : SUBSET Players] /\ hk'.op = "find" /\ hk'.pids = BannedPIDs
  BY <1>1, <1>2
<1> QED
  BY <1>1, <1>2, <1>3, TaskKeeps

LEMMA CleanupFindKeeps ==
  ASSUME IInv, CleanupFind
  PROVE  IInv'
<1>1. /\ hk.op = "find" /\ UNCHANGED <<board, exists, bans, cachedBans, call, failures>>
      /\ hk' = IF exists THEN [op |-> "update", pids |-> hk.pids, read |-> board] ELSE Idle
  BY DEF CleanupFind
<1>2. /\ hk.pids \in SUBSET Players /\ \A pid \in hk.pids : Permanent(pid) \in Bannable
      /\ Aligned(board) /\ board \in Board
  BY <1>1, CallTypes DEF IInv, TypeOK
<1>3. CASE exists
  <2>1. /\ hk' \in [op : {"update"}, pids : SUBSET Players, read : Board]
        /\ hk'.op = "update" /\ hk'.pids = hk.pids /\ hk'.read = board
    BY <1>1, <1>2, <1>3
  <2> QED
    BY <1>1, <1>2, <2>1, TaskKeeps
<1>4. CASE ~exists
  <2>1. hk' = Idle /\ hk'.op = "idle"
    BY <1>1, <1>4 DEF Idle
  <2> QED
    BY <1>1, <2>1, TaskKeeps
<1> QED
  BY <1>3, <1>4

LEMMA CleanupUpdateKeeps ==
  ASSUME IInv, CleanupUpdate
  PROVE  IInv'
<1>1. /\ hk.op = "update" /\ board' = Filtered(hk.read, hk.pids) /\ hk' = Idle
      /\ UNCHANGED <<exists, bans, cachedBans, call, failures>>
  BY DEF CleanupUpdate
<1> DEFINE new == Filtered(hk.read, hk.pids)
<1>2. Aligned(new)
  BY <1>1, FilteredAligned DEF IInv
<1> HIDE DEF new
<1>3. board' = new
  BY <1>1 DEF new
<1>4. Aligned(board)'
  BY <1>2, <1>3 DEF Aligned
<1>5. TypeOK'
  BY <1>1, <1>2, <1>3 DEF IInv, TypeOK, Aligned
<1>6. (\A d \in Consoles : call[d].op = "update" => Aligned(call[d].read))'
  BY <1>1 DEF IInv, Aligned
<1>7. hk'.op = "idle"
  BY <1>1 DEF Idle
<1> QED
  BY <1>4, <1>5, <1>6, <1>7 DEF IInv

LEMMA NextIInv == IInv /\ [Next]_vars => IInv'
<1> SUFFICES ASSUME IInv, [Next]_vars PROVE IInv'
  OBVIOUS
<1>1. ASSUME NEW c \in Consoles, Record(c) PROVE IInv'
  <2>1. ASSUME NEW pid \in Players, NEW request \in Requests,
               RecordFind(c, pid, request) \/ RecordFindFails(c, pid, request)
        PROVE  IInv'
    BY <2>1, RecordFindKeeps, RecordFindFailsKeeps
  <2> QED
    BY <1>1, <2>1, RecordUpdateKeeps DEF Record
<1>2. CASE \E ban \in Bannable : Ban(ban) \/ Unban(ban)
  BY <1>2, BanKeeps
<1>3. CASE RefillConfigCache
  BY <1>3, RefillKeeps
<1>4. CASE Housekeeping
  BY <1>4, CleanupBansKeeps, CleanupFindKeeps, CleanupUpdateKeeps DEF Housekeeping
<1>5. CASE UNCHANGED vars
  <2>1. /\ UNCHANGED <<board, call, hk>>
        /\ exists' \in BOOLEAN /\ bans' \in SUBSET Bannable
        /\ cachedBans' \in SUBSET Bannable /\ failures' \in 0 .. MaxFailures
    BY <1>5 DEF IInv, TypeOK, vars
  <2> QED
    BY <2>1, OthersKeep
<1> QED
  BY <1>1, <1>2, <1>3, <1>4, <1>5 DEF Next
------------------------------------------------------------------------------
(* The theorems.                                                           *)

\* Every copy of the document is aligned: that in the database, those that the
\* handlers of accomplishment/record have read and that of the housekeeping task.
THEOREM Invariant == Spec => []IInv
<1> QED
  BY InitIInv, NextIInv, PTL DEF Spec

\* The documents, the calls and the lists of bans have their types.
THEOREM TypeCorrect == Spec => []TypeOK
<1>1. IInv => TypeOK
  BY DEF IInv
<1> QED
  BY <1>1, Invariant, PTL

LEMMA AlignedAgree ==
  ASSUME Aligned(board)
  PROVE  ArraysAgree
<1>1. Metascore \in Goals
  BY AccomplishmentsAssumption
<1>2. ASSUME NEW goal \in Goals
      PROVE  /\ PIDsOf(board[goal]) = PIDsOf(board[Metascore])
             /\ \A i, j \in DOMAIN board[goal] : board[goal][i].pid = board[goal][j].pid => i = j
  <2>1. DOMAIN board[goal] = 1 .. Len(board[Metascore]) /\ DOMAIN board[Metascore] = 1 .. Len(board[Metascore])
    BY <1>1 DEF Aligned, Board
  <2>2. \A i \in 1 .. Len(board[Metascore]) : board[goal][i].pid = board[Metascore][i].pid
    BY DEF Aligned
  <2>3. \A i, j \in 1 .. Len(board[Metascore]) : board[Metascore][i].pid = board[Metascore][j].pid => i = j
    BY DEF Aligned
  <2>4. PIDsOf(board[goal]) = PIDsOf(board[Metascore])
    BY <2>1, <2>2 DEF PIDsOf
  <2> QED
    BY <2>1, <2>2, <2>3, <2>4
<1> QED
  BY <1>2 DEF ArraysAgree

\* The index at which record.go:87 finds the player among the metascores is that of
\* the player's entry in all the arrays, in every state.
THEOREM ArraysAlwaysAgree == Spec => []ArraysAgree
<1>1. IInv => ArraysAgree
  BY AlignedAgree DEF IInv
<1> QED
  BY <1>1, Invariant, PTL

LEMMA StepKeepsOthers ==
  ASSUME IInv, [Next]_vars, NEW pid \in Players, NEW goal \in Goals,
         Of(board[goal], pid) # Of(board'[goal], pid)
  PROVE  \/ \E c \in Consoles :
             /\ call[c].op = "update" /\ call'[c] = Idle
             /\ call[c].pid = pid \/ call[c].read # board
         \/ /\ hk.op = "update" /\ hk' = Idle
            /\ (pid \in hk.pids /\ Permanent(pid) \in Bannable) \/ hk.read # board
<1>1. board' # board
  OBVIOUS
<1>2. CASE \E c \in Consoles : RecordUpdate(c)
  <2>1. PICK c \in Consoles : RecordUpdate(c)
    BY <1>2
  <2>2. /\ call[c].op = "update" /\ call'[c] = Idle
        /\ board' = Recorded(call[c].read, call[c].pid, call[c].request)
    BY <2>1 DEF RecordUpdate, Continue, IInv, TypeOK
  <2>3. Aligned(call[c].read) /\ call[c].pid \in Players /\ call[c].request \in [Goals -> Nat]
    BY <2>2, CallTypes DEF IInv
  <2>4. call[c].pid # pid => Of(board'[goal], pid) = Of(call[c].read[goal], pid)
    BY <2>2, <2>3, RecordedOf
  <2>5. call[c].pid = pid \/ call[c].read # board
    BY <2>4
  <2> QED
    BY <2>2, <2>5
<1>3. CASE CleanupUpdate
  <2>1. hk.op = "update" /\ hk' = Idle /\ board' = Filtered(hk.read, hk.pids)
    BY <1>3 DEF CleanupUpdate
  <2>2. hk.read \in Board /\ \A p \in hk.pids : Permanent(p) \in Bannable
    BY <2>1, CallTypes DEF IInv
  <2>3. pid \notin hk.pids => Of(board'[goal], pid) = Of(hk.read[goal], pid)
    BY <2>1, <2>2, FilteredOf
  <2> QED
    BY <2>1, <2>2, <2>3
<1> QED
  BY <1>1, <1>2, <1>3
     DEF Next, Record, RecordFind, RecordFindFails, Ban, Unban, RefillConfigCache, Housekeeping,
         CleanupBans, CleanupFind, vars

\* Nobody's scores change by the call of another one, or by a ban of another one,
\* except where the copy that is written back was overtaken or never read.
THEOREM OthersAreKept == Spec => OthersKept
<1>1. IInv /\ [Next]_vars =>
        [\A pid \in Players, goal \in Goals :
           Of(board[goal], pid) # Of(board'[goal], pid) =>
              \/ \E c \in Consoles :
                  /\ call[c].op = "update" /\ call'[c] = Idle
                  /\ call[c].pid = pid \/ call[c].read # board
              \/ /\ hk.op = "update" /\ hk' = Idle
                 /\ (pid \in hk.pids /\ Permanent(pid) \in Bannable) \/ hk.read # board]_vars
  BY StepKeepsOthers
<1> QED
  BY <1>1, Invariant, PTL DEF Spec, OthersKept
==============================================================================
