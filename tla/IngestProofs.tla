---------------------------- MODULE IngestProofs ----------------------------
(***************************************************************************)
(* What `ingest` and `import` leave on disk and in the journal, for any    *)
(* collections, arrivals, statements, page sizes and limits, and any       *)
(* number of runs, each of which may be killed at any of its steps.        *)
(***************************************************************************)
EXTENDS Ingest, CollectionTheorems, SequenceTheorems

-----------------------------------------------------------------------------
(* What a quarantine store appends.                                         *)

\* append of one id to the lines, by a store that has seen some.
AppendOne(s, q) ==
    IF q \in s.seen THEN s ELSE [lines |-> Append(s.lines, q), seen |-> s.seen \cup {q}]

\* g gives what is written after the ids at each set of positions.
Appending(g, base, ids, S) ==
    g = [s \in SUBSET S |->
            IF s = {} THEN base ELSE AppendOne(g[s \ {Max(s)}], ids[Max(s)])]

LEMMA AppendingExists ==
    ASSUME NEW n \in Nat, NEW base, NEW ids
    PROVE  \E g : Appending(g, base, ids, 1..n)
<1> DEFINE S == 1..n
           Upto(m) == {s \in SUBSET S : Cardinality(s) =< m}
           After(g, s) == IF s = {} THEN base ELSE AppendOne(g[s \ {Max(s)}], ids[Max(s)])
           To(g, m) == g = [s \in Upto(m) |-> After(g, s)]
           Bad == {m \in Nat : ~\E g : To(g, m)}
<1>0. IsFiniteSet(S) /\ Cardinality(S) \in Nat
  BY FS_Interval, FS_CardinalityType
<1>1. ASSUME NEW s \in SUBSET S
      PROVE  /\ IsFiniteSet(s) /\ Cardinality(s) \in Nat /\ Cardinality(s) =< Cardinality(S)
             /\ Cardinality(s) = 0 <=> s = {}
             /\ s # {} => /\ s \ {Max(s)} \in SUBSET S
                          /\ Cardinality(s \ {Max(s)}) = Cardinality(s) - 1
  <2>1. IsFiniteSet(s) /\ Cardinality(s) \in Nat /\ Cardinality(s) =< Cardinality(S)
    <3> HIDE DEF S
    <3> QED
      BY <1>0, FS_Subset, FS_CardinalityType
  <2>2. Cardinality(s) = 0 <=> s = {}
    BY <2>1, FS_EmptySet
  <2>3. s # {} => Max(s) \in s
    BY GreatestNatural
  <2> HIDE DEF S
  <2> QED
    BY <2>1, <2>2, <2>3, FS_RemoveElement
<1>2. \A s \in SUBSET S : Cardinality(s) \in Nat /\ (Cardinality(s) = 0 => s = {})
  <2> HIDE DEF S
  <2> QED
    BY <1>1
<1> HIDE DEF S
<1>3. Bad = {}
  <2> SUFFICES ASSUME Bad # {} PROVE FALSE
    OBVIOUS
  <2> DEFINE m == Min(Bad)
  <2>1. m \in Bad /\ \A k \in Bad : m =< k
    <3>1. Bad \in SUBSET Nat
      OBVIOUS
    <3> HIDE DEF Bad
    <3> QED
      BY <3>1, LeastNatural
  <2>2. m \in Nat /\ ~\E g : To(g, m)
    BY <2>1
  <2> HIDE DEF m
  <2>3. CASE m = 0
    <3>1. \A s \in Upto(0) : s = {}
      BY <1>2
    <3>2. To([s \in Upto(0) |-> base], 0)
      BY <3>1
    <3> QED
      BY <2>2, <2>3, <3>2
  <2>4. CASE m # 0
    <3>1. m - 1 \in Nat /\ m - 1 \notin Bad
      <4> HIDE DEF Bad
      <4> QED
        BY <2>1, <2>2, <2>4
    <3>2. PICK g : To(g, m - 1)
      BY <3>1
    <3> DEFINE f == [s \in Upto(m) |-> After(g, s)]
    <3>3. ASSUME NEW t \in Upto(m - 1) PROVE f[t] = g[t]
      <4>1. t \in Upto(m)
        BY <1>2, <2>2
      <4>2. g[t] = After(g, t)
        <5> HIDE DEF After, Upto
        <5> QED
          BY <3>2
      <4> HIDE DEF After, Upto
      <4> QED
        BY <4>1, <4>2
    <3>4. ASSUME NEW s \in Upto(m), s # {} PROVE s \ {Max(s)} \in Upto(m - 1)
      BY <1>1, <2>2, <3>4
    <3>5. \A s \in Upto(m) : After(g, s) = After(f, s)
      <4> SUFFICES ASSUME NEW s \in Upto(m), s # {} PROVE g[s \ {Max(s)}] = f[s \ {Max(s)}]
        <5> HIDE DEF Upto, f
        <5> QED
          OBVIOUS
      <4> HIDE DEF Upto, f
      <4> QED
        BY <3>3, <3>4
    <3>6. To(f, m)
      <4>1. f = [s \in Upto(m) |-> After(g, s)]
        OBVIOUS
      <4> HIDE DEF f, After, Upto
      <4>2. f = [s \in Upto(m) |-> After(f, s)]
        BY <3>5, <4>1
      <4> QED
        BY <4>2
    <3> QED
      BY <2>2, <3>6
  <2> QED
    BY <2>3, <2>4
<1>5. PICK g : To(g, Cardinality(S))
  BY <1>0, <1>3
<1>6. Upto(Cardinality(S)) = SUBSET S
  BY <1>1
<1>7. g = [s \in SUBSET S |-> After(g, s)]
  <2> HIDE DEF After, Upto
  <2> QED
    BY <1>5, <1>6
<1> QED
  BY <1>7 DEF Appending, S

LEMMA AppendAllIsAppending ==
    ASSUME NEW lines, NEW store, NEW ids, IsSequence(ids)
    PROVE  \E g : /\ Appending(g, [lines |-> lines, seen |-> store], ids, 1..Len(ids))
                  /\ AppendAll(lines, store, ids) = g[1..Len(ids)]
<1> DEFINE base == [lines |-> lines, seen |-> store]
           S == 1..Len(ids)
           g == CHOOSE f : Appending(f, base, ids, S)
<1>1. Len(ids) \in Nat /\ DOMAIN ids = S
  BY SequenceHas
<1>2. Appending(g, base, ids, S)
  BY <1>1, AppendingExists
<1>3. AppendAll(lines, store, ids) = g[S]
  BY <1>1 DEF AppendAll, FoldLeft, MapThenFoldSet, Appending, AppendOne
<1> QED
  BY <1>2, <1>3

\* One more line, for an id that is in none.
LEMMA OneMoreLine ==
    ASSUME NEW lines, IsSequence(lines), IsInjective(lines), NEW q, q \notin ToSet(lines)
    PROVE  LET new == Append(lines, q) IN
           /\ IsSequence(new) /\ IsInjective(new)
           /\ Len(new) \in Nat /\ Len(lines) \in Nat /\ Len(lines) =< Len(new)
           /\ \A i \in 1..Len(lines) : new[i] = lines[i]
           /\ ToSet(new) = ToSet(lines) \cup {q}
<1> DEFINE n == Len(lines)
           new == Append(lines, q)
           X == ToSet(lines) \cup {q}
<1>1. /\ n \in Nat /\ DOMAIN lines = 1..n /\ \A i \in 1..n : lines[i] \in ToSet(lines)
      /\ \A x \in ToSet(lines) : \E i \in 1..n : lines[i] = x
  BY SequenceHas
<1>2. lines \in Seq(X) /\ q \in X
  <2>1. lines \in Seq(ToSet(lines))
    BY DEF IsSequence
  <2> HIDE DEF n, new
  <2> QED
    BY <2>1, SeqMonotonic
<1>3. /\ new \in Seq(X) /\ Len(new) = n + 1
      /\ \A i \in 1..n : new[i] = lines[i]
      /\ new[n + 1] = q
  <2> HIDE DEF X
  <2> QED
    BY <1>2, AppendProperties
<1> HIDE DEF n, new
<1>4. DOMAIN new = 1..(n + 1) /\ IsSequence(new) /\ ToSet(new) \subseteq X
  <2>1. IsSequence(new) /\ ToSet(new) \subseteq X
    BY <1>3, SequenceOf
  <2> QED
    BY <1>3, <2>1, SequenceHas
<1>5. \A i \in 1..(n + 1) : i \in 1..n \/ i = n + 1
  BY <1>1
<1>6. n + 1 \in 1..(n + 1) /\ \A i \in 1..n : i \in 1..(n + 1)
  BY <1>1
<1>7. IsInjective(new)
  <2>1. \A i \in 1..n : new[i] # q
    BY <1>1, <1>3
  <2>2. \A i, j \in 1..n : new[i] = new[j] => i = j
    BY <1>1, <1>3 DEF IsInjective
  <2> QED
    BY <1>3, <1>4, <1>5, <2>1, <2>2 DEF IsInjective
<1>8. X \subseteq ToSet(new)
  <2>1. \A i \in 1..(n + 1) : new[i] \in ToSet(new)
    BY <1>3, <1>4, SequenceHas
  <2>2. q \in ToSet(new)
    BY <1>3, <1>6, <2>1
  <2>3. \A x \in ToSet(lines) : x \in ToSet(new)
    BY <1>1, <1>3, <1>6, <2>1
  <2> QED
    BY <2>2, <2>3
<1> QED
  BY <1>1, <1>3, <1>4, <1>7, <1>8 DEF n, new

\* The lines stay, the ids are all among them, none is there twice, and the
\* store knows them: as it did before.
LEMMA AppendedLines ==
    ASSUME NEW lines, IsSequence(lines), IsInjective(lines), NEW ids, IsSequence(ids)
    PROVE  LET w == AppendAll(lines, ToSet(lines), ids) IN
           /\ IsSequence(w.lines) /\ IsInjective(w.lines)
           /\ Len(lines) =< Len(w.lines)
           /\ \A i \in 1..Len(lines) : w.lines[i] = lines[i]
           /\ w.seen = ToSet(w.lines) /\ ToSet(ids) \subseteq ToSet(w.lines)
<1> DEFINE base == [lines |-> lines, seen |-> ToSet(lines)]
           n == Len(ids)
           Good(w, k) ==
              /\ w = [lines |-> w.lines, seen |-> w.seen]
              /\ IsSequence(w.lines) /\ IsInjective(w.lines)
              /\ Len(w.lines) \in Nat /\ Len(lines) =< Len(w.lines)
              /\ \A i \in 1..Len(lines) : w.lines[i] = lines[i]
              /\ w.seen = ToSet(w.lines)
              /\ \A i \in 1..k : ids[i] \in w.seen
<1>1. PICK g : Appending(g, base, ids, 1..n) /\ AppendAll(lines, ToSet(lines), ids) = g[1..n]
  BY AppendAllIsAppending
<1>2. n \in Nat /\ DOMAIN ids = 1..n /\ Len(lines) \in Nat
  BY SequenceHas
<1>3. Good(base, 0)
  BY <1>2
<1>4. g[{}] = base
  BY <1>1 DEF Appending
<1> HIDE DEF n, Good, base
<1>5. ASSUME NEW k \in 1..n
      PROVE  g[1..k] = AppendOne(g[1..(k - 1)], ids[k])
  <2>1. k \in Nat /\ 1..k \in SUBSET (1..n) /\ 1..k \in SUBSET (1..k) /\ k \in 1..k
    BY <1>2
  <2>2. Max(1..k) \in 1..k /\ Max(1..k) >= k
    BY <2>1, GreatestNatural
  <2>3. Max(1..k) = k /\ (1..k) \ {k} = 1..(k - 1) /\ 1..k # {}
    BY <2>1, <2>2
  <2>4. g[1..k] = AppendOne(g[(1..k) \ {Max(1..k)}], ids[Max(1..k)])
    BY <1>1, <2>1, <2>3 DEF Appending
  <2> QED
    BY <2>3, <2>4
<1>6. ASSUME NEW w, NEW k \in 1..n, Good(w, k - 1)
      PROVE  Good(AppendOne(w, ids[k]), k)
  <2>0. \A i \in 1..k : i = k \/ i \in 1..(k - 1)
    BY <1>2
  <2>1. CASE ids[k] \in w.seen
    BY <1>6, <2>0, <2>1 DEF Good, AppendOne
  <2>2. CASE ids[k] \notin w.seen
    <3> DEFINE q == ids[k]
               new == Append(w.lines, q)
    <3>1. AppendOne(w, q) = [lines |-> new, seen |-> w.seen \cup {q}]
      BY <2>2 DEF AppendOne
    <3>2. /\ IsSequence(w.lines) /\ IsInjective(w.lines) /\ q \notin ToSet(w.lines)
          /\ w.seen = ToSet(w.lines) /\ Len(w.lines) \in Nat /\ Len(lines) =< Len(w.lines)
          /\ \A i \in 1..Len(lines) : w.lines[i] = lines[i]
          /\ \A i \in 1..(k - 1) : ids[i] \in w.seen
      BY <1>6, <2>2 DEF Good
    <3>3. /\ IsSequence(new) /\ IsInjective(new)
          /\ Len(new) \in Nat /\ Len(w.lines) =< Len(new)
          /\ \A i \in 1..Len(w.lines) : new[i] = w.lines[i]
          /\ ToSet(new) = ToSet(w.lines) \cup {q}
      BY <3>2, OneMoreLine
    <3>4. \A i \in 1..k : ids[i] \in w.seen \cup {q}
      BY <2>0, <3>2
    <3> HIDE DEF new, q
    <3>5. Len(lines) =< Len(new) /\ \A i \in 1..Len(lines) : new[i] = lines[i]
      <4> DEFINE a == Len(lines)
                 b == Len(w.lines)
                 c == Len(new)
      <4>1. a \in Nat /\ b \in Nat /\ c \in Nat /\ a =< b /\ b =< c
        BY <1>2, <3>2, <3>3
      <4> HIDE DEF a, b, c
      <4>2. a =< c /\ \A i \in 1..a : i \in 1..b
        BY <4>1
      <4> QED
        BY <3>2, <3>3, <4>2 DEF a, b, c
    <3>6. Good([lines |-> new, seen |-> w.seen \cup {q}], k)
      BY <3>2, <3>3, <3>4, <3>5 DEF Good
    <3> QED
      BY <3>1, <3>6 DEF q
  <2> QED
    BY <2>1, <2>2
<1>7. \A k \in 0..n : Good(g[1..k], k)
  <2> DEFINE Bad == {k \in 0..n : ~Good(g[1..k], k)}
  <2> SUFFICES ASSUME Bad # {} PROVE FALSE
    OBVIOUS
  <2> DEFINE k == Min(Bad)
  <2>1. k \in Bad /\ \A m \in Bad : k =< m
    <3>1. Bad \in SUBSET Nat
      BY <1>2
    <3> HIDE DEF Bad
    <3> QED
      BY <3>1, LeastNatural
  <2>2. k \in 0..n /\ ~Good(g[1..k], k)
    BY <2>1
  <2> HIDE DEF k
  <2>3. k # 0
    <3>1. 1..0 = {}
      OBVIOUS
    <3> QED
      BY <1>3, <1>4, <2>2, <3>1
  <2>4. k \in 1..n /\ k - 1 \in 0..n
    BY <1>2, <2>2, <2>3
  <2>5. Good(g[1..(k - 1)], k - 1)
    <3>1. k - 1 \notin Bad
      <4> HIDE DEF Bad
      <4>1. ~(k =< k - 1)
        BY <2>4
      <4> QED
        BY <2>1, <4>1
    <3> QED
      BY <2>4, <3>1
  <2> QED
    BY <1>5, <1>6, <2>2, <2>4, <2>5
<1>8. Good(g[1..n], n)
  BY <1>2, <1>7
<1>9. ToSet(ids) \subseteq g[1..n].seen
  <2>1. \A x \in ToSet(ids) : \E i \in 1..n : ids[i] = x
    BY SequenceHas DEF n
  <2> QED
    BY <1>8, <2>1 DEF Good
<1> QED
  BY <1>1, <1>8, <1>9 DEF Good

\* What a kill leaves of the lines.
LEMMA PrefixOfLines ==
    ASSUME NEW lines, IsSequence(lines), IsInjective(lines), NEW n \in 0..Len(lines)
    PROVE  LET cut == SubSeq(lines, 1, n) IN
           /\ IsSequence(cut) /\ IsInjective(cut) /\ Len(cut) = n
           /\ \A i \in 1..n : cut[i] = lines[i]
<1> DEFINE cut == SubSeq(lines, 1, n)
<1>1. Len(lines) \in Nat /\ DOMAIN lines = 1..Len(lines) /\ n \in Nat /\ 1 \in Int
  BY SequenceHas
<1>2. \A i \in 1..n : lines[i] \in ToSet(lines) /\ i \in 1..Len(lines)
  BY <1>1, SequenceHas
<1>3. /\ cut \in Seq(ToSet(lines)) /\ Len(cut) = n
      /\ \A i \in 1..n : cut[i] = lines[i]
  <2>1. /\ cut \in Seq(ToSet(lines)) /\ Len(cut) = (IF 1 =< n THEN n - 1 + 1 ELSE 0)
        /\ \A i \in 1..(n - 1 + 1) : cut[i] = lines[1 + i - 1]
    <3> HIDE DEF cut
    <3> QED
      BY <1>1, <1>2, SubSeqProperties DEF cut
  <2> HIDE DEF cut
  <2>2. n - 1 + 1 = n /\ (~(1 =< n) => n = 0) /\ \A i \in 1..n : 1 + i - 1 = i
    BY <1>1
  <2> QED
    BY <2>1, <2>2
<1> HIDE DEF cut
<1>4. IsSequence(cut) /\ DOMAIN cut = 1..n
  BY <1>3, SequenceOf, SequenceHas
<1>5. IsInjective(cut)
  BY <1>1, <1>2, <1>3, <1>4 DEF IsInjective
<1> QED
  BY <1>3, <1>4, <1>5 DEF cut

-----------------------------------------------------------------------------
(* What each variable is, and where a run may be.                           *)

Shape ==
    /\ DOMAIN api = ToSet(FEEDS)
    /\ fetched = [f \in ToSet(FEEDS) |-> fetched[f]]
    /\ \A f \in ToSet(FEEDS) :
          IsSequence(api[f]) /\ IsSequence(fetched[f]) /\ Len(fetched[f]) =< Limit
    /\ mapped = [s \in SourceKind |-> mapped[s]]
    /\ \A s \in SourceKind : IsSequence(mapped[s])
    /\ tally \in [skipped : Nat, quarantined : Nat]
    /\ DOMAIN files = SourceKind
    /\ \A s \in SourceKind : DOMAIN files[s] = {"by", "rows", "whole"}
    /\ manifest = [s \in SourceKind |-> manifest[s]]
    /\ journal = [lines |-> journal.lines, torn |-> journal.torn]
    /\ journal.torn \in BOOLEAN

\* Where a run of either command may be, and at which feed or file.
Place ==
    /\ runs \in 0..MaxRuns /\ job \in {"none", "ingest", "import"}
    /\ pc \in {"idle", "fetch", "cover", "open", "map", "link", "store", "write",
               "fill", "manifest", "receipt"}
    /\ at \in 1..5
    /\ pc # "idle" => runs >= 1 /\ job # "none"
    /\ job = "import" => pc \in {"idle", "write", "fill", "manifest"} /\ at = 3
    /\ pc \in {"map", "write", "fill"} => at \in 1..4
    /\ pc = "link" => at = 4
    /\ pc = "manifest" /\ job = "ingest" => at = 4

WellPlaced == Shape /\ Place

LEMMA Names ==
    /\ ToSet(FEEDS) = {"orders", "payments", "refunds", "settlements", "recon"}
    /\ ToSet(MAPS) = {"orders", "payments", "refunds", "settlements"}
    /\ ToSet(FILES) = SourceKind
    /\ \A i \in 1..5 : FEEDS[i] \in ToSet(FEEDS)
    /\ \A i \in 1..4 : MAPS[i] \in ToSet(MAPS) /\ FILES[i] \in SourceKind
    /\ \A f \in ToSet(MAPS) : f \in ToSet(FEEDS) /\ Kind(f) \in SourceKind
    /\ Len(FILES) = 4
<1>1. /\ ToSet(FEEDS) = {"orders", "payments", "refunds", "settlements", "recon"}
      /\ \A i \in 1..5 : FEEDS[i] \in ToSet(FEEDS)
  <2>1. DOMAIN FEEDS = {1, 2, 3, 4, 5} /\ 1..5 = {1, 2, 3, 4, 5}
    BY DEF FEEDS
  <2> QED
    BY <2>1 DEF ToSet, FEEDS
<1>2. /\ ToSet(MAPS) = {"orders", "payments", "refunds", "settlements"}
      /\ \A i \in 1..4 : MAPS[i] \in ToSet(MAPS)
  <2>1. DOMAIN MAPS = {1, 2, 3, 4} /\ 1..4 = {1, 2, 3, 4}
    BY DEF MAPS
  <2> QED
    BY <2>1 DEF ToSet, MAPS
<1>3. ToSet(FILES) = SourceKind /\ \A i \in 1..4 : FILES[i] \in SourceKind
  <2>1. DOMAIN FILES = {1, 2, 3, 4} /\ 1..4 = {1, 2, 3, 4}
    BY DEF FILES
  <2> QED
    BY <2>1 DEF ToSet, FILES, SourceKind
<1>4. \A f \in ToSet(MAPS) : f \in ToSet(FEEDS) /\ Kind(f) \in SourceKind
  BY <1>1, <1>2 DEF Kind, SourceKind
<1> QED
  BY <1>1, <1>2, <1>3, <1>4 DEF FILES

LEMMA EmptyIsSequence == IsSequence(<<>>) /\ Len(<<>>) = 0
BY SequenceOf, EmptySeq

LEMMA PlacedAtStart == Init => WellPlaced
<1> SUFFICES ASSUME Init PROVE WellPlaced
  OBVIOUS
<1>1. Shape
  <2>1. DOMAIN api = ToSet(FEEDS) /\ \A f \in ToSet(FEEDS) : IsSequence(api[f])
    BY IngestConstants DEF Init, IsSequence
  <2>2. /\ fetched = [f \in ToSet(FEEDS) |-> fetched[f]]
        /\ \A f \in ToSet(FEEDS) : IsSequence(fetched[f]) /\ Len(fetched[f]) =< Limit
    BY EmptyIsSequence, IngestConstants DEF Init
  <2>3. /\ mapped = [s \in SourceKind |-> mapped[s]]
        /\ \A s \in SourceKind : IsSequence(mapped[s])
    BY EmptyIsSequence DEF Init
  <2> QED
    BY <2>1, <2>2, <2>3 DEF Init, Shape, NoFile, EmptyJournal
<1>2. Place
  BY IngestConstants DEF Init, Place
<1> QED
  BY <1>1, <1>2 DEF WellPlaced

LEMMA SlicedRows ==
    ASSUME NEW rows, IsSequence(rows), NEW first \in Nat \ {0}, NEW last \in Nat
    PROVE  LET slice == Slice(rows, first, last) IN
           /\ IsSequence(slice) /\ ToSet(slice) \subseteq ToSet(rows)
           /\ first = 1 => Len(slice) =< last
<1> DEFINE n == Min({last, Len(rows)})
           slice == Slice(rows, first, last)
<1>1. Len(rows) \in Nat /\ \A i \in 1..Len(rows) : rows[i] \in ToSet(rows)
  BY SequenceHas
<1>2. n \in Nat /\ n =< last /\ n =< Len(rows)
  <2>1. {last, Len(rows)} \in SUBSET Nat
    BY <1>1
  <2>2. n \in {last, Len(rows)} /\ \A y \in {last, Len(rows)} : n =< y
    BY <2>1, LeastNatural
  <2> QED
    BY <1>1, <2>2
<1>3. slice = SubSeq(rows, first, n)
  BY DEF Slice
<1> HIDE DEF n, slice
<1>4. \A i \in first..n : rows[i] \in ToSet(rows)
  BY <1>1, <1>2
<1>5. /\ slice \in Seq(ToSet(rows))
      /\ Len(slice) = IF first =< n THEN n - first + 1 ELSE 0
  BY <1>2, <1>3, <1>4, SubSeqProperties
<1>6. IsSequence(slice) /\ ToSet(slice) \subseteq ToSet(rows)
  BY <1>5, SequenceOf
<1>7. first = 1 => Len(slice) =< last
  BY <1>2, <1>5
<1> QED
  BY <1>6, <1>7 DEF slice

\* A page makes the rows of its feed longer, up to the limit, by what is there.
LEMMA FetchedRows ==
    ASSUME WellPlaced, FetchPage
    PROVE  /\ FEEDS[at] \in ToSet(FEEDS)
           /\ \E rows : /\ fetched' = [fetched EXCEPT ![FEEDS[at]] = rows]
                        /\ IsSequence(rows) /\ Len(rows) =< Limit
                        /\ ToSet(rows) \subseteq ToSet(fetched[FEEDS[at]])
                              \cup {Served(FEEDS[at], item) : item \in ToSet(api[FEEDS[at]])}
<1> DEFINE feed == FEEDS[at]
           skip == Len(fetched[feed])
           count == IF feed = "recon" THEN Min({ReconPage, Limit - skip}) ELSE Page
           page == Slice(api[feed], skip + 1, skip + count)
           batch == [i \in 1..Len(page) |-> Served(feed, page[i])]
           rows == fetched[feed] \o batch
           there == {Served(feed, item) : item \in ToSet(api[feed])}
<1>1. feed \in ToSet(FEEDS)
  BY Names DEF WellPlaced, Place
<1>2. fetched' = [fetched EXCEPT ![feed] = Cut(rows)]
  BY DEF FetchPage
<1> HIDE DEF feed
<1>3. /\ IsSequence(api[feed]) /\ IsSequence(fetched[feed]) /\ skip =< Limit /\ skip \in Nat
      /\ Limit \in Nat /\ Page \in Nat /\ ReconPage \in Nat
  BY <1>1, SequenceHas, IngestConstants DEF WellPlaced, Shape
<1> HIDE DEF skip
<1>4. count \in Nat
  <2>1. {ReconPage, Limit - skip} \in SUBSET Nat /\ {ReconPage, Limit - skip} # {}
    BY <1>3
  <2>2. Min({ReconPage, Limit - skip}) \in Nat
    BY <2>1, LeastNatural
  <2> QED
    BY <1>3, <2>2
<1> HIDE DEF count
<1>5. IsSequence(page) /\ ToSet(page) \subseteq ToSet(api[feed])
  <2>1. skip + 1 \in Nat \ {0} /\ skip + count \in Nat
    BY <1>3, <1>4
  <2> DEFINE first == skip + 1
             last == skip + count
             all == api[feed]
  <2>2. IsSequence(all) /\ first \in Nat \ {0} /\ last \in Nat
    BY <1>3, <2>1
  <2> HIDE DEF first, last, all
  <2>3. /\ IsSequence(Slice(all, first, last))
        /\ ToSet(Slice(all, first, last)) \subseteq ToSet(all)
    BY <2>2, SlicedRows
  <2> QED
    BY <2>3 DEF first, last, all
<1>6. Len(page) \in Nat /\ \A i \in 1..Len(page) : page[i] \in ToSet(api[feed])
  BY <1>5, SequenceHas
<1> HIDE DEF page
<1>7. IsSequence(batch) /\ ToSet(batch) \subseteq there
  <2>1. IsSequence(batch)
    BY <1>6, SequenceUpTo
  <2> QED
    BY <1>6, <2>1 DEF ToSet
<1> HIDE DEF batch, there
<1>8. IsSequence(rows) /\ ToSet(rows) \subseteq ToSet(fetched[feed]) \cup there
  BY <1>3, <1>7, JoinedSequences
<1> HIDE DEF rows
<1>9. /\ IsSequence(Cut(rows)) /\ Len(Cut(rows)) =< Limit
      /\ ToSet(Cut(rows)) \subseteq ToSet(rows)
  BY <1>3, <1>8, SlicedRows DEF Cut
<1> QED
  BY <1>1, <1>2, <1>8, <1>9 DEF feed, there

\* The rows of a feed are kept, skipped or refused, and the ids are of the last.
LEMMA RowsAreParted ==
    ASSUME NEW feed, IsSequence(fetched[feed])
    PROVE  LET kept == Pick(fetched[feed], DOMAIN fetched[feed]
                                              \ (SkippedAt(feed) \cup RefusedAt(feed)))
           IN  /\ IsSequence(kept) /\ IsSequence(MapperIds(feed))
               /\ Cardinality(SkippedAt(feed)) \in Nat /\ Len(kept) \in Nat
               /\ Len(MapperIds(feed)) \in Nat
               /\ Len(fetched[feed])
                     = Cardinality(SkippedAt(feed)) + Len(MapperIds(feed)) + Len(kept)
               /\ \A item \in ToSet(fetched[feed]) : Refused(feed, item) =>
                     \E q \in ToSet(MapperIds(feed)) : q.source = Kind(feed) /\ q.raw = item
<1> DEFINE rows == fetched[feed]
           n == Len(rows)
           S == SkippedAt(feed)
           R == RefusedAt(feed)
           K == DOMAIN rows \ (S \cup R)
           refused == Pick(rows, R)
           ids == MapperIds(feed)
<1>1. /\ n \in Nat /\ DOMAIN rows = 1..n
      /\ \A item \in ToSet(rows) : \E i \in 1..n : rows[i] = item
  BY SequenceHas
<1>2. /\ S \in SUBSET (1..n) /\ R \in SUBSET (1..n) /\ K \in SUBSET (1..n)
      /\ S \cap R = {} /\ K = (1..n) \ (S \cup R) /\ (1..n) \cap (S \cup R) = S \cup R
  BY <1>1 DEF SkippedAt, RefusedAt, Refused
<1>3. \A i \in 1..n : Refused(feed, rows[i]) => i \in R
  BY <1>1 DEF RefusedAt
<1>4. /\ DOMAIN ids = 1..Len(refused)
      /\ ids = [i \in 1..Len(refused) |-> ids[i]]
      /\ \A i \in 1..Len(refused) : ids[i].source = Kind(feed) /\ ids[i].raw = refused[i]
  BY DEF MapperIds, QuarantineId
<1> HIDE DEF S, R, K, ids, rows, n
<1>5. n = Cardinality(S) + Cardinality(R) + Cardinality(K)
  <2>1. IsFiniteSet(1..n) /\ Cardinality(1..n) = n
    BY <1>1, FS_Interval
  <2>2. IsFiniteSet(S) /\ IsFiniteSet(R)
    BY <1>2, <2>1, FS_Subset
  <2>3. /\ IsFiniteSet(S \cup R)
        /\ Cardinality(S \cup R) = Cardinality(S) + Cardinality(R) - Cardinality({})
    BY <1>2, <2>2, FS_Union
  <2>4. Cardinality(K) = n - Cardinality(S \cup R)
    BY <1>2, <2>1, FS_Difference
  <2>5. /\ Cardinality({}) = 0 /\ Cardinality(S) \in Nat /\ Cardinality(R) \in Nat
        /\ Cardinality(S \cup R) \in Nat
    BY <2>2, <2>3, FS_EmptySet, FS_CardinalityType
  <2> QED
    BY <1>1, <2>3, <2>4, <2>5
<1>6. /\ IsSequence(refused) /\ Len(refused) = Cardinality(R) /\ Cardinality(R) \in Nat
      /\ \A k \in R : rows[k] \in ToSet(refused)
  BY <1>1, <1>2, PickedRows
<1>7. /\ IsSequence(Pick(rows, K)) /\ Len(Pick(rows, K)) = Cardinality(K)
      /\ Cardinality(K) \in Nat /\ Cardinality(S) \in Nat
  BY <1>1, <1>2, PickedRows
<1> HIDE DEF refused
<1>8. IsSequence(ids) /\ Len(ids) = Cardinality(R)
  BY <1>4, <1>6, SequenceUpTo
<1>9. \A item \in ToSet(rows) : Refused(feed, item) =>
        \E q \in ToSet(ids) : q.source = Kind(feed) /\ q.raw = item
  <2> TAKE item \in ToSet(rows)
  <2> HAVE Refused(feed, item)
  <2>1. PICK k \in 1..n : rows[k] = item
    BY <1>1
  <2>2. k \in R
    BY <1>3, <2>1
  <2>3. PICK i \in 1..Len(refused) : refused[i] = rows[k]
    BY <1>6, <2>2, SequenceHas
  <2>4. ids[i] \in ToSet(ids)
    BY <1>6, <1>8, SequenceHas
  <2> QED
    BY <1>4, <2>1, <2>3, <2>4
<1>10. n = Cardinality(S) + Len(ids) + Len(Pick(rows, K)) /\ Len(ids) \in Nat
  BY <1>5, <1>6, <1>7, <1>8
<1>11. Pick(rows, K) = Pick(fetched[feed], DOMAIN fetched[feed]
                                              \ (SkippedAt(feed) \cup RefusedAt(feed)))
  BY DEF S, R, K, rows
<1> QED
  BY <1>7, <1>8, <1>9, <1>10, <1>11 DEF S, ids, rows, n

\* MapFeed adds to one source what it keeps of its feed.
LEMMA MappedRows ==
    ASSUME WellPlaced, MapFeed
    PROVE  /\ MAPS[at] \in ToSet(MAPS) /\ Kind(MAPS[at]) \in SourceKind
           /\ \E kept :
                 /\ IsSequence(kept) /\ Len(kept) \in Nat
                 /\ mapped' = [mapped EXCEPT ![Kind(MAPS[at])] = @ \o kept]
                 /\ Len(fetched[MAPS[at]])
                       = Cardinality(SkippedAt(MAPS[at])) + Len(MapperIds(MAPS[at])) + Len(kept)
<1> DEFINE feed == MAPS[at]
           rows == Pick(fetched[feed], DOMAIN fetched[feed]
                                          \ (SkippedAt(feed) \cup RefusedAt(feed)))
           kept == [i \in 1..Len(rows) |-> Mapped(feed, rows[i])]
<1>1. feed \in ToSet(MAPS) /\ feed \in ToSet(FEEDS) /\ Kind(feed) \in SourceKind
  BY Names DEF WellPlaced, Place, MapFeed
<1>2. IsSequence(fetched[feed])
  BY <1>1 DEF WellPlaced, Shape
<1>3. mapped' = [mapped EXCEPT ![Kind(feed)] = @ \o kept]
  BY DEF MapFeed
<1> HIDE DEF feed
<1>4. /\ Len(rows) \in Nat
      /\ Len(fetched[feed])
            = Cardinality(SkippedAt(feed)) + Len(MapperIds(feed)) + Len(rows)
  BY <1>2, RowsAreParted
<1> HIDE DEF rows
<1>5. IsSequence(kept) /\ Len(kept) = Len(rows)
  BY <1>4, SequenceUpTo
<1> HIDE DEF kept
<1> QED
  BY <1>1, <1>3, <1>4, <1>5 DEF feed

\* What WellPlaced says of the variables a run keeps in memory, and of the disk.
InMemory == <<fetched, mapped, tally>>
OnDisk == <<files, manifest, journal>>

LEMMA ShapeLasts ==
    ASSUME Shape, UNCHANGED <<api, InMemory, OnDisk>>
    PROVE  Shape'
BY DEF Shape, InMemory, OnDisk

LEMMA GivenUp ==
    ASSUME WellPlaced, GiveUp
    PROVE  Place' /\ UNCHANGED InMemory
BY DEF WellPlaced, Place, GiveUp, InMemory

LEMMA WellPlacedStep ==
    ASSUME WellPlaced, [Next]_vars
    PROVE  WellPlaced'
<1> USE DEF WellPlaced
<1>1. CASE Arrives
  <2>1. PICK new \in Incoming : api' = [api EXCEPT ![new[1]] = <<new[2]>> \o @]
    BY <1>1 DEF Arrives
  <2>2. new[1] \in ToSet(FEEDS)
    BY IngestConstants
  <2>3. IsSequence(<<new[2]>>)
    <3>1. <<new[2]>> \in Seq({new[2]})
      OBVIOUS
    <3> QED
      BY <3>1, SequenceOf
  <2>4. IsSequence(<<new[2]>> \o api[new[1]])
    BY <2>2, <2>3, JoinedSequences DEF Shape
  <2>5. DOMAIN api' = ToSet(FEEDS) /\ \A f \in ToSet(FEEDS) : IsSequence(api'[f])
    BY <2>1, <2>4 DEF Shape
  <2>6. UNCHANGED <<run, disk>>
    BY <1>1 DEF Arrives
  <2> QED
    BY <2>5, <2>6 DEF Shape, Place, run, disk
<1>2. CASE StartIngest
  <2>1. /\ fetched' = [f \in ToSet(FEEDS) |-> <<>>] /\ mapped' = [s \in SourceKind |-> <<>>]
        /\ tally' = [skipped |-> 0, quarantined |-> 0] /\ UNCHANGED <<api, disk>>
        /\ runs' = runs + 1 /\ runs < MaxRuns /\ job' = "ingest" /\ pc' = "fetch" /\ at' = 1
    BY <1>2 DEF StartIngest, Start
  <2>2. /\ fetched' = [f \in ToSet(FEEDS) |-> fetched'[f]]
        /\ \A f \in ToSet(FEEDS) : IsSequence(fetched'[f]) /\ Len(fetched'[f]) =< Limit
        /\ mapped' = [s \in SourceKind |-> mapped'[s]]
        /\ \A s \in SourceKind : IsSequence(mapped'[s])
    BY <2>1, EmptyIsSequence, IngestConstants
  <2>3. Shape'
    BY <2>1, <2>2 DEF Shape, disk
  <2>4. Place'
    BY <2>1, IngestConstants DEF Place
  <2> QED
    BY <2>3, <2>4
<1>3. CASE StartImport
  <2>1. /\ fetched' = [f \in ToSet(FEEDS) |-> <<>>]
        /\ mapped' = [s \in SourceKind |-> IF s = "bank_txn" THEN Statement ELSE <<>>]
        /\ tally' = [skipped |-> 0, quarantined |-> 0] /\ UNCHANGED <<api, disk>>
        /\ runs' = runs + 1 /\ runs < MaxRuns /\ job' = "import" /\ pc' \in {"write", "idle"}
        /\ at' = 3
    BY <1>3 DEF StartImport, Start
  <2>2. IsSequence(Statement)
    BY IngestConstants DEF IsSequence
  <2>3. /\ fetched' = [f \in ToSet(FEEDS) |-> fetched'[f]]
        /\ \A f \in ToSet(FEEDS) : IsSequence(fetched'[f]) /\ Len(fetched'[f]) =< Limit
        /\ mapped' = [s \in SourceKind |-> mapped'[s]]
        /\ \A s \in SourceKind : IsSequence(mapped'[s])
    BY <2>1, <2>2, EmptyIsSequence, IngestConstants
  <2>4. Shape'
    BY <2>1, <2>3 DEF Shape, disk
  <2>5. Place'
    BY <2>1, IngestConstants DEF Place
  <2> QED
    BY <2>4, <2>5
<1>4. CASE FetchPage
  <2>1. PICK rows : /\ fetched' = [fetched EXCEPT ![FEEDS[at]] = rows]
                    /\ IsSequence(rows) /\ Len(rows) =< Limit
    BY <1>4, FetchedRows
  <2>2. UNCHANGED <<api, disk, mapped, tally>>
    BY <1>4 DEF FetchPage
  <2>3. Shape'
    BY <2>1, <2>2 DEF Shape, disk
  <2>4. /\ UNCHANGED <<runs, job>> /\ pc = "fetch"
        /\ \/ UNCHANGED <<pc, at>>
           \/ pc' = "open" /\ at' = 1
           \/ FEEDS[at] # "recon" /\ pc' \in {"cover", "fetch"} /\ at' = at + 1
    <3> DEFINE feed == FEEDS[at]
    <3>1. /\ UNCHANGED <<runs, job>> /\ pc = "fetch"
          /\ \/ UNCHANGED <<pc, at>>
             \/ /\ at' = IF feed = "recon" THEN 1 ELSE at + 1
                /\ pc' = IF feed = "refunds" THEN "cover"
                         ELSE IF feed = "recon" THEN "open" ELSE "fetch"
      BY <1>4, Zenon DEF FetchPage
    <3> HIDE DEF feed
    <3> QED
      BY <3>1 DEF feed
  <2>5. at \in 1..5 /\ (FEEDS[at] # "recon" => at \in 1..4)
    BY DEF Place, FEEDS
  <2>6. at' \in 1..5
    BY <2>4, <2>5
  <2>7. Place'
    BY <2>4, <2>6 DEF Place
  <2> QED
    BY <2>3, <2>7
<1>5. CASE Cover
  BY <1>5, ShapeLasts, GivenUp DEF Cover, GiveUp, InMemory, OnDisk, disk, Place
<1>6. CASE OpenStore
  BY <1>6, ShapeLasts, GivenUp DEF OpenStore, Open, GiveUp, InMemory, OnDisk, disk, Place
<1>7. CASE MapFeed
  <2>1. PICK kept : /\ IsSequence(kept)
                    /\ mapped' = [mapped EXCEPT ![Kind(MAPS[at])] = @ \o kept]
    BY <1>7, MappedRows
  <2>2. Kind(MAPS[at]) \in SourceKind /\ MAPS[at] \in ToSet(FEEDS)
    BY <1>7, MappedRows, Names
  <2>3. IsSequence(mapped[Kind(MAPS[at])] \o kept)
    BY <2>1, <2>2, JoinedSequences DEF Shape
  <2>4. /\ mapped' = [s \in SourceKind |-> mapped'[s]]
        /\ \A s \in SourceKind : IsSequence(mapped'[s])
    BY <2>1, <2>2, <2>3 DEF Shape
  <2>5. /\ IsSequence(fetched[MAPS[at]])
        /\ Cardinality(SkippedAt(MAPS[at])) \in Nat /\ Len(MapperIds(MAPS[at])) \in Nat
    BY <2>2, RowsAreParted DEF Shape
  <2>6. tally' \in [skipped : Nat, quarantined : Nat]
    BY <1>7, <2>5 DEF MapFeed, Shape
  <2>7. /\ UNCHANGED <<api, fetched, files, manifest>>
        /\ journal' = [journal EXCEPT !.lines =
                          AppendAll(journal.lines, seen, MapperIds(MAPS[at])).lines]
    BY <1>7 DEF MapFeed, Journal
  <2>8. journal' = [lines |-> journal'.lines, torn |-> journal'.torn] /\ journal'.torn \in BOOLEAN
    BY <2>7 DEF Shape
  <2>9. Shape'
    BY <2>4, <2>6, <2>7, <2>8 DEF Shape
  <2>10. Place'
    <3>1. /\ UNCHANGED <<runs, job>> /\ pc = "map" /\ at' = at + 1
          /\ pc' = CASE MAPS[at] = "refunds" -> "link" [] MAPS[at] = "settlements" -> "store"
                      [] OTHER -> "map"
      BY <1>7 DEF MapFeed
    <3>2. \/ at = 1 /\ MAPS[at] = "orders"
          \/ at = 2 /\ MAPS[at] = "payments"
          \/ at = 3 /\ MAPS[at] = "refunds"
          \/ at = 4 /\ MAPS[at] = "settlements"
      <4>1. at = 1 \/ at = 2 \/ at = 3 \/ at = 4
        BY <3>1 DEF Place
      <4>2. /\ MAPS[1] = "orders" /\ MAPS[2] = "payments" /\ MAPS[3] = "refunds"
            /\ MAPS[4] = "settlements"
        BY DEF MAPS
      <4> QED
        BY <4>1, <4>2
    <3> QED
      BY <3>1, <3>2 DEF Place
  <2> QED
    BY <2>9, <2>10
<1>8. CASE Link
  <2>1. CASE GiveUp
    BY <1>8, <2>1, ShapeLasts, GivenUp DEF Link, InMemory, OnDisk, disk
  <2>2. CASE ~GiveUp
    <3> DEFINE captures == mapped.capture
               joined == [i \in 1..Len(captures) |->
                            [captures[i] EXCEPT !.settlement = SettlementOf(captures[i])]]
    <3>1. /\ mapped' = [mapped EXCEPT !.capture = joined] /\ pc = "link" /\ pc' = "map"
          /\ UNCHANGED <<api, disk, runs, job, at, fetched, tally>>
      BY <1>8, <2>2 DEF Link
    <3>2. Len(captures) \in Nat
      BY SequenceHas DEF Shape, SourceKind
    <3>3. IsSequence(joined)
      <4> HIDE DEF captures
      <4> QED
        BY <3>2, SequenceUpTo
    <3> HIDE DEF joined
    <3>4. /\ mapped' = [s \in SourceKind |-> mapped'[s]]
          /\ \A s \in SourceKind : IsSequence(mapped'[s])
      BY <3>1, <3>3 DEF Shape
    <3> QED
      BY <3>1, <3>4 DEF Shape, Place, disk
  <2> QED
    BY <2>1, <2>2
<1>9. CASE SecondStore
  BY <1>9, ShapeLasts, GivenUp DEF SecondStore, Open, GiveUp, InMemory, OnDisk, disk, Place
<1>10. CASE WriteFile
  <2>1. FILES[at] \in SourceKind
    BY <1>10, Names DEF WriteFile, Place
  <2>2. Shape'
    BY <1>10, <2>1 DEF WriteFile, Journal, Shape
  <2>3. Place'
    BY <1>10 DEF WriteFile, Place
  <2> QED
    BY <2>2, <2>3
<1>11. CASE FillFile
  <2>1. FILES[at] \in SourceKind /\ at \in 1..4
    BY <1>11, Names DEF FillFile, Place
  <2>2. Shape'
    <3>1. PICK rows : files' = [files EXCEPT ![FILES[at]].rows = rows, ![FILES[at]].whole = TRUE]
      BY <1>11 DEF FillFile
    <3>2. /\ DOMAIN files' = SourceKind
          /\ \A s \in SourceKind : DOMAIN files'[s] = {"by", "rows", "whole"}
      BY <2>1, <3>1 DEF Shape
    <3>3. UNCHANGED <<api, fetched, mapped, tally, journal, manifest>>
      BY <1>11 DEF FillFile
    <3> QED
      BY <3>2, <3>3 DEF Shape
  <2>3. Place'
    BY <1>11, <2>1, Names DEF FillFile, Place
  <2> QED
    BY <2>2, <2>3
<1>12. CASE WriteManifest
  BY <1>12 DEF WriteManifest, Shape, Place
<1>13. CASE Finish
  BY <1>13 DEF Finish, Shape, Place
<1>14. CASE FetchFails \/ Killed
  BY <1>14, ShapeLasts, GivenUp DEF FetchFails, Killed, InMemory, OnDisk, disk
<1>15. CASE KilledJournalling
  <2>1. \E n, torn : torn \in BOOLEAN /\ journal' = [lines |-> n, torn |-> torn]
    BY <1>15 DEF KilledJournalling
  <2>2. GiveUp /\ UNCHANGED <<api, files, manifest>>
    BY <1>15 DEF KilledJournalling
  <2> QED
    BY <2>1, <2>2, GivenUp DEF Shape, InMemory
<1>16. CASE KilledFilling
  <2>1. \E rows : files' = [files EXCEPT ![FILES[at]].rows = rows]
    BY <1>16 DEF KilledFilling
  <2>2. GiveUp /\ UNCHANGED <<api, journal, manifest>> /\ pc = "fill"
    BY <1>16 DEF KilledFilling
  <2>3. FILES[at] \in SourceKind
    BY <2>2, Names DEF Place
  <2>4. /\ DOMAIN files' = SourceKind
        /\ \A s \in SourceKind : DOMAIN files'[s] = {"by", "rows", "whole"}
    BY <2>1, <2>3 DEF Shape
  <2> QED
    BY <2>2, <2>4, GivenUp DEF Shape, InMemory
<1>17. CASE UNCHANGED vars
  BY <1>17 DEF vars, run, disk, Shape, Place
<1> QED
  BY <1>1, <1>2, <1>3, <1>4, <1>5, <1>6, <1>7, <1>8, <1>9, <1>10, <1>11, <1>12, <1>13, <1>14,
     <1>15, <1>16, <1>17 DEF Next, RunStep

-----------------------------------------------------------------------------
(* The disk.                                                                *)

\* The files the current run has closed, and what each of them is.
Closed(s) ==
    \/ job = "import" /\ pc = "manifest" /\ s = "bank_txn"
    \/ job = "ingest" /\ pc \in {"manifest", "receipt"}
    \/ job = "ingest" /\ pc \in {"write", "fill"} /\ \E i \in 1..(at - 1) : FILES[i] = s

ClosedFile(s) ==
    files[s].by = runs /\ files[s].whole /\ files[s].rows = AcceptedRows(mapped[s])

\* Until a run replaces the manifest all of it is older than the run, and what
\* the run has opened is newer.
DiskInv ==
    /\ WellPlaced
    /\ \A s \in SourceKind :
          files[s].by \in Nat /\ manifest[s].by \in Nat /\ files[s].by =< runs
    /\ receipt.by \in Nat
    /\ DiskOrder
    /\ pc \notin {"idle", "receipt"} => \A s \in SourceKind : manifest[s].by < runs
    /\ pc = "receipt" => receipt.by < runs /\ \A s \in SourceKind : manifest[s].by = runs
    /\ \A s \in SourceKind : Closed(s) => ClosedFile(s)
    /\ pc = "fill" => files[FILES[at]].by = runs

\* A step that leaves the files, the manifest and the receipt as they are, and
\* closes nothing.
LEMMA DiskStays ==
    ASSUME DiskInv, WellPlaced', UNCHANGED <<files, manifest, receipt, runs>>,
           pc' \notin {"receipt", "fill", "manifest", "write"},
           pc' # "idle" => pc \notin {"idle", "receipt"}
    PROVE  DiskInv'
<1>1. \A s \in SourceKind : ~Closed(s)'
  BY DEF Closed
<1> QED
  BY <1>1 DEF DiskInv, DiskOrder

LEMMA AcceptedAreCounted ==
    ASSUME NEW rows, IsSequence(rows)
    PROVE  /\ Len(AcceptedRows(rows)) = Cardinality(Accepted(rows))
           /\ IsSequence(AcceptedRows(rows))
           /\ Cardinality(Accepted(rows)) \in Nat
           /\ Accepted(rows) \in SUBSET (1..Len(rows))
<1>1. Len(rows) \in Nat /\ Accepted(rows) \in SUBSET (1..Len(rows))
  BY SequenceHas DEF Accepted
<1> HIDE DEF Accepted
<1> QED
  BY <1>1, PickedRows DEF AcceptedRows

LEMMA DiskAtStart == Init => DiskInv
<1> SUFFICES ASSUME Init PROVE DiskInv
  OBVIOUS
<1>1. WellPlaced
  BY PlacedAtStart
<1>2. DiskOrder
  BY DEF Init, DiskOrder, NoFile, NoReceipt
<1> QED
  BY <1>1, <1>2, IngestConstants DEF Init, DiskInv, NoFile, NoReceipt, Closed

LEMMA FilesAreFour ==
    /\ FILES[1] = "order" /\ FILES[2] = "capture" /\ FILES[3] = "bank_txn"
    /\ FILES[4] = "finance_event" /\ Len(FILES) = 4
    /\ \A i, j \in 1..4 : FILES[i] = FILES[j] => i = j
    /\ \A s \in SourceKind : \E i \in 1..4 : FILES[i] = s
<1>1. 1..4 = {1, 2, 3, 4}
  OBVIOUS
<1> QED
  BY <1>1 DEF FILES, SourceKind

\* The file that is filled is the only one that this closes.
LEMMA FilledIsClosed ==
    ASSUME WellPlaced, FillFile
    PROVE  \A r \in SourceKind : Closed(r)' => r = FILES[at] \/ Closed(r)
<1>1. /\ pc = "fill" /\ at \in 1..4 /\ UNCHANGED <<job>>
      /\ \/ (job = "import" \/ at = 4) /\ pc' = "manifest" /\ at' = at
         \/ ~(job = "import" \/ at = 4) /\ pc' = "write" /\ at' = at + 1
  BY FilesAreFour DEF FillFile, WellPlaced, Place
<1> TAKE r \in SourceKind
<1> HAVE Closed(r)'
<1>2. CASE job = "import"
  BY <1>1, <1>2, FilesAreFour DEF Closed, WellPlaced, Place
<1>3. CASE job = "ingest"
  <2>1. \E i \in 1..at : FILES[i] = r
    <3>1. CASE at = 4
      BY <3>1, FilesAreFour
    <3>2. CASE at # 4
      <4>1. pc' = "write" /\ at' = at + 1 /\ at' - 1 = at /\ job' = "ingest"
        BY <1>1, <1>3, <3>2
      <4> QED
        BY <1>3, <4>1 DEF Closed
    <3> QED
      BY <3>1, <3>2
  <2>2. \A i \in 1..at : i = at \/ i \in 1..(at - 1)
    BY <1>1
  <2> QED
    BY <1>1, <1>3, <2>1, <2>2 DEF Closed
<1>4. job = "import" \/ job = "ingest"
  BY <1>1 DEF WellPlaced, Place
<1> QED
  BY <1>2, <1>3, <1>4

LEMMA DiskStep ==
    ASSUME DiskInv, [Next]_vars
    PROVE  DiskInv'
<1>0. WellPlaced /\ WellPlaced'
  BY WellPlacedStep DEF DiskInv
<1>1. CASE StartIngest \/ StartImport
  <2>1. /\ UNCHANGED <<files, manifest, receipt>> /\ runs' = runs + 1
        /\ pc' \in {"fetch", "write", "idle"} /\ (pc' = "write" => at' = 3 /\ job' = "import")
    BY <1>1 DEF StartIngest, StartImport, Start, disk
  <2>2. \A s \in SourceKind : ~Closed(s)'
    <3>1. \A s \in SourceKind : Closed(s)' => pc' = "write" /\ job' = "ingest"
      BY <2>1 DEF Closed
    <3> QED
      BY <2>1, <3>1
  <2>3. runs \in Nat
    BY <1>0, IngestConstants DEF WellPlaced, Place
  <2>4. \A s \in SourceKind : manifest[s].by < runs' /\ files[s].by =< runs'
    BY <2>1, <2>3 DEF DiskInv, DiskOrder
  <2> QED
    BY <1>0, <2>1, <2>2, <2>4 DEF DiskInv, DiskOrder
<1>2. CASE WriteFile
  <2> DEFINE s == FILES[at]
  <2>1. /\ s \in SourceKind /\ pc = "write" /\ pc' = "fill" /\ UNCHANGED <<runs, job, at, mapped>>
        /\ UNCHANGED <<manifest, receipt>>
        /\ files' = [files EXCEPT ![s] = [by |-> runs, rows |-> <<>>, whole |-> FALSE]]
    BY <1>0, <1>2, Names DEF WriteFile, WellPlaced, Place
  <2>2. /\ files'[s].by = runs /\ \A r \in SourceKind : r # s => files'[r] = files[r]
        /\ runs \in Nat
    BY <1>0, <2>1, IngestConstants DEF WellPlaced, Shape, Place
  <2>3. /\ \A r \in SourceKind : manifest[r].by < runs /\ manifest[r].by \in Nat
        /\ \A r \in SourceKind : files[r].by \in Nat /\ files[r].by =< runs
        /\ \A r \in SourceKind : files[r].by >= manifest[r].by /\ manifest[r].by >= receipt.by
        /\ receipt.by \in Nat
    BY <2>1 DEF DiskInv, DiskOrder
  <2>4. \A r \in SourceKind : Closed(r)' => Closed(r) /\ r # s
    <3>1. at \in 1..4 /\ \A i \in 1..(at - 1) : FILES[i] # s
      <4>1. at \in 1..4
        BY <1>0, <2>1 DEF WellPlaced, Place
      <4> QED
        BY <4>1, FilesAreFour
    <3> QED
      BY <2>1, <3>1 DEF Closed
  <2>5. \A r \in SourceKind : Closed(r)' => ClosedFile(r)'
    BY <2>1, <2>2, <2>4 DEF DiskInv, ClosedFile
  <2> HIDE DEF s
  <2>6. DiskOrder'
    <3>1. \A r \in SourceKind :
            /\ files'[r].by >= manifest[r].by
            /\ files'[r].by = manifest[r].by /\ manifest[r].by > 0 =>
                  /\ files'[r].whole
                  /\ files'[r].rows = manifest[r].summary.hashes
                  /\ Len(files'[r].rows) = manifest[r].summary.accepted
      <4> TAKE r \in SourceKind
      <4>1. CASE r = s
        BY <2>2, <2>3, <4>1
      <4>2. CASE r # s
        BY <2>2, <4>2 DEF DiskInv, DiskOrder
      <4> QED
        BY <4>1, <4>2
    <3> QED
      BY <2>1, <3>1 DEF DiskInv, DiskOrder
  <2>7. \A r \in SourceKind : files'[r].by \in Nat /\ files'[r].by =< runs
    BY <2>2, <2>3
  <2> QED
    BY <1>0, <2>1, <2>2, <2>3, <2>5, <2>6, <2>7 DEF DiskInv, s
<1>3. CASE FillFile
  <2> DEFINE s == FILES[at]
             rows == AcceptedRows(mapped[s])
  <2>1. /\ s \in SourceKind /\ pc = "fill" /\ at \in 1..4
        /\ UNCHANGED <<runs, job, mapped, manifest, receipt>>
        /\ files' = [files EXCEPT ![s].rows = rows, ![s].whole = TRUE]
        /\ \/ (job = "import" \/ at = 4) /\ pc' = "manifest" /\ at' = at
           \/ ~(job = "import" \/ at = 4) /\ pc' = "write" /\ at' = at + 1
    <3>1. at \in 1..4 /\ s \in SourceKind
      BY <1>0, <1>3, Names DEF FillFile, WellPlaced, Place
    <3> QED
      BY <1>3, <3>1, FilesAreFour DEF FillFile
  <2>2. /\ files'[s].by = runs /\ files'[s].rows = rows /\ files'[s].whole
        /\ \A r \in SourceKind : r # s => files'[r] = files[r]
        /\ runs \in Nat /\ files[s].by = runs
    <3>1. files[s].by = runs
      BY <2>1 DEF DiskInv
    <3>2. s \in DOMAIN files /\ DOMAIN files[s] = {"by", "rows", "whole"}
      BY <1>0, <2>1 DEF WellPlaced, Shape
    <3>3. runs \in Nat
      BY <1>0, IngestConstants DEF WellPlaced, Place
    <3> HIDE DEF rows, s
    <3>4. /\ files'[s].by = files[s].by /\ files'[s].rows = rows /\ files'[s].whole
      BY <2>1, <3>2
    <3>5. \A r \in SourceKind : r # s => files'[r] = files[r]
      BY <1>0, <2>1 DEF WellPlaced, Shape
    <3> QED
      BY <3>1, <3>3, <3>4, <3>5
  <2>3. \A r \in SourceKind : manifest[r].by < runs
    BY <2>1 DEF DiskInv
  <2>4. \A r \in SourceKind : Closed(r)' => r = s \/ Closed(r)
    BY <1>0, <1>3, FilledIsClosed
  <2>5. \A r \in SourceKind : Closed(r)' => ClosedFile(r)'
    <3> TAKE r \in SourceKind
    <3> HAVE Closed(r)'
    <3>1. CASE r = s
      <4> HIDE DEF s
      <4> QED
        BY <2>1, <2>2, <3>1 DEF ClosedFile
    <3>2. CASE r # s
      <4>1. ClosedFile(r)
        BY <2>4, <3>2 DEF DiskInv
      <4>2. files'[r] = files[r]
        BY <2>2, <3>2
      <4> QED
        BY <2>1, <4>1, <4>2 DEF ClosedFile
    <3> QED
      BY <3>1, <3>2
  <2> HIDE DEF s, rows
  <2>6. DiskOrder'
    <3>1. \A r \in SourceKind :
            /\ files'[r].by >= manifest[r].by
            /\ files'[r].by = manifest[r].by /\ manifest[r].by > 0 =>
                  /\ files'[r].whole
                  /\ files'[r].rows = manifest[r].summary.hashes
                  /\ Len(files'[r].rows) = manifest[r].summary.accepted
      <4> TAKE r \in SourceKind
      <4>1. CASE r = s
        BY <2>2, <2>3, <4>1 DEF DiskInv
      <4>2. CASE r # s
        BY <2>2, <4>2 DEF DiskInv, DiskOrder
      <4> QED
        BY <4>1, <4>2
    <3> QED
      BY <2>1, <3>1 DEF DiskInv, DiskOrder
  <2>7. \A r \in SourceKind : files'[r].by \in Nat /\ files'[r].by =< runs
    <3>1. \A r \in SourceKind : files'[r].by = files[r].by
      BY <2>2
    <3> QED
      BY <3>1 DEF DiskInv
  <2>8. pc' \in {"manifest", "write"}
    BY <2>1
  <2> QED
    BY <1>0, <2>1, <2>3, <2>5, <2>6, <2>7, <2>8 DEF DiskInv
<1>4. CASE WriteManifest
  <2>1. /\ pc = "manifest" /\ UNCHANGED <<runs, job, at, mapped, files, receipt>>
        /\ manifest' = [s \in SourceKind |->
                          IF job = "import" /\ s # "bank_txn" THEN manifest[s]
                          ELSE [by |-> runs, summary |-> Summary(s, mapped[s])]]
        /\ pc' = IF job = "import" THEN "idle" ELSE "receipt"
    BY <1>4 DEF WriteManifest, Entry
  <2>2. runs \in Nat /\ runs >= 1 /\ job \in {"import", "ingest"}
    BY <1>0, <2>1, IngestConstants DEF WellPlaced, Place
  <2>3. /\ \A s \in SourceKind : manifest[s].by < runs /\ manifest[s].by \in Nat
        /\ \A s \in SourceKind : files[s].by \in Nat /\ files[s].by =< runs
        /\ \A s \in SourceKind : files[s].by >= manifest[s].by /\ manifest[s].by >= receipt.by
        /\ receipt.by \in Nat
    BY <2>1 DEF DiskInv, DiskOrder
  <2>4. ASSUME NEW s \in SourceKind, ~(job = "import" /\ s # "bank_txn")
        PROVE  /\ manifest'[s].by = runs /\ files[s].by = runs /\ files[s].whole
               /\ files[s].rows = manifest'[s].summary.hashes
               /\ Len(files[s].rows) = manifest'[s].summary.accepted
    <3>1. Closed(s)
      BY <2>1, <2>2, <2>4 DEF Closed
    <3>2. files[s].by = runs /\ files[s].whole /\ files[s].rows = AcceptedRows(mapped[s])
      BY <3>1 DEF DiskInv, ClosedFile
    <3>3. manifest'[s] = [by |-> runs, summary |-> Summary(s, mapped[s])]
      BY <2>1, <2>4
    <3>4. Len(AcceptedRows(mapped[s])) = Cardinality(Accepted(mapped[s]))
      BY <1>0, AcceptedAreCounted DEF WellPlaced, Shape
    <3> QED
      BY <3>2, <3>3, <3>4 DEF Summary
  <2>5. ASSUME NEW s \in SourceKind, job = "import" /\ s # "bank_txn"
        PROVE  manifest'[s] = manifest[s]
    BY <2>1, <2>5
  <2>6. \A s \in SourceKind : /\ manifest'[s].by \in Nat /\ manifest'[s].by >= manifest[s].by
                              /\ files[s].by >= manifest'[s].by
    BY <2>2, <2>3, <2>4, <2>5
  <2>7. DiskOrder'
    <3>1. \A s \in SourceKind :
            files[s].by = manifest'[s].by /\ manifest'[s].by > 0 =>
                  /\ files[s].whole
                  /\ files[s].rows = manifest'[s].summary.hashes
                  /\ Len(files[s].rows) = manifest'[s].summary.accepted
      <4> TAKE s \in SourceKind
      <4>1. CASE job = "import" /\ s # "bank_txn"
        BY <2>5, <4>1 DEF DiskInv, DiskOrder
      <4> QED
        BY <2>4, <4>1
    <3>2. \A s \in SourceKind : receipt.by > 0 /\ manifest'[s].by = receipt.by =>
            receipt.manifest[s] = manifest'[s]
      <4> TAKE s \in SourceKind
      <4>1. CASE job = "import" /\ s # "bank_txn"
        BY <2>5, <4>1 DEF DiskInv, DiskOrder
      <4>2. CASE ~(job = "import" /\ s # "bank_txn")
        BY <2>2, <2>3, <2>4, <4>2
      <4> QED
        BY <4>1, <4>2
    <3>3. \A s \in SourceKind : manifest'[s].by >= receipt.by
      BY <2>3, <2>6
    <3> QED
      BY <2>1, <2>6, <3>1, <3>2, <3>3 DEF DiskOrder
  <2>8. \A s \in SourceKind : Closed(s)' => ClosedFile(s)'
    <3> TAKE s \in SourceKind
    <3> HAVE Closed(s)'
    <3>1. Closed(s)
      BY <2>1, <2>2 DEF Closed
    <3> QED
      BY <2>1, <3>1 DEF DiskInv, ClosedFile
  <2>9. pc' = "receipt" => receipt.by < runs /\ \A s \in SourceKind : manifest'[s].by = runs
    <3>1. "order" \in SourceKind
      BY DEF SourceKind
    <3> QED
      BY <2>1, <2>2, <2>3, <2>4, <3>1
  <2> QED
    BY <1>0, <2>1, <2>3, <2>6, <2>7, <2>8, <2>9 DEF DiskInv
<1>5. CASE Finish
  <2>1. /\ pc = "receipt" /\ pc' = "idle" /\ UNCHANGED <<runs, files, manifest>>
        /\ receipt'.by = runs /\ receipt'.manifest = manifest
    BY <1>5 DEF Finish
  <2>2. runs \in Nat /\ \A s \in SourceKind : manifest[s].by = runs
    BY <1>0, <2>1, IngestConstants DEF DiskInv, WellPlaced, Place
  <2>3. DiskOrder'
    BY <2>1, <2>2 DEF DiskInv, DiskOrder
  <2>4. \A s \in SourceKind : ~Closed(s)'
    BY <2>1 DEF Closed
  <2> QED
    BY <1>0, <2>1, <2>2, <2>3, <2>4 DEF DiskInv
<1>6. CASE KilledFilling
  <2>1. PICK rows : files' = [files EXCEPT ![FILES[at]].rows = rows]
    BY <1>6 DEF KilledFilling
  <2>2. /\ pc = "fill" /\ pc' = "idle" /\ UNCHANGED <<runs, manifest, receipt>>
        /\ FILES[at] \in SourceKind
    BY <1>0, <1>6, Names DEF KilledFilling, GiveUp, WellPlaced, Place
  <2> DEFINE s == FILES[at]
  <2>3. files[s].by = runs /\ manifest[s].by < runs /\ runs \in Nat
    BY <1>0, <2>2, IngestConstants DEF DiskInv, WellPlaced, Place
  <2> HIDE DEF s
  <2>4. /\ \A r \in SourceKind : r # s => files'[r] = files[r]
        /\ files'[s].by = files[s].by
    BY <1>0, <2>1, <2>2 DEF WellPlaced, Shape, s
  <2>5. DiskOrder'
    <3>1. \A r \in SourceKind :
            /\ files'[r].by >= manifest[r].by
            /\ files'[r].by = manifest[r].by /\ manifest[r].by > 0 =>
                  /\ files'[r].whole
                  /\ files'[r].rows = manifest[r].summary.hashes
                  /\ Len(files'[r].rows) = manifest[r].summary.accepted
      <4> TAKE r \in SourceKind
      <4>1. CASE r = s
        BY <2>3, <2>4, <4>1 DEF DiskInv
      <4>2. CASE r # s
        BY <2>4, <4>2 DEF DiskInv, DiskOrder
      <4> QED
        BY <4>1, <4>2
    <3> QED
      BY <2>2, <3>1 DEF DiskInv, DiskOrder
  <2>6. \A r \in SourceKind : files'[r].by = files[r].by /\ ~Closed(r)'
    BY <2>2, <2>4 DEF Closed
  <2> QED
    BY <1>0, <2>2, <2>5, <2>6 DEF DiskInv
<1>7. CASE \/ FetchPage \/ Cover \/ OpenStore \/ MapFeed \/ Link
           \/ FetchFails \/ Killed \/ KilledJournalling
  <2>1. UNCHANGED <<files, manifest, receipt, runs>>
    BY <1>7 DEF FetchPage, Cover, OpenStore, Open, MapFeed, Link, FetchFails, Killed,
                KilledJournalling, GiveUp, disk
  <2>2. /\ pc' \notin {"receipt", "fill", "manifest", "write"}
        /\ pc' # "idle" => pc \notin {"idle", "receipt"}
    <3>1. CASE FetchPage
      BY <3>1 DEF FetchPage
    <3>2. CASE MapFeed
      <4>1. pc = "map" /\ pc' \in {"link", "store", "map"}
        BY <3>2 DEF MapFeed
      <4> QED
        BY <4>1
    <3>3. CASE Cover \/ OpenStore \/ Link \/ FetchFails \/ Killed \/ KilledJournalling
      BY <3>3 DEF Cover, OpenStore, Open, Link, FetchFails, Killed, KilledJournalling, GiveUp
    <3> QED
      BY <1>7, <3>1, <3>2, <3>3
  <2> QED
    BY <1>0, <2>1, <2>2, DiskStays
<1>8. CASE SecondStore
  <2>1. UNCHANGED <<files, manifest, receipt, runs, job, mapped>> /\ pc = "store"
    BY <1>8 DEF SecondStore, Open, GiveUp, disk
  <2>2. pc' = "idle" \/ (pc' = "write" /\ at' = 1)
    BY <1>8 DEF SecondStore, Open, GiveUp
  <2>3. \A s \in SourceKind : ~Closed(s)'
    <3>1. 1..(1 - 1) = {}
      OBVIOUS
    <3> QED
      BY <2>2, <3>1 DEF Closed
  <2> QED
    BY <1>0, <2>1, <2>2, <2>3 DEF DiskInv, DiskOrder
<1>9. CASE Arrives \/ UNCHANGED vars
  <2>1. UNCHANGED <<run, disk>>
    BY <1>9 DEF Arrives, vars
  <2> QED
    BY <1>0, <2>1 DEF DiskInv, DiskOrder, run, disk, Closed, ClosedFile
<1> QED
  BY <1>1, <1>2, <1>3, <1>4, <1>5, <1>6, <1>7, <1>8, <1>9 DEF Next, RunStep

\* DiskOrder, whatever the provider does and at whichever steps the runs are
\* killed: what a manifest entry says is true of the file it describes unless a
\* later run has opened the file, and a receipt quotes the manifest as it is
\* unless a later run has replaced the entry (write_batch, write_source_manifest,
\* the order of the writes of ingest_sandbox).
THEOREM DiskIsOrdered == Spec => []DiskOrder
<1>1. Init => DiskInv
  BY DiskAtStart
<1>2. DiskInv /\ [Next]_vars => DiskInv'
  BY DiskStep
<1>3. DiskInv => DiskOrder
  BY DEF DiskInv
<1> QED
  BY <1>1, <1>2, <1>3, PTL DEF Spec

-----------------------------------------------------------------------------
(* The journal.                                                             *)

\* The feeds whose rows the current run has mapped, and the sources whose
\* rejected rows it has journalled.
HasMapped(f) ==
    /\ job = "ingest"
    /\ \/ pc \in {"store", "write", "fill", "manifest", "receipt"}
       \/ pc \in {"map", "link"} /\ \E i \in 1..(at - 1) : MAPS[i] = f

Offered(s) == Closed(s) \/ (pc = "fill" /\ FILES[at] = s)

Counted(f) == IF HasMapped(f) THEN Len(fetched[f]) ELSE 0

RefusedAreJournalled(f) ==
    \A item \in ToSet(fetched[f]) : Refused(f, item) =>
        \E line \in ToSet(journal.lines) : line.source = Kind(f) /\ line.raw = item

RejectedAreJournalled(s) ==
    \A i \in (1..Len(mapped[s])) \ Accepted(mapped[s]) :
        \E line \in ToSet(journal.lines) : line.source = s /\ line.raw = mapped[s][i]

\* While lines may be written the store knows all of them, so none is written
\* twice; and a row read is in one place from when its feed is mapped.
JournalInv ==
    /\ WellPlaced
    /\ IsSequence(journal.lines) /\ IsInjective(journal.lines)
    /\ pc \in {"map", "link", "write", "fill"} => seen = ToSet(journal.lines)
    /\ pc # "idle" => returned = NotReturned
    /\ pc # "idle" /\ job = "ingest" =>
          /\ Counted("orders") + Counted("payments") + Counted("refunds") + Counted("settlements")
                = tally.skipped + tally.quarantined
                  + Len(mapped.order) + Len(mapped.capture) + Len(mapped.bank_txn)
          /\ mapped.finance_event = <<>>
    /\ \A f \in ToSet(MAPS) : HasMapped(f) => RefusedAreJournalled(f)
    /\ pc # "idle" => \A s \in SourceKind : Offered(s) => RejectedAreJournalled(s)
    /\ pc = "receipt" => \A s \in SourceKind : manifest[s].summary = Summary(s, mapped[s])
    /\ NothingVanishes

\* What is offered to a file and rejected is among the ids of its rejects.
LEMMA RejectedAreNamed ==
    ASSUME NEW source, NEW rows, IsSequence(rows)
    PROVE  /\ IsSequence(RejectedIds(source, rows))
           /\ \A i \in (1..Len(rows)) \ Accepted(rows) :
                 \E q \in ToSet(RejectedIds(source, rows)) : q.source = source /\ q.raw = rows[i]
<1> DEFINE here == (1..Len(rows)) \ Accepted(rows)
           rejected == Pick(rows, here)
           ids == RejectedIds(source, rows)
<1>1. Len(rows) \in Nat /\ here \in SUBSET (1..Len(rows))
  BY SequenceHas
<1>2. /\ DOMAIN ids = 1..Len(rejected)
      /\ ids = [i \in 1..Len(rejected) |-> ids[i]]
      /\ \A i \in 1..Len(rejected) : ids[i].source = source /\ ids[i].raw = rejected[i]
  BY DEF RejectedIds, QuarantineId
<1> HIDE DEF here, ids
<1>3. /\ IsSequence(rejected) /\ Len(rejected) \in Nat
      /\ \A k \in here : rows[k] \in ToSet(rejected)
  BY <1>1, PickedRows
<1> HIDE DEF rejected
<1>4. IsSequence(ids) /\ Len(ids) = Len(rejected)
  BY <1>2, <1>3, SequenceUpTo
<1>5. ASSUME NEW k \in here
      PROVE  \E q \in ToSet(ids) : q.source = source /\ q.raw = rows[k]
  <2>1. PICK i \in 1..Len(rejected) : rejected[i] = rows[k]
    BY <1>3, SequenceHas
  <2>2. ids[i] \in ToSet(ids)
    BY <1>3, <1>4, SequenceHas
  <2> QED
    BY <1>2, <2>1, <2>2
<1> QED
  BY <1>4, <1>5 DEF here, ids

\* A journal that a store appends to: it keeps its lines and gains all the ids.
LEMMA JournalGrows ==
    ASSUME NEW ids, IsSequence(ids), Journal(ids), seen = ToSet(journal.lines),
           IsSequence(journal.lines), IsInjective(journal.lines),
           journal = [lines |-> journal.lines, torn |-> journal.torn]
    PROVE  /\ IsSequence(journal'.lines) /\ IsInjective(journal'.lines)
           /\ seen' = ToSet(journal'.lines)
           /\ ToSet(journal.lines) \subseteq ToSet(journal'.lines)
           /\ ToSet(ids) \subseteq ToSet(journal'.lines)
<1> DEFINE w == AppendAll(journal.lines, ToSet(journal.lines), ids)
<1>1. journal'.lines = w.lines /\ seen' = w.seen
  <2> HIDE DEF w
  <2>1. journal' = [journal EXCEPT !.lines = w.lines] /\ seen' = w.seen
    BY DEF Journal, w
  <2> QED
    BY <2>1
<1>2. /\ IsSequence(w.lines) /\ IsInjective(w.lines)
      /\ Len(journal.lines) =< Len(w.lines)
      /\ \A i \in 1..Len(journal.lines) : w.lines[i] = journal.lines[i]
      /\ w.seen = ToSet(w.lines) /\ ToSet(ids) \subseteq ToSet(w.lines)
  BY AppendedLines
<1> HIDE DEF w
<1>3. ToSet(journal.lines) \subseteq ToSet(w.lines)
  <2>1. Len(journal.lines) \in Nat /\ Len(w.lines) \in Nat
    BY <1>2, SequenceHas
  <2>2. \A i \in 1..Len(journal.lines) : i \in 1..Len(w.lines)
    BY <1>2, <2>1
  <2>3. \A i \in 1..Len(journal.lines) : journal.lines[i] \in ToSet(w.lines)
    BY <1>2, <2>2, SequenceHas
  <2> QED
    BY <2>3, SequenceHas
<1> QED
  BY <1>1, <1>2, <1>3

\* Lines are not taken away, so what is in the journal stays there.
LEMMA RefusedStay ==
    ASSUME NEW f, RefusedAreJournalled(f), fetched' = fetched,
           ToSet(journal.lines) \subseteq ToSet(journal'.lines)
    PROVE  RefusedAreJournalled(f)'
<1>1. \A item : Refused(f, item)' <=> Refused(f, item)
  BY DEF Refused, Flaws, OrderOf
<1> HIDE DEF ToSet
<1> QED
  BY <1>1 DEF RefusedAreJournalled

LEMMA RejectedStay ==
    ASSUME NEW s, RejectedAreJournalled(s), mapped'[s] = mapped[s],
           ToSet(journal.lines) \subseteq ToSet(journal'.lines)
    PROVE  RejectedAreJournalled(s)'
BY DEF RejectedAreJournalled

\* A run that stops before it returns leaves nothing to be said of it but that
\* the lines it leaves are each there once.
LEMMA StoppedShort ==
    ASSUME JournalInv, WellPlaced', pc # "idle", pc' = "idle", UNCHANGED returned,
           IsSequence(journal'.lines), IsInjective(journal'.lines)
    PROVE  JournalInv'
<1>1. returned' = NotReturned
  BY DEF JournalInv
<1>2. NothingVanishes'
  BY <1>1 DEF NothingVanishes
<1>3. \A f \in ToSet(MAPS) : ~HasMapped(f)'
  BY DEF HasMapped
<1> QED
  BY <1>2, <1>3 DEF JournalInv

\* While a run goes on only the lines matter to NothingVanishes.
LEMMA GoingOn ==
    ASSUME returned' = NotReturned, IsInjective(journal'.lines)
    PROVE  NothingVanishes'
BY DEF NothingVanishes

\* The feeds mapped so far are those before the current one.
LEMMA MappedSoFar ==
    ASSUME WellPlaced, MapFeed, NEW f \in ToSet(MAPS)
    PROVE  /\ job = "ingest" /\ job' = "ingest"
           /\ HasMapped(MAPS[at]) = FALSE
           /\ HasMapped(f)' <=> f = MAPS[at] \/ HasMapped(f)
<1>1. /\ pc = "map" /\ at \in 1..4 /\ at' = at + 1 /\ job = "ingest" /\ job' = job
      /\ pc' = CASE MAPS[at] = "refunds" -> "link" [] MAPS[at] = "settlements" -> "store"
                 [] OTHER -> "map"
  BY DEF MapFeed, WellPlaced, Place
<1>2. /\ MAPS[1] = "orders" /\ MAPS[2] = "payments" /\ MAPS[3] = "refunds"
      /\ MAPS[4] = "settlements"
      /\ \A i, j \in 1..4 : MAPS[i] = MAPS[j] => i = j
      /\ \E i \in 1..4 : MAPS[i] = f
  <2>1. 1..4 = {1, 2, 3, 4}
    OBVIOUS
  <2>2. /\ MAPS[1] = "orders" /\ MAPS[2] = "payments" /\ MAPS[3] = "refunds"
        /\ MAPS[4] = "settlements"
    BY DEF MAPS
  <2>3. f \in {"orders", "payments", "refunds", "settlements"}
    BY Names
  <2> QED
    BY <2>1, <2>2, <2>3
<1>3. HasMapped(MAPS[at]) = FALSE
  <2>1. \A i \in 1..(at - 1) : MAPS[i] # MAPS[at]
    BY <1>1, <1>2
  <2> QED
    BY <1>1, <2>1 DEF HasMapped
<1>4. HasMapped(f) <=> \E i \in 1..(at - 1) : MAPS[i] = f
  BY <1>1 DEF HasMapped
<1>5. HasMapped(f)' <=> \E i \in 1..at : MAPS[i] = f
  <2>1. CASE at = 4
    <3>1. pc' = "store"
      BY <1>1, <1>2, <2>1
    <3> QED
      BY <1>1, <1>2, <2>1, <3>1 DEF HasMapped
  <2>2. CASE at # 4
    <3>1. pc' \in {"map", "link"}
      <4>1. at = 1 \/ at = 2 \/ at = 3
        BY <1>1, <2>2
      <4> QED
        BY <1>1, <1>2, <4>1
    <3>2. at' - 1 = at
      BY <1>1
    <3> QED
      BY <1>1, <3>1, <3>2 DEF HasMapped
  <2> QED
    BY <2>1, <2>2
<1>6. \A i \in 1..at : i = at \/ i \in 1..(at - 1)
  BY <1>1
<1>7. at \in 1..at /\ \A i \in 1..(at - 1) : i \in 1..at
  BY <1>1
<1> QED
  BY <1>1, <1>3, <1>4, <1>5, <1>6, <1>7

LEMMA JournalMapped ==
    ASSUME JournalInv, WellPlaced', MapFeed
    PROVE  JournalInv'
<1> DEFINE feed == MAPS[at]
           k == Kind(feed)
<1>0. WellPlaced /\ pc = "map" /\ pc' \in {"map", "link", "store"}
  BY DEF JournalInv, MapFeed
<1>1. PICK kept : /\ IsSequence(kept) /\ Len(kept) \in Nat
                  /\ mapped' = [mapped EXCEPT ![k] = @ \o kept]
                  /\ Len(fetched[feed])
                        = Cardinality(SkippedAt(feed)) + Len(MapperIds(feed)) + Len(kept)
  BY <1>0, MappedRows
<1>2. feed \in ToSet(MAPS) /\ feed \in ToSet(FEEDS) /\ k \in SourceKind
  BY <1>0, MappedRows, Names
<1>3. /\ Journal(MapperIds(feed))
      /\ tally' = [skipped |-> tally.skipped + Cardinality(SkippedAt(feed)),
                   quarantined |-> tally.quarantined + Len(MapperIds(feed))]
      /\ UNCHANGED <<fetched, returned>>
  BY DEF MapFeed
<1>4. /\ IsSequence(MapperIds(feed))
      /\ Cardinality(SkippedAt(feed)) \in Nat /\ Len(MapperIds(feed)) \in Nat
      /\ \A item \in ToSet(fetched[feed]) : Refused(feed, item) =>
            \E q \in ToSet(MapperIds(feed)) : q.source = Kind(feed) /\ q.raw = item
  BY <1>0, <1>2, RowsAreParted DEF WellPlaced, Shape
<1>5. /\ IsSequence(journal'.lines) /\ IsInjective(journal'.lines)
      /\ seen' = ToSet(journal'.lines)
      /\ ToSet(journal.lines) \subseteq ToSet(journal'.lines)
      /\ ToSet(MapperIds(feed)) \subseteq ToSet(journal'.lines)
  <2>1. /\ IsSequence(journal.lines) /\ IsInjective(journal.lines)
        /\ seen = ToSet(journal.lines)
        /\ journal = [lines |-> journal.lines, torn |-> journal.torn]
    BY <1>0 DEF JournalInv, WellPlaced, Shape
  <2> QED
    BY <1>3, <1>4, <2>1, JournalGrows
<1>6. returned' = NotReturned
  BY <1>0, <1>3 DEF JournalInv
<1>7. NothingVanishes'
  BY <1>5, <1>6, GoingOn
<1>8. \A f \in ToSet(MAPS) : HasMapped(f)' => RefusedAreJournalled(f)'
  <2> TAKE f \in ToSet(MAPS)
  <2> HAVE HasMapped(f)'
  <2>1. CASE f = feed
    <3>1. \A item : Refused(f, item)' <=> Refused(f, item)
      BY <1>3 DEF Refused, Flaws, OrderOf
    <3> HIDE DEF feed
    <3> QED
      BY <1>3, <1>4, <1>5, <2>1, <3>1 DEF RefusedAreJournalled
  <2>2. CASE f # feed
    <3>1. HasMapped(f)
      BY <1>0, <2>2, MappedSoFar
    <3>2. RefusedAreJournalled(f)
      BY <3>1 DEF JournalInv
    <3> QED
      BY <1>3, <1>5, <3>2, RefusedStay
  <2> QED
    BY <2>1, <2>2
<1>9. \A s \in SourceKind : ~Offered(s)'
  BY <1>0 DEF Offered, Closed
<1>10. /\ Counted("orders")' + Counted("payments")' + Counted("refunds")'
             + Counted("settlements")'
          = tally'.skipped + tally'.quarantined
            + Len(mapped'.order) + Len(mapped'.capture) + Len(mapped'.bank_txn)
       /\ mapped'.finance_event = <<>>
  <2>1. /\ Counted("orders") + Counted("payments") + Counted("refunds") + Counted("settlements")
              = tally.skipped + tally.quarantined
                + Len(mapped.order) + Len(mapped.capture) + Len(mapped.bank_txn)
        /\ mapped.finance_event = <<>>
    <3>1. job = "ingest"
      BY <1>0, <1>2, MappedSoFar
    <3> QED
      BY <1>0, <3>1 DEF JournalInv
  <2>2. /\ tally.skipped \in Nat /\ tally.quarantined \in Nat
        /\ tally'.skipped = tally.skipped + Cardinality(SkippedAt(feed))
        /\ tally'.quarantined = tally.quarantined + Len(MapperIds(feed))
    BY <1>0, <1>3 DEF WellPlaced, Shape
  <2>3. ASSUME NEW f \in ToSet(MAPS)
        PROVE  /\ Counted(f) \in Nat
               /\ Counted(f)' = IF f = feed THEN Counted(f) + Len(fetched[feed]) ELSE Counted(f)
               /\ Len(fetched[feed]) \in Nat
    <3>1. IsSequence(fetched[f]) /\ IsSequence(fetched[feed])
      BY <1>0, <1>2, Names DEF WellPlaced, Shape
    <3>2. Len(fetched[f]) \in Nat /\ Len(fetched[feed]) \in Nat
      BY <3>1, SequenceHas
    <3>3. /\ HasMapped(feed) = FALSE
          /\ HasMapped(f)' <=> f = feed \/ HasMapped(f)
      BY <1>0, MappedSoFar
    <3> HIDE DEF feed
    <3>4. /\ HasMapped(f) => Counted(f) = Len(fetched[f])
          /\ ~HasMapped(f) => Counted(f) = 0
          /\ HasMapped(f)' => Counted(f)' = Len(fetched[f])
          /\ ~HasMapped(f)' => Counted(f)' = 0
      BY <1>3 DEF Counted
    <3>5. CASE f = feed
      BY <3>2, <3>3, <3>4, <3>5
    <3>6. CASE f # feed
      BY <3>2, <3>3, <3>4, <3>6
    <3> QED
      BY <3>5, <3>6
  <2>4. \A s \in SourceKind :
           /\ Len(mapped[s]) \in Nat
           /\ Len(mapped'[s]) = IF s = k THEN Len(mapped[s]) + Len(kept) ELSE Len(mapped[s])
           /\ s # k => mapped'[s] = mapped[s]
    <3>1. \A s \in SourceKind : IsSequence(mapped[s]) /\ Len(mapped[s]) \in Nat
      BY <1>0, SequenceHas DEF WellPlaced, Shape
    <3>2. mapped'[k] = mapped[k] \o kept /\ \A s \in SourceKind : s # k => mapped'[s] = mapped[s]
      BY <1>0, <1>1, <1>2 DEF WellPlaced, Shape
    <3>3. Len(mapped[k] \o kept) = Len(mapped[k]) + Len(kept)
      BY <1>1, <1>2, <3>1, JoinedSequences
    <3> HIDE DEF k
    <3> QED
      BY <3>1, <3>2, <3>3
  <2>5. /\ "order" \in SourceKind /\ "capture" \in SourceKind /\ "bank_txn" \in SourceKind
        /\ "finance_event" \in SourceKind
        /\ {"orders", "payments", "refunds", "settlements"} = ToSet(MAPS)
    BY Names DEF SourceKind
  <2>6. /\ feed = "orders" => k = "order"
        /\ feed = "payments" => k = "capture"
        /\ feed = "refunds" => k = "capture"
        /\ feed = "settlements" => k = "bank_txn"
        /\ k \in {"order", "capture", "bank_txn"}
        /\ feed \in {"orders", "payments", "refunds", "settlements"}
    BY <1>2, Names DEF Kind
  <2> HIDE DEF feed, k
  <2>7. mapped'.finance_event = <<>>
    BY <2>1, <2>4, <2>5, <2>6
  <2> DEFINE co == Counted("orders")
             cp == Counted("payments")
             cr == Counted("refunds")
             cs == Counted("settlements")
             n == Len(fetched[feed])
             x == Cardinality(SkippedAt(feed))
             y == Len(MapperIds(feed))
             z == Len(kept)
  <2>8. /\ {co, cp, cr, cs, n, x, y, z} \subseteq Nat /\ n = x + y + z
    BY <1>1, <1>4, <2>3, <2>5
  <2>9. /\ co' = IF feed = "orders" THEN co + n ELSE co
        /\ cp' = IF feed = "payments" THEN cp + n ELSE cp
        /\ cr' = IF feed = "refunds" THEN cr + n ELSE cr
        /\ cs' = IF feed = "settlements" THEN cs + n ELSE cs
    BY <2>3, <2>5
  <2> DEFINE a == Len(mapped.order)
             b == Len(mapped.capture)
             c == Len(mapped.bank_txn)
             u == tally.skipped
             v == tally.quarantined
             a2 == Len(mapped'.order)
             b2 == Len(mapped'.capture)
             c2 == Len(mapped'.bank_txn)
             u2 == tally'.skipped
             v2 == tally'.quarantined
  <2>10. /\ {a, b, c} \subseteq Nat
         /\ a2 = IF k = "order" THEN a + z ELSE a
         /\ b2 = IF k = "capture" THEN b + z ELSE b
         /\ c2 = IF k = "bank_txn" THEN c + z ELSE c
    BY <2>4, <2>5 DEF z
  <2>11. u2 = u + x /\ v2 = v + y /\ {u, v} \subseteq Nat
    BY <2>2 DEF x, y
  <2>12. co + cp + cr + cs = u + v + a + b + c
    BY <2>1 DEF co, cp, cr, cs
  <2> HIDE DEF a, b, c, u, v, a2, b2, c2, u2, v2
  <2>13. /\ co' \in Nat /\ cp' \in Nat /\ cr' \in Nat /\ cs' \in Nat
         /\ co' + cp' + cr' + cs' = co + cp + cr + cs + n
    <3>1. /\ co \in Nat /\ cp \in Nat /\ cr \in Nat /\ cs \in Nat /\ n \in Nat
          /\ feed = "orders" \/ feed = "payments" \/ feed = "refunds" \/ feed = "settlements"
      BY <2>6, <2>8
    <3>2. CASE feed = "orders"
      BY <2>9, <3>1, <3>2
    <3>3. CASE feed = "payments"
      BY <2>9, <3>1, <3>3
    <3>4. CASE feed = "refunds"
      BY <2>9, <3>1, <3>4
    <3>5. CASE feed = "settlements"
      BY <2>9, <3>1, <3>5
    <3> QED
      BY <3>1, <3>2, <3>3, <3>4, <3>5
  <2>14. /\ a2 \in Nat /\ b2 \in Nat /\ c2 \in Nat
         /\ a2 + b2 + c2 = a + b + c + z
    <3>1. /\ a \in Nat /\ b \in Nat /\ c \in Nat /\ z \in Nat
          /\ k = "order" \/ k = "capture" \/ k = "bank_txn"
      BY <2>6, <2>8, <2>10
    <3>2. CASE k = "order"
      BY <2>10, <3>1, <3>2
    <3>3. CASE k = "capture"
      BY <2>10, <3>1, <3>3
    <3>4. CASE k = "bank_txn"
      BY <2>10, <3>1, <3>4
    <3> QED
      BY <3>1, <3>2, <3>3, <3>4
  <2>15. co' + cp' + cr' + cs' = u2 + v2 + a2 + b2 + c2
    <3>1. /\ a \in Nat /\ b \in Nat /\ c \in Nat /\ u \in Nat /\ v \in Nat
          /\ x \in Nat /\ y \in Nat /\ z \in Nat /\ n = x + y + z
          /\ co \in Nat /\ cp \in Nat /\ cr \in Nat /\ cs \in Nat
      BY <2>8, <2>10, <2>11
    <3>2. u2 + v2 = u + v + (x + y) /\ u2 \in Nat /\ v2 \in Nat
      BY <2>11, <3>1
    <3>3. u2 + v2 + a2 + b2 + c2 = (u2 + v2) + (a2 + b2 + c2)
      BY <2>14, <3>2
    <3>4. u2 + v2 + a2 + b2 + c2 = u + v + (x + y) + (a + b + c + z)
      BY <2>14, <3>2, <3>3
    <3>5. co + cp + cr + cs + n = u + v + (x + y) + (a + b + c + z)
      BY <2>12, <3>1
    <3> QED
      BY <2>13, <3>4, <3>5
  <2> QED
    BY <2>7, <2>15 DEF co, cp, cr, cs, a, b, c, u, v, a2, b2, c2, u2, v2
<1> QED
  BY <1>0, <1>5, <1>6, <1>7, <1>8, <1>9, <1>10 DEF JournalInv

\* What a run that ends returns accounts for all that it read.
LEMMA JournalFinished ==
    ASSUME JournalInv, DiskInv, WellPlaced', Finish
    PROVE  JournalInv'
<1>0. /\ WellPlaced /\ pc = "receipt" /\ pc' = "idle" /\ job = "ingest"
      /\ UNCHANGED <<fetched, mapped, journal, manifest, tally>>
  BY DEF JournalInv, Finish, WellPlaced, Place
<1> DEFINE acc == [s \in SourceKind \ {"finance_event"} |-> manifest[s].summary.accepted]
           rej == [s \in SourceKind |-> manifest[s].summary.quarantined]
           len == [f \in ToSet(MAPS) |-> Len(fetched[f])]
           a(s) == Cardinality(Accepted(mapped[s]))
<1>1. returned' = [quarantined |-> tally.quarantined + SumFunction(rej),
                   skipped     |-> tally.skipped,
                   accepted    |-> acc]
  <2>1. receipt'.accepted = acc
    BY DEF Finish
  <2> HIDE DEF acc
  <2> QED
    BY <2>1 DEF Finish
<1>2. ASSUME NEW s \in SourceKind
      PROVE  /\ a(s) \in Nat /\ Len(mapped[s]) \in Nat
             /\ manifest[s].summary.accepted = a(s)
             /\ manifest[s].summary.quarantined = Len(mapped[s]) - a(s)
  <2>1. IsSequence(mapped[s])
    BY <1>0 DEF WellPlaced, Shape
  <2>2. a(s) \in Nat /\ Len(mapped[s]) \in Nat
    BY <2>1, AcceptedAreCounted, SequenceHas
  <2>3. manifest[s].summary = Summary(s, mapped[s])
    BY <1>0 DEF JournalInv
  <2> QED
    BY <2>2, <2>3 DEF Summary
<1>3. /\ SourceKind = {"order", "capture", "bank_txn", "finance_event"}
      /\ SourceKind \ {"finance_event"} = {"order", "capture", "bank_txn"}
  BY DEF SourceKind
<1>4. a("finance_event") = 0 /\ Len(mapped["finance_event"]) = 0
  <2>1. mapped.finance_event = <<>>
    BY <1>0 DEF JournalInv
  <2>2. Accepted(<<>>) = {}
    <3>1. 1..0 = {} /\ Len(<<>>) = 0
      BY EmptyIsSequence
    <3> QED
      BY <3>1 DEF Accepted
  <2>3. Cardinality({}) = 0
    BY FS_EmptySet
  <2> QED
    BY <2>1, <2>2, <2>3, EmptyIsSequence
<1> HIDE DEF a
<1>5. SumFunction(rej) = Len(mapped["order"]) - a("order") + (Len(mapped["capture"]) - a("capture"))
                           + (Len(mapped["bank_txn"]) - a("bank_txn"))
  <2>1. \A s \in SourceKind : rej[s] = Len(mapped[s]) - a(s) /\ rej[s] \in Int
    BY <1>2
  <2>2. DOMAIN rej = {"order", "capture", "bank_txn", "finance_event"}
    BY <1>3
  <2> HIDE DEF rej
  <2>3. SumFunction(rej) = SumOf(rej, {"order", "capture", "bank_txn", "finance_event"})
    BY <2>2, SumsAgree
  <2>4. /\ rej["order"] \in Int /\ rej["capture"] \in Int /\ rej["bank_txn"] \in Int
        /\ rej["finance_event"] = 0
    BY <1>3, <1>4, <2>1
  <2>5. SumOf(rej, {"order", "capture", "bank_txn", "finance_event"})
          = rej["order"] + rej["capture"] + rej["bank_txn"] + rej["finance_event"]
    <3> DEFINE S == {"order", "capture", "bank_txn", "finance_event"}
    <3>1. /\ "order" \in S /\ "capture" \in S /\ "bank_txn" \in S /\ "finance_event" \in S
          /\ \A x \in S : x = "order" \/ x = "capture" \/ x = "bank_txn" \/ x = "finance_event"
      OBVIOUS
    <3>2. rej["order"] \in Int /\ rej["capture"] \in Int /\ rej["bank_txn"] \in Int /\ rej["finance_event"] \in Int
      BY <2>4
    <3> HIDE DEF S
    <3>3. SumOf(rej, S) = rej["order"] + rej["capture"] + rej["bank_txn"] + rej["finance_event"]
      BY <3>1, <3>2, SumOverFour
    <3> QED
      BY <3>3 DEF S
  <2> QED
    BY <1>3, <2>1, <2>3, <2>4, <2>5
<1>6. SumFunction(acc) = a("order") + a("capture") + a("bank_txn")
  <2>1. \A s \in {"order", "capture", "bank_txn"} : acc[s] = a(s) /\ acc[s] \in Int
    BY <1>2, <1>3
  <2>2. DOMAIN acc = {"order", "capture", "bank_txn"}
    BY <1>3
  <2> HIDE DEF acc
  <2>3. SumFunction(acc) = SumOf(acc, {"order", "capture", "bank_txn"})
    BY <2>2, SumsAgree
  <2>4. SumOf(acc, {"order", "capture", "bank_txn"})
          = acc["order"] + acc["capture"] + acc["bank_txn"]
    <3> DEFINE S == {"order", "capture", "bank_txn"}
    <3>1. /\ "order" \in S /\ "capture" \in S /\ "bank_txn" \in S
          /\ \A x \in S : x = "order" \/ x = "capture" \/ x = "bank_txn"
      OBVIOUS
    <3>2. acc["order"] \in Int /\ acc["capture"] \in Int /\ acc["bank_txn"] \in Int
      BY <2>1
    <3> HIDE DEF S
    <3>3. SumOf(acc, S) = acc["order"] + acc["capture"] + acc["bank_txn"]
      BY <3>1, <3>2, SumOverThree
    <3> QED
      BY <3>3 DEF S
  <2> QED
    BY <2>1, <2>3, <2>4
<1>7. SumFunction(len) = Len(fetched["orders"]) + Len(fetched["payments"])
                           + Len(fetched["refunds"]) + Len(fetched["settlements"])
  <2>1. DOMAIN len = {"orders", "payments", "refunds", "settlements"}
    BY Names
  <2>2. \A f \in {"orders", "payments", "refunds", "settlements"} :
           len[f] = Len(fetched[f]) /\ len[f] \in Int
    <3>1. \A f \in ToSet(MAPS) : IsSequence(fetched[f])
      BY <1>0, Names DEF WellPlaced, Shape
    <3>2. \A f \in ToSet(MAPS) : Len(fetched[f]) \in Nat
      BY <3>1, SequenceHas
    <3> QED
      BY <3>2, Names
  <2> HIDE DEF len
  <2>3. SumFunction(len) = SumOf(len, {"orders", "payments", "refunds", "settlements"})
    BY <2>1, SumsAgree
  <2>4. SumOf(len, {"orders", "payments", "refunds", "settlements"})
          = len["orders"] + len["payments"] + len["refunds"] + len["settlements"]
    <3> DEFINE S == {"orders", "payments", "refunds", "settlements"}
    <3>1. /\ "orders" \in S /\ "payments" \in S /\ "refunds" \in S /\ "settlements" \in S
          /\ \A x \in S : x = "orders" \/ x = "payments" \/ x = "refunds" \/ x = "settlements"
      OBVIOUS
    <3>2. len["orders"] \in Int /\ len["payments"] \in Int /\ len["refunds"] \in Int /\ len["settlements"] \in Int
      BY <2>2
    <3> HIDE DEF S
    <3>3. SumOf(len, S) = len["orders"] + len["payments"] + len["refunds"] + len["settlements"]
      BY <3>1, <3>2, SumOverFour
    <3> QED
      BY <3>3 DEF S
  <2> QED
    BY <2>2, <2>3, <2>4
<1>8. Len(fetched["orders"]) + Len(fetched["payments"])
         + Len(fetched["refunds"]) + Len(fetched["settlements"])
       = tally.skipped + tally.quarantined
         + Len(mapped["order"]) + Len(mapped["capture"]) + Len(mapped["bank_txn"])
  <2>1. \A f : HasMapped(f)
    BY <1>0 DEF HasMapped
  <2>2. \A f : Counted(f) = Len(fetched[f])
    BY <2>1 DEF Counted
  <2>3. Counted("orders") + Counted("payments") + Counted("refunds") + Counted("settlements")
                = tally.skipped + tally.quarantined
                  + Len(mapped.order) + Len(mapped.capture) + Len(mapped.bank_txn)
    BY <1>0 DEF JournalInv
  <2> QED
    BY <2>2, <2>3
<1>9. SumFunction(len) = returned'.skipped + returned'.quarantined + SumFunction(returned'.accepted)
  <2> DEFINE x == Len(mapped["order"])
             y == Len(mapped["capture"])
             z == Len(mapped["bank_txn"])
             u == tally.skipped
             v == tally.quarantined
             d == a("order")
             e == a("capture")
             g == a("bank_txn")
             sr == SumFunction(rej)
             sa == SumFunction(acc)
             sl == SumFunction(len)
  <2>1. /\ x \in Nat /\ y \in Nat /\ z \in Nat /\ d \in Nat /\ e \in Nat /\ g \in Nat
    BY <1>2, <1>3
  <2>2. u \in Nat /\ v \in Nat
    BY <1>0 DEF WellPlaced, Shape
  <2>3. sr = x - d + (y - e) + (z - g) /\ sa = d + e + g /\ sl = u + v + x + y + z
    BY <1>5, <1>6, <1>7, <1>8
  <2>4. returned'.skipped = u /\ returned'.quarantined = v + sr /\ SumFunction(returned'.accepted) = sa
    <3> HIDE DEF acc, rej
    <3> QED
      BY <1>1
  <2> HIDE DEF x, y, z, u, v, d, e, g, sr, sa, sl
  <2>5. sl = u + (v + sr) + sa
    BY <2>1, <2>2, <2>3
  <2> QED
    BY <2>4, <2>5 DEF sl
<1>10. \A f \in ToSet(MAPS) : RefusedAreJournalled(f)'
  <2> TAKE f \in ToSet(MAPS)
  <2>1. RefusedAreJournalled(f)
    BY <1>0 DEF JournalInv, HasMapped
  <2> QED
    BY <1>0, <2>1, RefusedStay
<1>11. \A s \in SourceKind : RejectedAreJournalled(s)'
  <2> TAKE s \in SourceKind
  <2>1. RejectedAreJournalled(s)
    BY <1>0 DEF JournalInv, Offered, Closed
  <2> QED
    BY <1>0, <2>1, RejectedStay
<1>12. NothingVanishes'
  <2>1. IsInjective(journal'.lines)
    BY <1>0 DEF JournalInv
  <2>2. SumFunction([f \in ToSet(MAPS) |-> Len(fetched'[f])])
           = returned'.skipped + returned'.quarantined + SumFunction(returned'.accepted)
    BY <1>0, <1>9
  <2> HIDE DEF acc, rej, len
  <2> QED
    BY <1>10, <1>11, <2>1, <2>2 DEF NothingVanishes, RefusedAreJournalled, RejectedAreJournalled
<1>13. \A f \in ToSet(MAPS) : ~HasMapped(f)'
  BY <1>0 DEF HasMapped
<1> HIDE DEF acc, rej, len
<1> QED
  BY <1>0, <1>12, <1>13 DEF JournalInv

\* A file is opened once what it does not take is in the journal.
LEMMA JournalWritten ==
    ASSUME JournalInv, WellPlaced', WriteFile
    PROVE  JournalInv'
<1> DEFINE s == FILES[at]
           ids == RejectedIds(s, mapped[s])
<1>0. /\ WellPlaced /\ pc = "write" /\ pc' = "fill" /\ at \in 1..4 /\ s \in SourceKind
      /\ UNCHANGED <<job, at, fetched, mapped, tally, returned>> /\ Journal(ids)
  BY Names DEF JournalInv, WriteFile, WellPlaced, Place
<1>1. /\ IsSequence(ids)
      /\ \A i \in (1..Len(mapped[s])) \ Accepted(mapped[s]) :
            \E q \in ToSet(ids) : q.source = s /\ q.raw = mapped[s][i]
  <2>1. IsSequence(mapped[s])
    BY <1>0 DEF WellPlaced, Shape
  <2> DEFINE m == mapped[s]
  <2> HIDE DEF s, m
  <2>2. /\ IsSequence(RejectedIds(s, m))
        /\ \A i \in (1..Len(m)) \ Accepted(m) :
              \E q \in ToSet(RejectedIds(s, m)) : q.source = s /\ q.raw = m[i]
    <3>1. IsSequence(m)
      BY <2>1 DEF m
    <3> QED
      BY <3>1, RejectedAreNamed
  <2> QED
    BY <2>2 DEF m
<1> HIDE DEF s, ids
<1>2. /\ IsSequence(journal'.lines) /\ IsInjective(journal'.lines)
      /\ seen' = ToSet(journal'.lines)
      /\ ToSet(journal.lines) \subseteq ToSet(journal'.lines)
      /\ ToSet(ids) \subseteq ToSet(journal'.lines)
  <2>1. /\ IsSequence(journal.lines) /\ IsInjective(journal.lines)
        /\ seen = ToSet(journal.lines)
        /\ journal = [lines |-> journal.lines, torn |-> journal.torn]
    BY <1>0 DEF JournalInv, WellPlaced, Shape
  <2> QED
    BY <1>0, <1>1, <2>1, JournalGrows
<1>3. returned' = NotReturned
  BY <1>0 DEF JournalInv
<1>4. NothingVanishes'
  BY <1>2, <1>3, GoingOn
<1>5. \A f : (HasMapped(f)' <=> HasMapped(f)) /\ Counted(f)' = Counted(f)
  BY <1>0 DEF HasMapped, Counted
<1>6. \A f \in ToSet(MAPS) : HasMapped(f)' => RefusedAreJournalled(f)'
  <2> TAKE f \in ToSet(MAPS)
  <2> HAVE HasMapped(f)'
  <2>1. RefusedAreJournalled(f)
    BY <1>5 DEF JournalInv
  <2> QED
    BY <1>0, <1>2, <2>1, RefusedStay
<1>7. \A r \in SourceKind : Offered(r)' => RejectedAreJournalled(r)'
  <2> TAKE r \in SourceKind
  <2> HAVE Offered(r)'
  <2>1. CASE r = s
    BY <1>0, <1>1, <1>2, <2>1 DEF RejectedAreJournalled
  <2>2. CASE r # s
    <3>1. Offered(r)
      BY <1>0, <2>2 DEF Offered, Closed, s
    <3>2. RejectedAreJournalled(r)
      BY <1>0, <3>1 DEF JournalInv
    <3> QED
      BY <1>0, <1>2, <3>2, RejectedStay
  <2> QED
    BY <2>1, <2>2
<1> QED
  BY <1>0, <1>2, <1>3, <1>4, <1>5, <1>6, <1>7 DEF JournalInv

\* A step that writes no line and neither maps nor offers anything.
LEMMA JournalStays ==
    ASSUME JournalInv, WellPlaced', UNCHANGED <<journal, fetched, mapped, tally>>,
           UNCHANGED <<returned, job>>,
           \A f \in ToSet(MAPS) : HasMapped(f)' <=> HasMapped(f),
           \A s \in SourceKind : Offered(s)' => Offered(s),
           pc' \in {"map", "link", "write", "fill"} => seen' = ToSet(journal.lines),
           pc # "idle",
           pc' = "receipt" => \A s \in SourceKind : manifest'[s].summary = Summary(s, mapped[s])
    PROVE  JournalInv'
<1>1. IsSequence(journal'.lines) /\ IsInjective(journal'.lines) /\ returned' = NotReturned
  BY DEF JournalInv
<1>2. NothingVanishes'
  BY <1>1, GoingOn
<1>3. \A f \in ToSet(MAPS) : HasMapped(f)' => RefusedAreJournalled(f)'
  <2> TAKE f \in ToSet(MAPS)
  <2> HAVE HasMapped(f)'
  <2>1. RefusedAreJournalled(f)
    BY DEF JournalInv
  <2> QED
    BY <2>1, RefusedStay
<1>4. \A s \in SourceKind : Offered(s)' => RejectedAreJournalled(s)'
  <2> TAKE s \in SourceKind
  <2> HAVE Offered(s)'
  <2>1. RejectedAreJournalled(s)
    BY DEF JournalInv
  <2> QED
    BY <2>1, RejectedStay
<1>5. \A f \in ToSet(MAPS) : Counted(f)' = Counted(f)
  BY DEF Counted
<1>6. /\ Counted("orders")' = Counted("orders") /\ Counted("payments")' = Counted("payments")
      /\ Counted("refunds")' = Counted("refunds")
      /\ Counted("settlements")' = Counted("settlements")
  BY <1>5, Names
<1> QED
  BY <1>1, <1>2, <1>3, <1>4, <1>6 DEF JournalInv

LEMMA JournalAtStart == Init => JournalInv
<1> SUFFICES ASSUME Init PROVE JournalInv
  OBVIOUS
<1>1. WellPlaced
  BY PlacedAtStart
<1>2. journal.lines = <<>> /\ returned = NotReturned /\ pc = "idle" /\ job = "none"
  BY DEF Init, EmptyJournal
<1>3. IsSequence(journal.lines) /\ IsInjective(journal.lines)
  BY <1>2, EmptyIsSequence DEF IsInjective
<1> QED
  BY <1>1, <1>2, <1>3 DEF JournalInv, NothingVanishes, HasMapped

\* What a kill while lines are written leaves some of.
LEMMA PendingIsSequence ==
    ASSUME WellPlaced, pc \in {"map", "write"}
    PROVE  IsSequence(Pending)
<1>1. CASE pc = "map"
  <2>1. MAPS[at] \in ToSet(FEEDS)
    BY <1>1, Names DEF WellPlaced, Place
  <2>2. IsSequence(fetched[MAPS[at]])
    BY <2>1 DEF WellPlaced, Shape
  <2>3. IsSequence(MapperIds(MAPS[at]))
    BY <2>2, RowsAreParted
  <2> QED
    BY <1>1, <2>3 DEF Pending
<1>2. CASE pc = "write"
  <2>1. FILES[at] \in SourceKind
    BY <1>2, Names DEF WellPlaced, Place
  <2>2. IsSequence(mapped[FILES[at]])
    BY <2>1 DEF WellPlaced, Shape
  <2>3. IsSequence(RejectedIds(FILES[at], mapped[FILES[at]]))
    BY <2>2, RejectedAreNamed
  <2> QED
    BY <1>2, <2>3 DEF Pending
<1> QED
  BY <1>1, <1>2

LEMMA JournalStep ==
    ASSUME JournalInv, DiskInv, [Next]_vars
    PROVE  JournalInv'
<1>0. WellPlaced /\ WellPlaced'
  BY WellPlacedStep DEF DiskInv
<1>1. CASE StartIngest
  <2>1. /\ pc' = "fetch" /\ returned' = NotReturned /\ UNCHANGED journal
        /\ tally' = [skipped |-> 0, quarantined |-> 0]
        /\ mapped' = [s \in SourceKind |-> <<>>]
    BY <1>1 DEF StartIngest, Start, disk
  <2>2. \A f : ~HasMapped(f)' /\ Counted(f)' = 0
    BY <2>1 DEF HasMapped, Counted
  <2>3. \A s \in SourceKind : ~Offered(s)'
    BY <2>1 DEF Offered, Closed
  <2>4. IsSequence(journal'.lines) /\ IsInjective(journal'.lines)
    BY <2>1 DEF JournalInv
  <2>5. NothingVanishes'
    BY <2>1, <2>4, GoingOn
  <2>6. /\ mapped'.order = <<>> /\ mapped'.capture = <<>> /\ mapped'.bank_txn = <<>>
        /\ mapped'.finance_event = <<>> /\ Len(<<>>) = 0
    BY <2>1, EmptyIsSequence DEF SourceKind
  <2>7. Counted("orders")' + Counted("payments")' + Counted("refunds")'
              + Counted("settlements")'
           = tally'.skipped + tally'.quarantined
             + Len(mapped'.order) + Len(mapped'.capture) + Len(mapped'.bank_txn)
    <3>1. /\ Counted("orders")' = 0 /\ Counted("payments")' = 0 /\ Counted("refunds")' = 0
          /\ Counted("settlements")' = 0
      BY <2>2
    <3>2. tally'.skipped = 0 /\ tally'.quarantined = 0
      BY <2>1
    <3>3. Len(mapped'.order) = 0 /\ Len(mapped'.capture) = 0 /\ Len(mapped'.bank_txn) = 0
      BY <2>6
    <3> QED
      BY <3>1, <3>2, <3>3
  <2> QED
    BY <1>0, <2>1, <2>2, <2>3, <2>4, <2>5, <2>6, <2>7 DEF JournalInv
<1>2. CASE StartImport
  <2>1. /\ job' = "import" /\ returned' = NotReturned /\ UNCHANGED journal
        /\ \/ pc' = "write" /\ seen' = ToSet(journal.lines)
           \/ pc' = "idle"
    BY <1>2 DEF StartImport, Start, disk, LoadIds
  <2>2. \A f : ~HasMapped(f)'
    BY <2>1 DEF HasMapped
  <2>3. \A s \in SourceKind : ~Offered(s)'
    BY <2>1 DEF Offered, Closed
  <2>4. IsSequence(journal'.lines) /\ IsInjective(journal'.lines)
    BY <2>1 DEF JournalInv
  <2>5. NothingVanishes'
    BY <2>1, <2>4, GoingOn
  <2> QED
    BY <1>0, <2>1, <2>2, <2>3, <2>4, <2>5 DEF JournalInv
<1>3. CASE FetchPage
  <2>1. /\ pc = "fetch" /\ pc' \in {"fetch", "cover", "open"}
        /\ UNCHANGED <<journal, mapped, tally, job, returned>>
    BY <1>3 DEF FetchPage, disk
  <2>2. \A f : ~HasMapped(f)' /\ Counted(f)' = 0 /\ Counted(f) = 0
    BY <2>1 DEF HasMapped, Counted
  <2>3. \A s \in SourceKind : ~Offered(s)'
    BY <2>1 DEF Offered, Closed
  <2>4. /\ IsSequence(journal'.lines) /\ IsInjective(journal'.lines)
        /\ returned' = NotReturned
    BY <2>1 DEF JournalInv
  <2>5. NothingVanishes'
    BY <2>4, GoingOn
  <2> QED
    BY <1>0, <2>1, <2>2, <2>3, <2>4, <2>5 DEF JournalInv
<1>4. CASE Cover /\ ~GiveUp
  <2>1. /\ pc = "cover" /\ pc' = "fetch"
        /\ UNCHANGED <<journal, fetched, mapped, tally, job, returned>>
    BY <1>4 DEF Cover, disk
  <2>2. /\ \A f \in ToSet(MAPS) : ~HasMapped(f)' /\ ~HasMapped(f)
        /\ \A s \in SourceKind : ~Offered(s)'
    BY <2>1 DEF HasMapped, Offered, Closed
  <2> QED
    BY <1>0, <2>1, <2>2, JournalStays
<1>5. CASE OpenStore /\ ~GiveUp
  <2>1. /\ pc = "open" /\ pc' = "map" /\ at' = 1 /\ seen' = ToSet(journal.lines)
        /\ UNCHANGED <<journal, fetched, mapped, tally, job, returned>>
    BY <1>5 DEF OpenStore, Open, disk, LoadIds
  <2>2. /\ \A f \in ToSet(MAPS) : ~HasMapped(f)' /\ ~HasMapped(f)
        /\ \A s \in SourceKind : ~Offered(s)'
    <3>1. 1..(1 - 1) = {}
      OBVIOUS
    <3> QED
      BY <2>1, <3>1 DEF HasMapped, Offered, Closed
  <2> QED
    BY <1>0, <2>1, <2>2, JournalStays
<1>6. CASE MapFeed
  BY <1>0, <1>6, JournalMapped
<1>7. CASE Link /\ ~GiveUp
  <2> DEFINE captures == mapped.capture
             joined == [i \in 1..Len(captures) |->
                          [captures[i] EXCEPT !.settlement = SettlementOf(captures[i])]]
  <2>1. /\ mapped' = [mapped EXCEPT !.capture = joined] /\ pc = "link" /\ pc' = "map"
        /\ UNCHANGED <<journal, fetched, tally, job, at, returned, seen>>
    BY <1>7 DEF Link, disk
  <2>2. Len(captures) \in Nat
    BY <1>0, SequenceHas DEF WellPlaced, Shape, SourceKind
  <2>3. Len(joined) = Len(captures)
    <3> HIDE DEF captures
    <3> QED
      BY <2>2, SequenceUpTo
  <2> HIDE DEF joined
  <2>4. /\ mapped'.order = mapped.order /\ Len(mapped'.capture) = Len(mapped.capture)
        /\ mapped'.bank_txn = mapped.bank_txn /\ mapped'.finance_event = mapped.finance_event
    BY <1>0, <2>1, <2>3 DEF WellPlaced, Shape, SourceKind
  <2>5. \A f : (HasMapped(f)' <=> HasMapped(f)) /\ Counted(f)' = Counted(f)
    BY <2>1 DEF HasMapped, Counted
  <2>6. \A f \in ToSet(MAPS) : HasMapped(f)' => RefusedAreJournalled(f)'
    <3> TAKE f \in ToSet(MAPS)
    <3> HAVE HasMapped(f)'
    <3>1. RefusedAreJournalled(f)
      BY <2>5 DEF JournalInv
    <3> QED
      BY <2>1, <3>1, RefusedStay
  <2>7. \A s \in SourceKind : ~Offered(s)'
    BY <2>1 DEF Offered, Closed
  <2>8. /\ IsSequence(journal'.lines) /\ IsInjective(journal'.lines)
        /\ returned' = NotReturned
    BY <2>1 DEF JournalInv
  <2>9. NothingVanishes'
    BY <2>8, GoingOn
  <2> QED
    BY <1>0, <2>1, <2>4, <2>5, <2>6, <2>7, <2>8, <2>9 DEF JournalInv
<1>8. CASE SecondStore /\ ~GiveUp
  <2>1. /\ pc = "store" /\ pc' = "write" /\ at' = 1 /\ seen' = ToSet(journal.lines)
        /\ UNCHANGED <<journal, fetched, mapped, tally, job, returned>>
    BY <1>8 DEF SecondStore, Open, disk, LoadIds
  <2>2. /\ \A f \in ToSet(MAPS) : HasMapped(f)' <=> HasMapped(f)
        /\ \A s \in SourceKind : ~Offered(s)'
    <3>1. 1..(1 - 1) = {}
      OBVIOUS
    <3> QED
      BY <2>1, <3>1 DEF HasMapped, Offered, Closed
  <2> QED
    BY <1>0, <2>1, <2>2, JournalStays
<1>9. CASE WriteFile
  BY <1>0, <1>9, JournalWritten
<1>10. CASE FillFile
  <2>1. /\ pc = "fill" /\ pc' \in {"manifest", "write"}
        /\ UNCHANGED <<journal, fetched, mapped, tally, job, returned, seen>>
    BY <1>10 DEF FillFile
  <2>2. \A f \in ToSet(MAPS) : HasMapped(f)' <=> HasMapped(f)
    BY <2>1 DEF HasMapped
  <2>3. \A s \in SourceKind : Offered(s)' => Offered(s)
    <3>1. \A s \in SourceKind : Closed(s)' => s = FILES[at] \/ Closed(s)
      BY <1>0, <1>10, FilledIsClosed
    <3>2. \A s \in SourceKind : Offered(s)' => Closed(s)'
      BY <2>1 DEF Offered
    <3> QED
      BY <2>1, <3>1, <3>2 DEF Offered
  <2>4. seen = ToSet(journal.lines)
    BY <2>1 DEF JournalInv
  <2> QED
    BY <1>0, <2>1, <2>2, <2>3, <2>4, JournalStays
<1>11. CASE WriteManifest
  <2>1. /\ pc = "manifest" /\ UNCHANGED <<journal, fetched, mapped, tally, job, returned, seen>>
        /\ manifest' = [s \in SourceKind |->
                          IF job = "import" /\ s # "bank_txn" THEN manifest[s]
                          ELSE [by |-> runs, summary |-> Summary(s, mapped[s])]]
        /\ pc' = IF job = "import" THEN "idle" ELSE "receipt"
    BY <1>11 DEF WriteManifest, Entry
  <2>2. CASE job = "import"
    <3>1. pc # "idle" /\ pc' = "idle" /\ UNCHANGED <<returned, journal>>
      BY <2>1, <2>2
    <3>2. IsSequence(journal'.lines) /\ IsInjective(journal'.lines)
      BY <2>1 DEF JournalInv
    <3> QED
      BY <1>0, <3>1, <3>2, StoppedShort
  <2>3. CASE job # "import"
    <3>1. pc' = "receipt" /\ \A s \in SourceKind : manifest'[s].summary = Summary(s, mapped[s])
      BY <2>1, <2>3
    <3>2. /\ \A f \in ToSet(MAPS) : HasMapped(f)' <=> HasMapped(f)
          /\ \A s \in SourceKind : Offered(s)' => Offered(s)
      BY <2>1, <3>1 DEF HasMapped, Offered, Closed
    <3> QED
      BY <1>0, <2>1, <3>1, <3>2, JournalStays
  <2> QED
    BY <2>2, <2>3
<1>12. CASE Finish
  BY <1>0, <1>12, JournalFinished
<1>13. CASE \/ (Cover \/ OpenStore \/ Link \/ SecondStore) /\ GiveUp
            \/ FetchFails \/ Killed \/ KilledFilling
  <2>1. pc # "idle" /\ pc' = "idle" /\ UNCHANGED <<returned, journal>>
    BY <1>13 DEF Cover, OpenStore, Link, SecondStore, FetchFails, Killed, KilledFilling,
                 GiveUp, disk
  <2>2. IsSequence(journal'.lines) /\ IsInjective(journal'.lines)
    BY <2>1 DEF JournalInv
  <2> QED
    BY <1>0, <2>1, <2>2, StoppedShort
<1>14. CASE KilledJournalling
  <2>1. pc \in {"map", "write"} /\ pc' = "idle" /\ UNCHANGED returned
    BY <1>14 DEF KilledJournalling, GiveUp
  <2> DEFINE w == AppendAll(journal.lines, seen, Pending)
  <2>2. PICK n \in Len(journal.lines)..Len(w.lines), torn \in BOOLEAN :
           journal' = [lines |-> SubSeq(w.lines, 1, n), torn |-> torn]
    BY <1>14 DEF KilledJournalling
  <2>3. IsSequence(Pending)
    BY <1>0, <2>1, PendingIsSequence
  <2>4. /\ IsSequence(journal.lines) /\ IsInjective(journal.lines)
        /\ seen = ToSet(journal.lines)
    BY <2>1 DEF JournalInv
  <2>5. IsSequence(w.lines) /\ IsInjective(w.lines)
    BY <2>3, <2>4, AppendedLines
  <2> HIDE DEF w
  <2>6. n \in 0..Len(w.lines)
    <3>1. Len(journal.lines) \in Nat /\ Len(w.lines) \in Nat
      BY <2>4, <2>5, SequenceHas
    <3> QED
      BY <3>1
  <2>7. IsSequence(journal'.lines) /\ IsInjective(journal'.lines)
    BY <2>2, <2>5, <2>6, PrefixOfLines
  <2> QED
    BY <1>0, <2>1, <2>7, StoppedShort
<1>15. CASE Arrives \/ UNCHANGED vars
  <2>1. UNCHANGED <<run, disk>>
    BY <1>15 DEF Arrives, vars
  <2>2. /\ UNCHANGED <<pc, job, at, fetched, mapped, tally, seen, returned, journal, manifest>>
    BY <2>1 DEF run, disk
  <2>3. /\ \A f : /\ HasMapped(f)' <=> HasMapped(f)
                  /\ Counted(f)' = Counted(f)
                  /\ RefusedAreJournalled(f) => RefusedAreJournalled(f)'
        /\ \A s : /\ Offered(s)' <=> Offered(s)
                  /\ RejectedAreJournalled(s) => RejectedAreJournalled(s)'
    <3>1. \A f, item : Refused(f, item)' <=> Refused(f, item)
      BY <2>2 DEF Refused, Flaws, OrderOf
    <3> QED
      BY <2>2, <3>1 DEF HasMapped, Counted, RefusedAreJournalled, Offered, Closed,
                        RejectedAreJournalled
  <2>4. NothingVanishes'
    <3>1. \A f, item : Refused(f, item)' <=> Refused(f, item)
      BY <2>2 DEF Refused, Flaws, OrderOf
    <3> QED
      BY <2>2, <3>1 DEF JournalInv, NothingVanishes
  <2> QED
    BY <1>0, <2>2, <2>3, <2>4 DEF JournalInv
<1> QED
  BY <1>1, <1>2, <1>3, <1>4, <1>5, <1>6, <1>7, <1>8, <1>9, <1>10, <1>11, <1>12, <1>13, <1>14,
     <1>15 DEF Next, RunStep

\* NothingVanishes, of any feeds and statements: an ingest that returns has
\* accounted for every row that it fetched as accepted, skipped or quarantined;
\* each row that it did not take is a line of quarantine.jsonl; and however many
\* runs are killed while they write it, no line is there twice (_map_api_rows,
\* validate_rows, QuarantineStore.append).
THEOREM NothingIsLost == Spec => []NothingVanishes
<1>1. Init => DiskInv /\ JournalInv
  BY DiskAtStart, JournalAtStart
<1>2. DiskInv /\ JournalInv /\ [Next]_vars => (DiskInv /\ JournalInv)'
  BY DiskStep, JournalStep
<1>3. JournalInv => NothingVanishes
  BY DEF JournalInv
<1> QED
  BY <1>1, <1>2, <1>3, PTL DEF Spec

-----------------------------------------------------------------------------
(* The types.                                                               *)

\* A store knows no id that is not in the file: lines are never taken away.
LEMMA SeenStep ==
    ASSUME seen \subseteq ToSet(journal.lines), JournalInv, DiskInv, [Next]_vars
    PROVE  seen' \subseteq ToSet(journal'.lines)
<1>0. WellPlaced
  BY DEF DiskInv
<1>1. CASE UNCHANGED <<seen, journal>>
  BY <1>1
<1>2. CASE StartIngest \/ StartImport
  <2>1. journal' = journal /\ (seen' = {} \/ seen' = ToSet(journal.lines))
    BY <1>2 DEF StartIngest, StartImport, Start, disk, LoadIds
  <2> QED
    BY <2>1
<1>3. CASE OpenStore \/ SecondStore
  <2>1. journal' = journal /\ (seen' = seen \/ seen' = ToSet(journal.lines))
    BY <1>3 DEF OpenStore, SecondStore, Open, GiveUp, disk, LoadIds
  <2> QED
    BY <2>1
<1>4. CASE MapFeed \/ WriteFile
  <2>1. pc \in {"map", "link", "write", "fill"} =>
          /\ IsSequence(journal.lines) /\ IsInjective(journal.lines)
          /\ seen = ToSet(journal.lines)
          /\ journal = [lines |-> journal.lines, torn |-> journal.torn]
    BY <1>0 DEF JournalInv, WellPlaced, Shape
  <2>2. \E ids : IsSequence(ids) /\ Journal(ids)
    <3>1. CASE MapFeed
      <4>1. MAPS[at] \in ToSet(FEEDS)
        BY <1>0, <3>1, MappedRows, Names
      <4>2. IsSequence(fetched[MAPS[at]])
        BY <1>0, <4>1 DEF WellPlaced, Shape
      <4>3. IsSequence(MapperIds(MAPS[at])) /\ Journal(MapperIds(MAPS[at]))
        BY <3>1, <4>2, RowsAreParted DEF MapFeed
      <4> QED
        BY <4>3
    <3>2. CASE WriteFile
      <4>1. FILES[at] \in SourceKind
        BY <1>0, <3>2, Names DEF WriteFile, WellPlaced, Place
      <4>2. IsSequence(mapped[FILES[at]])
        BY <1>0, <4>1 DEF WellPlaced, Shape
      <4>3. /\ IsSequence(RejectedIds(FILES[at], mapped[FILES[at]]))
            /\ Journal(RejectedIds(FILES[at], mapped[FILES[at]]))
        BY <3>2, <4>2, RejectedAreNamed DEF WriteFile
      <4> QED
        BY <4>3
    <3> QED
      BY <1>4, <3>1, <3>2
  <2>3. pc \in {"map", "write"}
    BY <1>4 DEF MapFeed, WriteFile
  <2> QED
    BY <2>1, <2>2, <2>3, JournalGrows
<1>5. CASE KilledJournalling
  <2>1. pc \in {"map", "write"} /\ seen' = seen
    BY <1>5 DEF KilledJournalling, GiveUp
  <2>2. seen = ToSet(journal.lines) /\ IsSequence(journal.lines)
    BY <2>1 DEF JournalInv
  <2> DEFINE w == AppendAll(journal.lines, seen, Pending)
  <2>3. PICK n \in Len(journal.lines)..Len(w.lines), torn \in BOOLEAN :
           journal' = [lines |-> SubSeq(w.lines, 1, n), torn |-> torn]
    BY <1>5 DEF KilledJournalling
  <2>4. IsSequence(w.lines) /\ IsInjective(w.lines)
        /\ \A i \in 1..Len(journal.lines) : w.lines[i] = journal.lines[i]
    <3>1. IsSequence(Pending)
      BY <1>0, <2>1, PendingIsSequence
    <3>2. IsInjective(journal.lines)
      BY DEF JournalInv
    <3> QED
      BY <2>2, <3>1, <3>2, AppendedLines
  <2> HIDE DEF w
  <2>5. /\ Len(journal.lines) \in Nat /\ Len(w.lines) \in Nat
        /\ n \in 0..Len(w.lines) /\ Len(journal.lines) =< n
    <3>1. Len(journal.lines) \in Nat /\ Len(w.lines) \in Nat
      BY <2>2, <2>4, SequenceHas
    <3> QED
      BY <3>1
  <2> DEFINE cut == SubSeq(w.lines, 1, n)
  <2>6. IsSequence(cut) /\ Len(cut) = n /\ \A i \in 1..n : cut[i] = w.lines[i]
    BY <2>4, <2>5, PrefixOfLines
  <2> HIDE DEF cut
  <2>7. \A i \in 1..Len(journal.lines) : i \in 1..n
    BY <2>5
  <2>8. \A i \in 1..Len(journal.lines) : journal.lines[i] \in ToSet(cut)
    BY <2>4, <2>6, <2>7, SequenceHas
  <2>9. \A q \in ToSet(journal.lines) : q \in ToSet(cut)
    BY <2>2, <2>8, SequenceHas
  <2>10. journal'.lines = cut
    BY <2>3 DEF cut
  <2> QED
    BY <2>1, <2>2, <2>9, <2>10
<1>6. CASE \/ Arrives \/ FetchPage \/ Cover \/ Link \/ FillFile \/ WriteManifest \/ Finish
           \/ FetchFails \/ Killed \/ KilledFilling \/ UNCHANGED vars
  <2>1. UNCHANGED <<seen, journal>>
    BY <1>6 DEF Arrives, FetchPage, Cover, Link, FillFile, WriteManifest, Finish, FetchFails,
                Killed, KilledFilling, GiveUp, vars, run, disk
  <2> QED
    BY <2>1
<1> QED
  BY <1>2, <1>3, <1>4, <1>5, <1>6 DEF Next, RunStep

\* TypeOK: among the rest, that no feed holds more rows than --limit, that a
\* store made at any moment knows only ids the journal has, and that nothing on
\* disk is of a run that has not started.
THEOREM IngestIsTyped == Spec => []TypeOK
<1> DEFINE Known == seen \subseteq ToSet(journal.lines)
<1>1. Init => DiskInv /\ JournalInv /\ Known
  BY DiskAtStart, JournalAtStart DEF Init
<1>2. DiskInv /\ JournalInv /\ Known /\ [Next]_vars => (DiskInv /\ JournalInv /\ Known)'
  BY DiskStep, JournalStep, SeenStep
<1>3. DiskInv /\ JournalInv /\ Known => TypeOK
  <2> SUFFICES ASSUME DiskInv, JournalInv, Known PROVE TypeOK
    OBVIOUS
  <2>0. WellPlaced
    BY DEF DiskInv
  <2>1. \A f \in ToSet(FEEDS) : Len(fetched[f]) =< Limit
    BY <2>0 DEF WellPlaced, Shape
  <2>2. runs \in Nat
    BY <2>0, IngestConstants DEF WellPlaced, Place
  <2>3. /\ \A s \in SourceKind : files[s].by \in 0..runs /\ manifest[s].by \in 0..runs
        /\ receipt.by \in 0..runs
    <3>1. "order" \in SourceKind
      BY DEF SourceKind
    <3> QED
      BY <2>2, <3>1 DEF DiskInv, DiskOrder
  <2> QED
    BY <2>0, <2>1, <2>3 DEF TypeOK, WellPlaced, Shape, Place
<1> HIDE DEF Known
<1> QED
  BY <1>1, <1>2, <1>3, PTL DEF Spec

-----------------------------------------------------------------------------
(* The books of an order.                                                   *)

\* The rows read are items of the provider, a payment with what was returned of it.
Sourced ==
    /\ \A p \in ToSet(fetched.payments) : \E item \in Held("payments") :
          p = [item EXCEPT !.refunded = p.refunded, !.back = p.back]
    /\ ToSet(fetched.refunds) \subseteq Held("refunds")

\* A row of the capture file is mapped from a payment or from a refund.
FromPayment(row, p) ==
    row.id = p.id /\ row.order = p.order /\ row.amount = p.amount /\ p.captured

FromRefund(row, r) ==
    row.id = r.id /\ row.order = OrderOf(r) /\ row.amount = -r.amount /\ r.processed

CaptureRow(row) ==
    /\ DOMAIN row = {"id", "flaws", "order", "amount", "settlement"} /\ row.flaws = {}
    /\ \/ \E p \in ToSet(fetched.payments) : FromPayment(row, p)
       \/ \E r \in ToSet(fetched.refunds) : FromRefund(row, r)

EveryRefundMapped(rows) ==
    \A r \in ToSet(fetched.refunds) : r.processed => \E row \in ToSet(rows) : row.id = r.id

LEMMA PaymentRead ==
    ASSUME Sourced, NEW p \in ToSet(fetched.payments)
    PROVE  \E item \in Held("payments") :
               /\ p = [item EXCEPT !.refunded = p.refunded, !.back = p.back]
               /\ p.id = item.id /\ p.order = item.order /\ p.amount = item.amount
               /\ p.flaws = item.flaws
<1>1. PICK item \in Held("payments") :
          p = [item EXCEPT !.refunded = p.refunded, !.back = p.back]
  BY DEF Sourced
<1>2. DOMAIN item = {"id", "order", "amount", "captured", "flaws", "refunded", "back"}
  BY ProviderConstants
<1>3. p.id = item.id /\ p.order = item.order /\ p.amount = item.amount /\ p.flaws = item.flaws
  BY <1>1, <1>2
<1> QED
  BY <1>1, <1>3

\* An id is of one payment read and of no refund.
LEMMA PaymentsDiffer ==
    ASSUME Sourced, Covered, IsSequence(fetched.payments),
           NEW p \in ToSet(fetched.payments)
    PROVE  /\ \A q \in ToSet(fetched.payments) : p.id = q.id => p = q
           /\ \A r \in ToSet(fetched.refunds) :
                 p.id # r.id /\ (r.payment = p.id => r.order \in {"none", p.order})
           /\ p.amount \in Int /\ p.amount > 0 /\ p.refunded = RefundsRead(p)
<1>1. \A q \in ToSet(fetched.payments) :
          /\ q.back = q.refunded /\ q.amount > 0 /\ "FLOAT_MONEY" \notin q.flaws
          /\ RefundsRead(q) = q.refunded
  BY SequenceHas DEF Covered, StateAgrees
<1>2. PICK item \in Held("payments") :
          /\ p = [item EXCEPT !.refunded = p.refunded, !.back = p.back]
          /\ p.id = item.id /\ p.order = item.order /\ p.amount = item.amount
          /\ p.flaws = item.flaws
  BY PaymentRead
<1>3. ASSUME NEW q \in ToSet(fetched.payments), p.id = q.id PROVE p = q
  <2>1. PICK other \in Held("payments") :
            /\ q = [other EXCEPT !.refunded = q.refunded, !.back = q.back]
            /\ q.id = other.id
    BY PaymentRead
  <2>2. item = other
    BY <1>2, <1>3, <2>1, ProviderConstants
  <2>3. RefundsOf(fetched.refunds, p) = RefundsOf(fetched.refunds, q)
    BY <1>3 DEF RefundsOf
  <2>4. RefundsRead(p) = RefundsRead(q)
    BY <2>3 DEF RefundsRead, Repaid
  <2>5. p.refunded = q.refunded /\ p.back = q.back
    BY <1>1, <2>4
  <2> QED
    BY <1>2, <2>1, <2>2, <2>5
<1>4. \A r \in ToSet(fetched.refunds) :
          p.id # r.id /\ (r.payment = p.id => r.order \in {"none", p.order})
  <2>1. \A r \in Held("refunds") :
            item.id # r.id /\ (r.payment = item.id => r.order \in {"none", item.order})
    BY ProviderConstants
  <2>2. \A r \in ToSet(fetched.refunds) : r \in Held("refunds")
    BY DEF Sourced
  <2> QED
    BY <1>2, <2>1, <2>2
<1>5. p.amount \in Int
  BY <1>1, <1>2, ProviderConstants
<1> QED
  BY <1>1, <1>3, <1>4, <1>5

\* A processed refund has an id of its own, an amount, and the order of its payment.
LEMMA RefundsDiffer ==
    ASSUME Sourced, Covered, IsSequence(fetched.payments), IsSequence(fetched.refunds),
           NEW i \in 1..Len(fetched.refunds), fetched.refunds[i].processed
    PROVE  /\ fetched.refunds[i].amount \in Nat \ {0}
           /\ \A j \in 1..Len(fetched.refunds) :
                 /\ fetched.refunds[j].processed
                 /\ fetched.refunds[j].id = fetched.refunds[i].id
                 => j = i
           /\ \A p \in ToSet(fetched.payments) :
                 fetched.refunds[i].payment = p.id => OrderOf(fetched.refunds[i]) = p.order
<1> DEFINE r == fetched.refunds[i]
<1>1. r \in ToSet(fetched.refunds) /\ r \in Held("refunds")
  BY SequenceHas DEF Sourced
<1>2. r.amount \in Nat \ {0}
  <2>1. Flaws("refunds", r) \cap ToSet(Checks("refunds")) = {}
    BY DEF Covered, WellFormed, Refused, Skipped
  <2>2. r.flaws \subseteq Flaws("refunds", r)
    BY DEF Flaws
  <2>3. {"FLOAT_MONEY", "INVALID_MONEY"} \subseteq ToSet(Checks("refunds"))
    <3> DEFINE m == MAPPER_CHECKS["refunds"]
    <3>1. m = <<"FLOAT_MONEY", "INVALID_MONEY", "MISSING_ORDER_ID",
                "MALFORMED_SOURCE", "MISSING_DATE">>
      BY DEF MAPPER_CHECKS
    <3>2. IsSequence(m) /\ {"FLOAT_MONEY", "INVALID_MONEY"} \subseteq ToSet(m)
      <4>1. DOMAIN m = {1, 2, 3, 4, 5} /\ 1..5 = {1, 2, 3, 4, 5}
        BY <3>1
      <4>2. m[1] = "FLOAT_MONEY" /\ m[2] = "INVALID_MONEY" /\ m = [k \in 1..5 |-> m[k]]
        BY <3>1, <4>1
      <4> QED
        BY <4>1, <4>2, SequenceUpTo DEF ToSet
    <3>3. IsSequence(CONTRACT)
      <4> DEFINE n == Len(CONTRACT)
      <4>1. n \in Nat /\ DOMAIN CONTRACT = 1..n /\ CONTRACT = [k \in 1..n |-> CONTRACT[k]]
        BY DEF CONTRACT
      <4> QED
        BY <4>1, SequenceUpTo
    <3> HIDE DEF m
    <3>4. ToSet(m \o CONTRACT) = ToSet(m) \cup ToSet(CONTRACT)
      BY <3>2, <3>3, JoinedSequences
    <3> QED
      BY <3>2, <3>4 DEF Checks, m
  <2> QED
    BY <1>1, <2>1, <2>2, <2>3, ProviderConstants
<1>3. \A j \in 1..Len(fetched.refunds) :
          fetched.refunds[j].processed /\ fetched.refunds[j].id = r.id => j = i
  BY DEF Covered, EachOnce
<1>4. ASSUME NEW p \in ToSet(fetched.payments), r.payment = p.id PROVE OrderOf(r) = p.order
  <2> DEFINE known == {k \in DOMAIN fetched.payments : fetched.payments[k].id = r.payment}
  <2>1. r.order \in {"none", p.order}
    BY <1>1, <1>4, PaymentsDiffer
  <2>2. /\ Len(fetched.payments) \in Nat /\ DOMAIN fetched.payments = 1..Len(fetched.payments)
        /\ \E k \in 1..Len(fetched.payments) : fetched.payments[k] = p
    BY SequenceHas
  <2>3. known # {} /\ known \in SUBSET (1..Len(fetched.payments))
    BY <1>4, <2>2
  <2>4. Max(known) \in known
    <3> HIDE DEF known
    <3> QED
      BY <2>2, <2>3, GreatestNatural
  <2>5. /\ fetched.payments[Max(known)] \in ToSet(fetched.payments)
        /\ fetched.payments[Max(known)].id = p.id
    BY <1>4, <2>2, <2>4, SequenceHas
  <2>6. fetched.payments[Max(known)].order = p.order
    <3> HIDE DEF known
    <3> QED
      BY <2>5, PaymentsDiffer
  <2>7. OrderOf(r) = IF r.order # "none" \/ known = {} THEN r.order
                     ELSE fetched.payments[Max(known)].order
    BY DEF OrderOf
  <2> HIDE DEF known, r
  <2> QED
    BY <2>1, <2>3, <2>6, <2>7
<1> QED
  BY <1>2, <1>3, <1>4

\* Of rows without a flaw, validate_rows accepts one of each id.
LEMMA AcceptedOnce ==
    ASSUME NEW c, IsSequence(c), \A row \in ToSet(c) : row.flaws = {}
    PROVE  LET rows == AcceptedRows(c) IN
           /\ IsSequence(rows) /\ ToSet(rows) \subseteq ToSet(c)
           /\ \A i, j \in 1..Len(rows) : rows[i].id = rows[j].id => i = j
           /\ \A row \in ToSet(c) : \E i \in 1..Len(rows) : rows[i].id = row.id
<1> DEFINE n == Len(c)
           K == Accepted(c)
           rows == Pick(c, K)
<1>1. /\ n \in Nat /\ \A i \in 1..n : c[i] \in ToSet(c)
      /\ \A row \in ToSet(c) : \E i \in 1..n : c[i] = row
  BY SequenceHas
<1>2. K = {i \in 1..n : \A j \in 1..(i - 1) : c[j].id # c[i].id}
  <2>1. \A i \in 1..n : ~Rejects(c[i])
    BY <1>1 DEF Rejects
  <2>2. \A i \in 1..n : \A j \in 1..(i - 1) : j \in 1..n
    BY <1>1
  <2> QED
    BY <2>1, <2>2 DEF Accepted
<1> HIDE DEF n, K
<1>3. K \in SUBSET (1..n)
  BY <1>2
<1> HIDE DEF rows
<1>4. /\ IsSequence(rows) /\ Len(rows) = Cardinality(K) /\ Cardinality(K) \in Nat
      /\ \A k \in K : c[k] \in ToSet(rows)
      /\ \A i \in 1..Cardinality(K) : Nth(K, i) \in K /\ rows[i] = c[Nth(K, i)]
  <2>1. n \in Nat /\ K \in SUBSET (1..n)
    BY <1>1, <1>3
  <2> HIDE <1>1, <1>2, <1>3
  <2> QED
    BY <2>1, PickedRows DEF rows
<1>5. \A i, j \in 1..Cardinality(K) : Nth(K, i) = Nth(K, j) => i = j
  BY <1>1, <1>3, NthExists
<1>6. ToSet(rows) \subseteq ToSet(c)
  <2>1. \A i \in 1..Len(rows) : rows[i] \in ToSet(c)
    BY <1>1, <1>3, <1>4
  <2> QED
    BY <1>4, <2>1, SequenceHas
<1>7. ASSUME NEW i \in 1..Len(rows), NEW j \in 1..Len(rows), rows[i].id = rows[j].id
      PROVE  i = j
  <2> DEFINE a == Nth(K, i)
             b == Nth(K, j)
  <2>1. a \in K /\ b \in K /\ c[a].id = c[b].id
    BY <1>4, <1>7
  <2>2. i \in 1..Cardinality(K) /\ j \in 1..Cardinality(K) /\ (a = b => i = j)
    BY <1>4, <1>5
  <2> HIDE DEF a, b
  <2>3. a \in 1..n /\ b \in 1..n
    BY <1>3, <2>1
  <2>4. ~(a < b) /\ ~(b < a)
    BY <1>1, <1>2, <2>1, <2>3
  <2>5. a = b
    BY <1>1, <2>3, <2>4
  <2> QED
    BY <2>2, <2>5
<1>8. ASSUME NEW row \in ToSet(c) PROVE \E i \in 1..Len(rows) : rows[i].id = row.id
  <2> DEFINE same == {i \in 1..n : c[i].id = row.id}
  <2>1. same \in SUBSET Nat /\ same # {}
    BY <1>1
  <2>2. PICK m \in same : \A i \in same : m =< i
    <3> HIDE DEF same
    <3> QED
      BY <2>1, LeastNatural
  <2>3. m \in K
    <3>1. m \in 1..n /\ c[m].id = row.id
      BY <2>2
    <3>2. ASSUME NEW j \in 1..(m - 1) PROVE c[j].id # c[m].id
      <4>1. j \in 1..n /\ ~(m =< j)
        BY <1>1, <3>1
      <4>2. j \notin same
        BY <2>2, <4>1
      <4> QED
        BY <3>1, <4>1, <4>2
    <3> QED
      BY <1>2, <3>1, <3>2
  <2>4. c[m] \in ToSet(rows) /\ c[m].id = row.id
    BY <1>4, <2>2, <2>3
  <2> QED
    BY <1>4, <2>4, SequenceHas
<1> QED
  BY <1>4, <1>6, <1>7, <1>8 DEF AcceptedRows, rows, K

\* What is accepted of the captures mapped from what was read, once the refunds
\* cover it: of each order no more than its payments, less what was returned.
LEMMA BooksHold ==
    ASSUME Sourced, Covered, IsSequence(fetched.payments), IsSequence(fetched.refunds),
           NEW c, IsSequence(c), \A row \in ToSet(c) : CaptureRow(row), EveryRefundMapped(c),
           NEW o
    PROVE  LET rows == AcceptedRows(c) IN
           SumFunction([i \in RowsOf(rows, o) |-> rows[i].amount])
               =< SumFunction([p \in Paid(o) |-> p.amount - p.refunded])
<1> DEFINE rows == AcceptedRows(c)
           R == fetched.refunds
           n == Len(rows)
           m == Len(R)
           K == RowsOf(rows, o)
           P == Paid(o)
           amount == [i \in K |-> rows[i].amount]
           due == [p \in P |-> p.amount - p.refunded]
           rowOf == [j \in 1..m |-> CHOOSE i \in 1..n : rows[i].id = R[j].id]
           own(x) == {i \in K : rows[i].id = x.id}
           back(x) == {rowOf[j] : j \in RefundsOf(R, x)}
           part == [x \in P |-> own(x) \cup back(x)]
<1>1. /\ IsSequence(rows) /\ ToSet(rows) \subseteq ToSet(c)
      /\ \A i, j \in 1..n : rows[i].id = rows[j].id => i = j
      /\ \A row \in ToSet(c) : \E i \in 1..n : rows[i].id = row.id
  <2>1. \A row \in ToSet(c) : row.flaws = {}
    BY DEF CaptureRow
  <2> HIDE DEF rows
  <2> QED
    BY <2>1, AcceptedOnce DEF rows
<1> HIDE DEF rows
<1>2. /\ n \in Nat /\ DOMAIN rows = 1..n /\ \A i \in 1..n : rows[i] \in ToSet(rows)
      /\ m \in Nat /\ DOMAIN R = 1..m /\ \A j \in 1..m : R[j] \in ToSet(R)
      /\ \A r \in ToSet(R) : \E j \in 1..m : R[j] = r
  BY <1>1, SequenceHas
<1>3. \A i \in 1..n : CaptureRow(rows[i])
  BY <1>1, <1>2
<1>4. \A p \in ToSet(fetched.payments) :
         /\ \A q \in ToSet(fetched.payments) : p.id = q.id => p = q
         /\ \A r \in ToSet(R) : p.id # r.id
         /\ p.amount \in Int /\ p.amount > 0 /\ p.refunded = RefundsRead(p)
  BY PaymentsDiffer
<1>5. \A j \in 1..m : R[j].processed =>
         /\ R[j].amount \in Nat \ {0}
         /\ \A k \in 1..m : R[k].processed /\ R[k].id = R[j].id => k = j
         /\ \A p \in ToSet(fetched.payments) :
               R[j].payment = p.id => OrderOf(R[j]) = p.order
  <2> HIDE DEF R, m
  <2> SUFFICES ASSUME NEW j \in 1..m, R[j].processed
               PROVE /\ R[j].amount \in Nat \ {0}
                     /\ \A k \in 1..m : R[k].processed /\ R[k].id = R[j].id => k = j
                     /\ \A p \in ToSet(fetched.payments) :
                           R[j].payment = p.id => OrderOf(R[j]) = p.order
    OBVIOUS
  <2> QED
    BY RefundsDiffer DEF R, m
\* A row is its payment's, or its refund's.
<1>6. ASSUME NEW i \in 1..n
      PROVE  /\ rows[i].amount \in Int
             /\ \A x \in ToSet(fetched.payments) : rows[i].id = x.id =>
                   FromPayment(rows[i], x)
             /\ \A j \in 1..m : R[j].processed /\ rows[i].id = R[j].id =>
                   FromRefund(rows[i], R[j])
             /\ \/ rows[i].amount < 0
                \/ \E x \in ToSet(fetched.payments) : FromPayment(rows[i], x)
  <2>1. CASE \E p \in ToSet(fetched.payments) : FromPayment(rows[i], p)
    <3>1. PICK p \in ToSet(fetched.payments) : FromPayment(rows[i], p)
      BY <2>1
    <3>2. rows[i].id = p.id /\ rows[i].amount = p.amount
      BY <3>1 DEF FromPayment
    <3> QED
      BY <1>2, <1>4, <2>1, <3>1, <3>2
  <2>2. CASE \E r \in ToSet(R) : FromRefund(rows[i], r)
    <3>1. PICK k \in 1..m : FromRefund(rows[i], R[k])
      BY <1>2, <2>2
    <3>2. /\ rows[i].id = R[k].id /\ R[k].processed /\ rows[i].amount = -R[k].amount
          /\ R[k] \in ToSet(R)
      BY <1>2, <3>1 DEF FromRefund
    <3>3. R[k].amount \in Nat \ {0}
      BY <1>5, <3>2
    <3>4. rows[i].amount \in Int /\ rows[i].amount < 0
      BY <3>2, <3>3
    <3>5. \A x \in ToSet(fetched.payments) : rows[i].id # x.id
      BY <1>4, <3>2
    <3>6. \A j \in 1..m : R[j].processed /\ rows[i].id = R[j].id => j = k
      BY <1>5, <3>2
    <3> QED
      BY <3>1, <3>4, <3>5, <3>6
  <2> QED
    BY <1>3, <2>1, <2>2 DEF CaptureRow
\* Every refund is at a row.
<1>7. \A j \in 1..m : R[j].processed => rowOf[j] \in 1..n /\ rows[rowOf[j]].id = R[j].id
  <2> SUFFICES ASSUME NEW j \in 1..m, R[j].processed
               PROVE  \E i \in 1..n : rows[i].id = R[j].id
    OBVIOUS
  <2>1. PICK row \in ToSet(c) : row.id = R[j].id
    BY <1>2 DEF EveryRefundMapped
  <2> QED
    BY <1>1, <2>1
<1> HIDE DEF n, m, rowOf
<1>8. K = {i \in 1..n : rows[i].order = o} /\ K \in SUBSET (1..n) /\ IsFiniteSet(K)
  <2>1. K = {i \in 1..n : rows[i].order = o} /\ K \in SUBSET (1..n)
    BY <1>2 DEF RowsOf
  <2> HIDE DEF K
  <2> QED
    BY <1>2, <2>1, FS_Interval, FS_Subset
<1>9. \A x \in P : x \in ToSet(fetched.payments) /\ x.order = o
  BY DEF Paid
<1>10. IsFiniteSet(P)
  <2>1. P \in SUBSET ToSet(fetched.payments)
    BY DEF Paid
  <2> HIDE DEF P
  <2> QED
    BY <2>1, FiniteElements, FS_Subset
<1> HIDE DEF R, K, P
<1>11. ASSUME NEW x \in P, NEW j \in RefundsOf(R, x)
       PROVE  /\ j \in 1..m /\ R[j].processed /\ R[j].payment = x.id
              /\ R[j].amount \in Nat \ {0}
              /\ rowOf[j] \in K /\ rows[rowOf[j]].amount = -R[j].amount
              /\ rows[rowOf[j]].id = R[j].id
  <2>1. j \in 1..m /\ R[j].processed /\ R[j].payment = x.id
    BY <1>2 DEF RefundsOf
  <2>2. R[j].amount \in Nat \ {0} /\ OrderOf(R[j]) = o
    BY <1>5, <1>9, <2>1
  <2>3. rowOf[j] \in 1..n /\ rows[rowOf[j]].id = R[j].id
    BY <1>7, <2>1
  <2>4. FromRefund(rows[rowOf[j]], R[j])
    BY <1>6, <2>1, <2>3
  <2>5. rows[rowOf[j]].order = o /\ rows[rowOf[j]].amount = -R[j].amount
    BY <2>2, <2>4 DEF FromRefund
  <2> QED
    BY <1>8, <2>1, <2>2, <2>3, <2>5
<1>12. \A i \in K : amount[i] \in Int /\ amount[i] = rows[i].amount
  BY <1>6, <1>8
<1>13. \A x \in P : part[x] = own(x) \cup back(x) /\ due[x] = x.amount - x.refunded
  OBVIOUS
<1>14. ASSUME NEW x \in P PROVE own(x) \in SUBSET K /\ back(x) \in SUBSET K
  BY <1>11
<1>15. ASSUME NEW x \in P, NEW i \in back(x)
       PROVE  \E j \in RefundsOf(R, x) :
                 /\ j \in 1..m /\ R[j].processed /\ R[j].payment = x.id
                 /\ rows[i].id = R[j].id /\ R[j] \in ToSet(R)
  <2>1. PICK j \in RefundsOf(R, x) : i = rowOf[j]
    BY <1>15
  <2>2. j \in 1..m /\ R[j].processed /\ R[j].payment = x.id /\ rows[rowOf[j]].id = R[j].id
    BY <1>11
  <2> QED
    BY <1>2, <2>1, <2>2
<1>16. \A x \in P : \A i \in own(x) : rows[i].id = x.id
  OBVIOUS
<1> HIDE DEF amount, due, part
<1>17. ASSUME NEW x \in P, NEW y \in P, x # y PROVE part[x] \cap part[y] = {}
  <2> HIDE DEF own, back
  <2> SUFFICES ASSUME NEW i \in part[x], i \in part[y] PROVE FALSE
    OBVIOUS
  <2>1. /\ x.id # y.id
        /\ \A r \in ToSet(R) : x.id # r.id /\ y.id # r.id
    BY <1>4, <1>9, <1>17
  <2>2. i \in own(x) \cup back(x) /\ i \in own(y) \cup back(y)
    BY <1>13
  <2>3. i \notin own(x) /\ i \notin own(y)
    BY <1>15, <1>16, <2>1, <2>2
  <2>4. PICK j \in RefundsOf(R, x) :
            /\ j \in 1..m /\ R[j].processed /\ R[j].payment = x.id
            /\ rows[i].id = R[j].id
    BY <1>15, <2>2, <2>3
  <2>5. PICK k \in RefundsOf(R, y) :
            /\ k \in 1..m /\ R[k].processed /\ R[k].payment = y.id
            /\ rows[i].id = R[k].id
    BY <1>15, <2>2, <2>3
  <2>6. j = k
    BY <1>5, <2>4, <2>5
  <2> QED
    BY <2>1, <2>4, <2>5, <2>6
\* What is added for a payment.
<1>18. ASSUME NEW x \in P
       PROVE  due[x] \in Int /\ SumOf(amount, part[x]) =< due[x]
  <2> DEFINE J == RefundsOf(R, x)
             paid == [j \in J |-> R[j].amount]
             less == [j \in J |-> -R[j].amount]
  <2>0. back(x) = {rowOf[j] : j \in J} /\ own(x) = {i \in K : rows[i].id = x.id}
    OBVIOUS
  <2> HIDE DEF own, back
  <2>1. /\ x.amount \in Int /\ x.amount > 0 /\ x.refunded = RefundsRead(x)
        /\ due[x] = x.amount - x.refunded
    BY <1>4, <1>9, <1>13
  <2>2. J \in SUBSET (1..m) /\ IsFiniteSet(J)
    <3>1. J \in SUBSET (1..m)
      BY <1>2 DEF RefundsOf
    <3>2. IsFiniteSet(1..m)
      <4>1. m \in Int /\ 1 \in Int
        BY <1>2
      <4> QED
        BY <4>1, FS_Interval
    <3> HIDE DEF J, paid, less
    <3> QED
      BY <3>1, <3>2, FS_Subset
  <2>3. RefundsRead(x) = SumOf(paid, J)
    BY SumsAgree DEF RefundsRead, Repaid, R
  <2> HIDE DEF J
  <2>4. /\ \A j \in J : paid[j] \in Int /\ less[j] \in Int /\ less[j] = -paid[j]
        /\ \A j \in J : amount[rowOf[j]] = less[j]
    <3> SUFFICES ASSUME NEW j \in J
                 PROVE  /\ R[j].amount \in Int /\ amount[rowOf[j]] = -R[j].amount
      OBVIOUS
    <3>1. R[j].amount \in Nat \ {0} /\ rowOf[j] \in K /\ rows[rowOf[j]].amount = -R[j].amount
      BY <1>11 DEF J
    <3> QED
      BY <1>12, <3>1
  <2>5. \A j, k \in J : rowOf[j] = rowOf[k] => j = k
    <3> SUFFICES ASSUME NEW j \in J, NEW k \in J, rowOf[j] = rowOf[k] PROVE j = k
      OBVIOUS
    <3>1. /\ j \in 1..m /\ R[j].processed /\ rows[rowOf[j]].id = R[j].id
          /\ k \in 1..m /\ R[k].processed /\ rows[rowOf[k]].id = R[k].id
      BY <1>11 DEF J
    <3> QED
      BY <1>5, <3>1
  <2> HIDE DEF paid, less
  <2>6. SumOf(paid, J) \in Int /\ SumOf(less, J) = -SumOf(paid, J)
    BY <2>2, <2>4, SumNegated, SumIntSteps
  <2>7. SumOf(amount, back(x)) = SumOf(less, J)
    <3>1. /\ IsFiniteSet(J) /\ \A j \in J : less[j] \in Int
          /\ \A j, k \in J : rowOf[j] = rowOf[k] => j = k
          /\ \A j \in J : amount[rowOf[j]] = less[j]
      BY <2>2, <2>4, <2>5
    <3>2. SumOf(amount, {rowOf[j] : j \in J}) = SumOf(less, J)
      BY ONLY <3>1, SumRenamed
    <3> QED
      BY <2>0, <3>2
  <2>8. /\ own(x) \in SUBSET K /\ back(x) \in SUBSET K /\ own(x) \cap back(x) = {}
        /\ part[x] = own(x) \cup back(x)
    <3>1. \A j \in J : rowOf[j] \in K /\ rows[rowOf[j]].id # x.id
      <4>1. \A j \in J : rowOf[j] \in K /\ rows[rowOf[j]].id = R[j].id /\ j \in 1..m
        BY <1>11 DEF J
      <4>2. \A r \in ToSet(R) : x.id # r.id
        BY <1>4, <1>9
      <4> QED
        BY <1>2, <4>1, <4>2
    <3> QED
      BY <1>13, <2>0, <3>1
  <2>9. SumOf(amount, own(x)) \in Int /\ SumOf(amount, own(x)) =< x.amount
    <3>1. CASE own(x) = {}
      <4> QED
        BY <2>1, <3>1, SumOfNone
    <3>2. CASE own(x) # {}
      <4>1. PICK i \in K : rows[i].id = x.id
        BY <2>0, <3>2
      <4>2. own(x) = {i} /\ own(x) \ {i} = {}
        BY <1>1, <1>8, <2>0, <4>1
      <4>3. amount[i] = x.amount
        <5>1. FromPayment(rows[i], x)
          BY <1>6, <1>8, <1>9, <4>1
        <5> QED
          BY <1>12, <5>1 DEF FromPayment
      <4>4. IsFiniteSet(own(x)) /\ i \in own(x) /\ \A k \in own(x) : amount[k] \in Int
        BY <1>8, <1>12, <2>8, <4>2, FS_Subset
      <4>5. SumOf(amount, own(x)) = amount[i] + SumOf(amount, {})
        BY <4>2, <4>4, SumIntSteps
      <4> QED
        BY <2>1, <4>3, <4>5, SumOfNone
    <3> QED
      BY <3>1, <3>2
  <2>10. SumOf(amount, part[x]) = SumOf(amount, own(x)) + SumOf(amount, back(x))
    <3>1. IsFiniteSet(own(x)) /\ IsFiniteSet(back(x))
      BY <1>8, <2>8, FS_Subset
    <3>2. \A i \in own(x) \cup back(x) : amount[i] \in Int
      BY <1>12, <2>8
    <3> QED
      BY <2>8, <3>1, <3>2, SumSplit
  <2> QED
    BY <2>1, <2>3, <2>6, <2>7, <2>9, <2>10
<1>19. ASSUME NEW i \in K PROVE amount[i] =< 0 \/ \E x \in P : i \in part[x]
  <2>1. i \in 1..n /\ rows[i].order = o /\ amount[i] = rows[i].amount /\ amount[i] \in Int
    BY <1>8, <1>12
  <2>2. CASE rows[i].amount < 0
    BY <2>1, <2>2
  <2>3. CASE \E x \in ToSet(fetched.payments) : FromPayment(rows[i], x)
    <3>1. PICK x \in ToSet(fetched.payments) : FromPayment(rows[i], x)
      BY <2>3
    <3>2. x \in P /\ rows[i].id = x.id
      BY <2>1, <3>1 DEF FromPayment, P, Paid
    <3> QED
      BY <1>13, <3>2
  <2> QED
    BY <1>6, <2>1, <2>2, <2>3
<1>20. SumOf(amount, K) =< SumOf(due, P)
  <2>1. \A x \in P : part[x] \in SUBSET K
    BY <1>13, <1>14
  <2> QED
    BY <1>8, <1>10, <1>12, <1>17, <1>18, <1>19, <2>1, SumOfParts
<1>21. SumFunction(amount) = SumOf(amount, K) /\ SumFunction(due) = SumOf(due, P)
  BY SumsAgree DEF amount, due
<1> QED
  BY <1>20, <1>21 DEF rows, K, P, amount, due

\* The runs that have read all that their captures depend on, those that have
\* mapped the refunds, those yet to open gateway_captures.csv, and those at it.
HasRead ==
    \/ pc = "fetch" /\ at \in {4, 5}
    \/ pc \in {"open", "map", "link", "store"}
    \/ job = "ingest" /\ pc \in {"write", "fill"}

HasRefunds ==
    \/ pc = "map" /\ at = 4
    \/ pc \in {"link", "store"}
    \/ job = "ingest" /\ pc \in {"write", "fill"}

YetToOpen ==
    \/ pc \in {"fetch", "cover", "open", "map", "link", "store"}
    \/ job = "ingest" /\ pc = "write" /\ at \in {1, 2}
    \/ job = "ingest" /\ pc = "fill" /\ at = 1

AtCaptures == job = "ingest" /\ pc = "fill" /\ at = 2

\* What was read is covered before anything is mapped of it, and the captures
\* are mapped from it, each refund among them, before their file is opened.
BooksInv ==
    /\ DiskInv
    /\ \A f \in {"payments", "refunds"} : ToSet(api[f]) \subseteq Held(f)
    /\ Sourced
    /\ pc = "cover" => at = 4
    /\ HasRead => Covered
    /\ pc \in {"fetch", "cover", "open"} => mapped.capture = <<>>
    /\ \A row \in ToSet(mapped.capture) : CaptureRow(row)
    /\ HasRefunds => EveryRefundMapped(mapped.capture)
    /\ YetToOpen => files.capture.by < runs
    /\ AtCaptures => ~files.capture.whole
    /\ NoRefundIsLost

\* A file of captures that an earlier run wrote, or a kill left unfinished.
LEMMA OfAnotherRun ==
    ASSUME ~(job = "ingest" /\ files.capture.by = runs /\ files.capture.whole)
    PROVE  NoRefundIsLost
BY DEF NoRefundIsLost

LEMMA BooksKept ==
    ASSUME NoRefundIsLost, UNCHANGED <<job, runs, fetched>>, files'.capture = files.capture
    PROVE  NoRefundIsLost'
<1>1. job' = job /\ runs' = runs /\ fetched' = fetched
  OBVIOUS
<1>2. \A o : Paid(o)' = Paid(o)
  BY <1>1 DEF Paid
<1> QED
  BY <1>1, <1>2 DEF NoRefundIsLost

\* What is asked of the payments and refunds read depends on nothing else.
LEMMA CoveredKept ==
    ASSUME fetched'.payments = fetched.payments, fetched'.refunds = fetched.refunds
    PROVE  /\ Covered => Covered'
           /\ \A feed, item : /\ OrderOf(item)' = OrderOf(item)
                              /\ Skipped(feed, item)' = Skipped(feed, item)
                              /\ Refused(feed, item)' = Refused(feed, item)
<1>1. \A item : OrderOf(item)' = OrderOf(item)
  BY DEF OrderOf
<1>2. \A feed, item : Skipped(feed, item)' = Skipped(feed, item)
  BY DEF Skipped
<1>3. \A feed, item : Flaws(feed, item)' = Flaws(feed, item)
  BY <1>1 DEF Flaws
<1>4. \A feed, item : Refused(feed, item)' = Refused(feed, item)
  BY <1>2, <1>3 DEF Refused
<1>5. \A p : RefundsRead(p)' = RefundsRead(p)
  BY DEF RefundsRead
<1>6. Covered => Covered'
  BY <1>4, <1>5 DEF Covered, WellFormed
<1> QED
  BY <1>1, <1>2, <1>4, <1>6

\* What a run has read and mapped of captures, as long as it leaves it alone.
LEMMA BooksStay ==
    ASSUME BooksInv, DiskInv', UNCHANGED <<api, fetched, files, job, runs>>,
           mapped'.capture = mapped.capture,
           pc' = "cover" => at' = 4,
           HasRead' => HasRead \/ Covered,
           pc' \in {"fetch", "cover", "open"} => pc \in {"fetch", "cover", "open"},
           HasRefunds' => HasRefunds, YetToOpen' => YetToOpen, AtCaptures' => AtCaptures
    PROVE  BooksInv'
<1>1. /\ \A f \in {"payments", "refunds"} : ToSet(api'[f]) \subseteq Held(f)
      /\ Sourced'
  BY DEF BooksInv, Sourced
<1>2. HasRead' => Covered'
  <2>1. Covered => Covered'
    BY CoveredKept
  <2> QED
    BY <2>1 DEF BooksInv
<1>3. \A row \in ToSet(mapped'.capture) : CaptureRow(row)'
  <2>1. \A row : CaptureRow(row) => CaptureRow(row)'
    BY DEF CaptureRow, FromRefund, OrderOf
  <2> QED
    BY <2>1 DEF BooksInv
<1>4. HasRefunds' => EveryRefundMapped(mapped.capture)'
  BY DEF BooksInv, EveryRefundMapped
<1>5. NoRefundIsLost'
  BY BooksKept DEF BooksInv
<1>6. /\ pc' \in {"fetch", "cover", "open"} => mapped'.capture = <<>>
      /\ YetToOpen' => files'.capture.by < runs'
      /\ AtCaptures' => ~files'.capture.whole
  BY DEF BooksInv
<1> QED
  BY <1>1, <1>2, <1>3, <1>4, <1>5, <1>6 DEF BooksInv

LEMMA BooksAtStart == Init => BooksInv
<1> SUFFICES ASSUME Init PROVE BooksInv
  OBVIOUS
<1>1. DiskInv
  BY DiskAtStart
<1>2. \A f \in {"payments", "refunds"} : ToSet(api[f]) \subseteq Held(f)
  BY DEF Init, Held
<1>3. ToSet(<<>>) = {}
  BY DEF ToSet
<1>4. Sourced
  <2>1. fetched.payments = <<>> /\ fetched.refunds = <<>>
    BY Names DEF Init
  <2> QED
    BY <1>3, <2>1 DEF Sourced
<1>5. mapped.capture = <<>> /\ job = "none" /\ pc = "idle"
  BY DEF Init, SourceKind
<1>6. NoRefundIsLost
  BY <1>5, OfAnotherRun
<1> QED
  BY <1>1, <1>2, <1>3, <1>4, <1>5, <1>6
     DEF BooksInv, HasRead, HasRefunds, YetToOpen, AtCaptures

\* A page of payments or refunds.
LEMMA BooksRead ==
    ASSUME BooksInv, DiskInv', FetchPage
    PROVE  BooksInv'
<1>0. WellPlaced
  BY DEF BooksInv, DiskInv
<1>1. /\ pc = "fetch" /\ UNCHANGED <<api, files, runs, job, mapped>>
      /\ \/ UNCHANGED <<pc, at>>
         \/ /\ at' = IF FEEDS[at] = "recon" THEN 1 ELSE at + 1
            /\ pc' = IF FEEDS[at] = "refunds" THEN "cover"
                     ELSE IF FEEDS[at] = "recon" THEN "open" ELSE "fetch"
  <2> DEFINE feed == FEEDS[at]
  <2>1. /\ pc = "fetch" /\ UNCHANGED <<api, disk, runs, job, mapped>>
        /\ \/ UNCHANGED <<pc, at>>
           \/ /\ at' = IF feed = "recon" THEN 1 ELSE at + 1
              /\ pc' = IF feed = "refunds" THEN "cover"
                       ELSE IF feed = "recon" THEN "open" ELSE "fetch"
    BY Zenon DEF FetchPage
  <2> QED
    BY <2>1 DEF disk
<1>2. /\ FEEDS[1] = "orders" /\ FEEDS[2] = "payments" /\ FEEDS[3] = "refunds"
      /\ FEEDS[4] = "settlements" /\ FEEDS[5] = "recon"
      /\ at = 1 \/ at = 2 \/ at = 3 \/ at = 4 \/ at = 5
  BY <1>0 DEF FEEDS, WellPlaced, Place
<1>3. PICK rows : /\ fetched' = [fetched EXCEPT ![FEEDS[at]] = rows]
                  /\ ToSet(rows) \subseteq ToSet(fetched[FEEDS[at]])
                        \cup {Served(FEEDS[at], item) : item \in ToSet(api[FEEDS[at]])}
  BY <1>0, FetchedRows
<1>4. DOMAIN fetched = ToSet(FEEDS) /\ {"payments", "refunds"} \subseteq ToSet(FEEDS)
  BY <1>0, Names DEF WellPlaced, Shape
<1>5. Sourced'
  <2>1. \A p \in ToSet(fetched'.payments) : \E item \in Held("payments") :
           p = [item EXCEPT !.refunded = p.refunded, !.back = p.back]
    <3> TAKE p \in ToSet(fetched'.payments)
    <3>1. CASE p \in ToSet(fetched.payments)
      BY <3>1 DEF BooksInv, Sourced
    <3>2. CASE p \notin ToSet(fetched.payments)
      <4>1. FEEDS[at] = "payments"
        BY <1>3, <1>4, <3>2
      <4>2. PICK item \in ToSet(api.payments) : p = Served("payments", item)
        BY <1>3, <1>4, <3>2, <4>1
      <4>3. item \in Held("payments")
        BY <4>2 DEF BooksInv
      <4>4. PICK a, b : p = [item EXCEPT !.refunded = a, !.back = b]
        BY <4>2 DEF Served
      <4>5. DOMAIN item = {"id", "order", "amount", "captured", "flaws", "refunded", "back"}
        BY <4>3, ProviderConstants
      <4>6. p.refunded = a /\ p.back = b
        BY <4>4, <4>5
      <4> QED
        BY <4>3, <4>4, <4>6
    <3> QED
      BY <3>1, <3>2
  <2>2. ToSet(fetched'.refunds) \subseteq Held("refunds")
    <3>1. CASE FEEDS[at] = "refunds"
      <4>1. \A item : Served("refunds", item) = item
        BY DEF Served
      <4>2. ToSet(rows) \subseteq Held("refunds")
        <5>1. ToSet(fetched.refunds) \subseteq Held("refunds")
          BY DEF BooksInv, Sourced
        <5>2. \A item \in ToSet(api.refunds) : Served("refunds", item) \in Held("refunds")
          BY <4>1 DEF BooksInv
        <5> QED
          BY <1>3, <3>1, <5>1, <5>2
      <4> QED
        BY <1>3, <1>4, <3>1, <4>2
    <3>2. CASE FEEDS[at] # "refunds"
      <4>1. fetched'.refunds = fetched.refunds
        BY <1>3, <1>4, <3>2
      <4> QED
        BY <4>1 DEF BooksInv, Sourced
    <3> QED
      BY <3>1, <3>2
  <2> QED
    BY <2>1, <2>2 DEF Sourced
<1>6. HasRead' => Covered'
  <2> SUFFICES ASSUME HasRead' PROVE Covered'
    OBVIOUS
  <2>1. at \in {4, 5}
    BY <1>0, <1>1, <1>2 DEF HasRead, WellPlaced, Place
  <2>2. fetched'.payments = fetched.payments /\ fetched'.refunds = fetched.refunds
    BY <1>2, <1>3, <1>4, <2>1
  <2>3. Covered
    BY <1>1, <2>1 DEF BooksInv, HasRead
  <2> QED
    BY <2>2, <2>3, CoveredKept
<1>7. mapped'.capture = <<>> /\ ToSet(<<>>) = {} /\ files'.capture.by < runs'
  BY <1>1 DEF BooksInv, YetToOpen, ToSet
<1>8. NoRefundIsLost'
  <2>1. runs \in Nat /\ ~(files'.capture.by = runs')
    BY <1>0, <1>1, <1>7, IngestConstants DEF WellPlaced, Place
  <2> QED
    BY <2>1 DEF NoRefundIsLost
<1>9. pc' \in {"fetch", "cover", "open"} /\ (pc' = "cover" => at' = 4)
  BY <1>1, <1>2
<1> QED
  BY <1>1, <1>5, <1>6, <1>7, <1>8, <1>9 DEF BooksInv, HasRefunds, AtCaptures

\* What MapFeed keeps of a feed, row by row.
LEMMA MappedItems ==
    ASSUME WellPlaced, MapFeed
    PROVE  LET feed   == MAPS[at]
               before == ToSet(mapped[Kind(feed)])
               after  == ToSet(mapped'[Kind(feed)])
               keeps(item) == ~Skipped(feed, item) /\ ~Refused(feed, item)
           IN  /\ before \subseteq after
               /\ \A row \in after : row \in before
                     \/ \E item \in ToSet(fetched[feed]) : keeps(item) /\ row = Mapped(feed, item)
               /\ \A item \in ToSet(fetched[feed]) : keeps(item) => Mapped(feed, item) \in after
<1> DEFINE feed == MAPS[at]
           rows == fetched[feed]
           K == DOMAIN rows \ (SkippedAt(feed) \cup RefusedAt(feed))
           picked == Pick(rows, K)
           kept == [i \in 1..Len(picked) |-> Mapped(feed, picked[i])]
           keeps(item) == ~Skipped(feed, item) /\ ~Refused(feed, item)
<1>1. /\ feed \in ToSet(FEEDS) /\ Kind(feed) \in SourceKind
      /\ mapped' = [mapped EXCEPT ![Kind(feed)] = @ \o kept]
  BY Names DEF WellPlaced, Place, MapFeed
<1> HIDE DEF feed
<1>2. /\ IsSequence(rows) /\ IsSequence(mapped[Kind(feed)])
      /\ mapped'[Kind(feed)] = mapped[Kind(feed)] \o kept
  BY <1>1 DEF WellPlaced, Shape
<1>3. /\ Len(rows) \in Nat /\ DOMAIN rows = 1..Len(rows)
      /\ \A i \in 1..Len(rows) : rows[i] \in ToSet(rows)
      /\ \A item \in ToSet(rows) : \E i \in 1..Len(rows) : rows[i] = item
  BY <1>2, SequenceHas
<1>4. K \in SUBSET (1..Len(rows)) /\ \A i \in 1..Len(rows) : i \in K <=> keeps(rows[i])
  BY <1>3 DEF SkippedAt, RefusedAt
<1> HIDE DEF K, rows, keeps
<1>5. /\ IsSequence(picked) /\ Len(picked) = Cardinality(K) /\ Cardinality(K) \in Nat
      /\ \A k \in K : rows[k] \in ToSet(picked)
      /\ \A i \in 1..Cardinality(K) : Nth(K, i) \in K /\ picked[i] = rows[Nth(K, i)]
  <2>1. Len(rows) \in Nat /\ K \in SUBSET (1..Len(rows))
    BY <1>3, <1>4
  <2> HIDE DEF picked
  <2> QED
    BY <2>1, PickedRows DEF picked
<1> HIDE DEF picked
<1>6. IsSequence(kept) /\ Len(kept) = Len(picked) /\ DOMAIN kept = 1..Len(picked)
  BY <1>5, SequenceUpTo
<1>7. \A row \in ToSet(kept) : \E item \in ToSet(rows) : keeps(item) /\ row = Mapped(feed, item)
  <2> TAKE row \in ToSet(kept)
  <2>1. PICK i \in 1..Len(picked) : row = Mapped(feed, picked[i])
    <3>1. PICK i \in DOMAIN kept : row = kept[i]
      BY DEF ToSet
    <3> QED
      BY <1>6, <3>1
  <2>2. Nth(K, i) \in K /\ picked[i] = rows[Nth(K, i)]
    BY <1>5
  <2> QED
    BY <1>3, <1>4, <2>1, <2>2
<1>8. \A item \in ToSet(rows) : keeps(item) => Mapped(feed, item) \in ToSet(kept)
  <2> SUFFICES ASSUME NEW item \in ToSet(rows), keeps(item)
               PROVE  Mapped(feed, item) \in ToSet(kept)
    OBVIOUS
  <2>1. item \in ToSet(picked)
    BY <1>3, <1>4, <1>5
  <2>2. PICK i \in 1..Len(picked) : picked[i] = item
    BY <1>5, <2>1, SequenceHas
  <2>3. i \in DOMAIN kept /\ kept[i] = Mapped(feed, item)
    BY <1>6, <2>2
  <2> QED
    BY <2>3 DEF ToSet
<1> HIDE DEF kept
<1>9. ToSet(mapped'[Kind(feed)]) = ToSet(mapped[Kind(feed)]) \cup ToSet(kept)
  BY <1>2, <1>6, JoinedSequences
<1> QED
  BY <1>7, <1>8, <1>9 DEF feed, rows, keeps

\* The captures mapped of payments and of refunds.
LEMMA BooksMapped ==
    ASSUME BooksInv, DiskInv', MapFeed
    PROVE  BooksInv'
<1>0. WellPlaced
  BY DEF BooksInv, DiskInv
<1>1. /\ pc = "map" /\ at' = at + 1 /\ UNCHANGED <<api, fetched, files, job, runs>>
      /\ pc' = CASE MAPS[at] = "refunds" -> "link" [] MAPS[at] = "settlements" -> "store"
                  [] OTHER -> "map"
      /\ \E kept : mapped' = [mapped EXCEPT ![Kind(MAPS[at])] = @ \o kept]
  BY DEF MapFeed
<1>2. /\ MAPS[1] = "orders" /\ MAPS[2] = "payments" /\ MAPS[3] = "refunds"
      /\ MAPS[4] = "settlements"
      /\ at = 1 \/ at = 2 \/ at = 3 \/ at = 4
  BY <1>0, <1>1 DEF MAPS, WellPlaced, Place
<1>3. CASE at \in {1, 4}
  <2>1. Kind(MAPS[at]) # "capture"
    BY <1>2, <1>3 DEF Kind
  <2>2. mapped'.capture = mapped.capture
    BY <1>0, <1>1, <2>1 DEF WellPlaced, Shape, SourceKind
  <2>3. \/ at = 1 /\ pc' = "map" /\ at' = 2
        \/ at = 4 /\ pc' = "store" /\ at' = 5
    BY <1>1, <1>2, <1>3
  <2> QED
    BY <1>1, <2>2, <2>3, BooksStay DEF HasRead, HasRefunds, YetToOpen, AtCaptures
<1>4. CASE at \in {2, 3}
  <2> DEFINE feed == MAPS[at]
  <2>1. /\ feed \in {"payments", "refunds"} /\ Kind(feed) = "capture"
        /\ (at = 2 <=> feed = "payments")
        /\ \/ at = 2 /\ pc' = "map" /\ at' = 3
           \/ at = 3 /\ pc' = "link" /\ at' = 4
    BY <1>1, <1>2, <1>4 DEF Kind
  <2>2. Covered /\ Sourced /\ NoRefundIsLost /\ files.capture.by < runs
    BY <1>1 DEF BooksInv, HasRead, YetToOpen
  <2>3. /\ \A row \in ToSet(mapped'.capture) : row \in ToSet(mapped.capture)
              \/ \E item \in ToSet(fetched[feed]) :
                    ~Skipped(feed, item) /\ row = Mapped(feed, item)
        /\ \A item \in ToSet(fetched[feed]) : ~Skipped(feed, item) /\ ~Refused(feed, item)
              => Mapped(feed, item) \in ToSet(mapped'.capture)
    BY <1>0, <2>1, MappedItems
  <2> HIDE DEF feed
  <2>4. \A row \in ToSet(mapped'.capture) : CaptureRow(row)
    <3> TAKE row \in ToSet(mapped'.capture)
    <3>1. CASE row \in ToSet(mapped.capture)
      BY <3>1 DEF BooksInv
    <3>2. CASE row \notin ToSet(mapped.capture)
      <4>1. PICK item \in ToSet(fetched[feed]) :
                ~Skipped(feed, item) /\ row = Mapped(feed, item)
        BY <2>3, <3>2
      <4>2. CASE feed = "payments"
        <5>1. row = [id |-> item.id, flaws |-> {}, order |-> item.order,
                     amount |-> item.amount, settlement |-> "none"]
          BY <4>1, <4>2 DEF Mapped
        <5>2. item.captured
          BY <4>1, <4>2 DEF Skipped
        <5> QED
          BY <4>1, <4>2, <5>1, <5>2 DEF CaptureRow, FromPayment
      <4>3. CASE feed = "refunds"
        <5>1. row = [id |-> item.id, flaws |-> {}, order |-> OrderOf(item),
                     amount |-> -item.amount, settlement |-> "none"]
          BY <4>1, <4>3 DEF Mapped
        <5>2. item.processed
          BY <4>1, <4>3 DEF Skipped
        <5> QED
          BY <4>1, <4>3, <5>1, <5>2 DEF CaptureRow, FromRefund
      <4> QED
        BY <2>1, <4>2, <4>3
    <3> QED
      BY <3>1, <3>2
  <2>5. HasRefunds' => EveryRefundMapped(mapped'.capture)
    <3> SUFFICES ASSUME HasRefunds' PROVE EveryRefundMapped(mapped'.capture)
      OBVIOUS
    <3>1. feed = "refunds"
      BY <2>1 DEF HasRefunds
    <3>2. \A item \in ToSet(fetched.refunds) : ~Refused("refunds", item)
      <4>1. IsSequence(fetched.refunds)
        BY <1>0, Names DEF WellPlaced, Shape
      <4> QED
        BY <2>2, <4>1, SequenceHas DEF Covered, WellFormed
    <3>3. \A item \in ToSet(fetched.refunds) : item.processed =>
             /\ Mapped("refunds", item) \in ToSet(mapped'.capture)
             /\ Mapped("refunds", item).id = item.id
      BY <2>3, <3>1, <3>2 DEF Skipped, Mapped
    <3> QED
      BY <3>3 DEF EveryRefundMapped
  <2>6. Sourced' /\ Covered' /\ NoRefundIsLost'
    BY <1>1, <2>2, CoveredKept, BooksKept DEF Sourced
  <2>7. \A row \in ToSet(mapped'.capture) : CaptureRow(row)'
    <3>1. \A row : CaptureRow(row) => CaptureRow(row)'
      BY <1>1 DEF CaptureRow, FromRefund, OrderOf
    <3> QED
      BY <2>4, <3>1
  <2>8. HasRefunds' => EveryRefundMapped(mapped.capture)'
    BY <1>1, <2>5 DEF EveryRefundMapped
  <2> QED
    BY <1>1, <2>1, <2>2, <2>6, <2>7, <2>8 DEF BooksInv, AtCaptures
<1> QED
  BY <1>2, <1>3, <1>4

\* The captures joined to their settlements are the same captures.
LEMMA BooksLinked ==
    ASSUME BooksInv, DiskInv', Link
    PROVE  BooksInv'
<1>0. WellPlaced
  BY DEF BooksInv, DiskInv
<1>1. pc = "link" /\ at = 4 /\ UNCHANGED <<api, fetched, files, job, runs>>
  BY <1>0 DEF Link, GiveUp, disk, WellPlaced, Place
<1>2. CASE GiveUp
  <2>1. mapped' = mapped /\ pc' = "idle"
    BY <1>2 DEF GiveUp
  <2> QED
    BY <1>1, <2>1, BooksStay DEF HasRead, HasRefunds, YetToOpen, AtCaptures
<1>3. CASE ~GiveUp
  <2> DEFINE captures == mapped.capture
             joined == [i \in 1..Len(captures) |->
                          [captures[i] EXCEPT !.settlement = SettlementOf(captures[i])]]
  <2>1. mapped' = [mapped EXCEPT !.capture = joined] /\ pc' = "map" /\ UNCHANGED at
    BY <1>3 DEF Link
  <2>2. mapped'.capture = joined
    BY <1>0, <2>1 DEF WellPlaced, Shape, SourceKind
  <2>3. /\ Len(captures) \in Nat
        /\ \A i \in 1..Len(captures) : captures[i] \in ToSet(captures)
        /\ \A row \in ToSet(captures) : \E i \in 1..Len(captures) : captures[i] = row
    BY <1>0, SequenceHas DEF WellPlaced, Shape, SourceKind
  <2>4. \A row \in ToSet(captures) : CaptureRow(row)
    BY DEF BooksInv
  <2> HIDE DEF captures
  <2>5. ASSUME NEW row \in ToSet(captures), NEW to
        PROVE  CaptureRow([row EXCEPT !.settlement = to])
    <3> DEFINE new == [row EXCEPT !.settlement = to]
    <3>1. CaptureRow(row)
      BY <2>4
    <3>2. /\ DOMAIN row = {"id", "flaws", "order", "amount", "settlement"}
          /\ new.id = row.id /\ new.flaws = row.flaws /\ new.order = row.order
          /\ new.amount = row.amount /\ DOMAIN new = DOMAIN row
      BY <3>1 DEF CaptureRow
    <3> HIDE DEF new
    <3>3. CaptureRow(new)
      BY <3>1, <3>2 DEF CaptureRow, FromPayment, FromRefund
    <3> QED
      BY <3>3 DEF new
  <2>6. \A row \in ToSet(joined) : CaptureRow(row)
    <3> TAKE row \in ToSet(joined)
    <3>1. PICK i \in 1..Len(captures) :
              row = [captures[i] EXCEPT !.settlement = SettlementOf(captures[i])]
      BY DEF ToSet
    <3> QED
      BY <2>3, <2>5, <3>1
  <2>7. \A row \in ToSet(captures) : \E new \in ToSet(joined) : new.id = row.id
    <3> TAKE row \in ToSet(captures)
    <3>1. PICK i \in 1..Len(captures) : captures[i] = row
      BY <2>3
    <3>2. joined[i] = [row EXCEPT !.settlement = SettlementOf(row)]
      BY <3>1
    <3>3. joined[i].id = row.id
      <4>1. DOMAIN row = {"id", "flaws", "order", "amount", "settlement"}
        BY <2>4 DEF CaptureRow
      <4> QED
        BY <3>2, <4>1
    <3> QED
      BY <3>3 DEF ToSet
  <2> HIDE DEF joined
  <2>8. EveryRefundMapped(joined)
    <3>1. EveryRefundMapped(captures)
      BY <1>1 DEF BooksInv, HasRefunds, captures
    <3> QED
      BY <2>7, <3>1 DEF EveryRefundMapped
  <2>9. /\ Covered /\ Sourced /\ NoRefundIsLost /\ files.capture.by < runs
        /\ \A f \in {"payments", "refunds"} : ToSet(api[f]) \subseteq Held(f)
    BY <1>1 DEF BooksInv, HasRead, YetToOpen
  <2>10. Sourced' /\ Covered' /\ NoRefundIsLost'
    BY <1>1, <2>9, CoveredKept, BooksKept DEF Sourced
  <2>11. \A row \in ToSet(mapped'.capture) : CaptureRow(row)'
    <3>1. \A row : CaptureRow(row) => CaptureRow(row)'
      BY <1>1 DEF CaptureRow, FromRefund, OrderOf
    <3> QED
      BY <2>2, <2>6, <3>1
  <2>12. EveryRefundMapped(mapped.capture)'
    BY <1>1, <2>2, <2>8 DEF EveryRefundMapped
  <2> QED
    BY <1>1, <2>1, <2>9, <2>10, <2>11, <2>12 DEF BooksInv, AtCaptures
<1> QED
  BY <1>2, <1>3

\* A run begins.
LEMMA BooksStarted ==
    ASSUME BooksInv, DiskInv', StartIngest \/ StartImport
    PROVE  BooksInv'
<1>0. WellPlaced
  BY DEF BooksInv, DiskInv
<1>1. /\ UNCHANGED <<api, files>> /\ runs' = runs + 1
      /\ \/ job' = "ingest" /\ pc' = "fetch" /\ at' = 1
         \/ job' = "import" /\ pc' \in {"write", "idle"} /\ at' = 3
  BY DEF StartIngest, StartImport, Start, disk
<1>2. fetched'.payments = <<>> /\ fetched'.refunds = <<>> /\ mapped'.capture = <<>>
  BY Names DEF StartIngest, StartImport, Start, SourceKind
<1>3. ToSet(<<>>) = {}
  BY DEF ToSet
<1>4. files'.capture.by < runs'
  BY <1>0, <1>1, IngestConstants DEF BooksInv, DiskInv, WellPlaced, Place, SourceKind
<1>5. NoRefundIsLost'
  <2>1. runs' \in Nat /\ files'.capture.by # runs'
    BY <1>0, <1>1, <1>4, IngestConstants DEF WellPlaced, Place
  <2> QED
    BY <2>1 DEF NoRefundIsLost
<1>6. Sourced'
  BY <1>2, <1>3 DEF Sourced
<1> QED
  BY <1>1, <1>2, <1>3, <1>4, <1>5, <1>6 DEF BooksInv, HasRead, HasRefunds, YetToOpen, AtCaptures

\* A file is opened: that of the captures is not whole until it is filled.
LEMMA BooksOpened ==
    ASSUME BooksInv, DiskInv', WriteFile
    PROVE  BooksInv'
<1> DEFINE s == FILES[at]
<1>0. WellPlaced
  BY DEF BooksInv, DiskInv
<1>1. /\ pc = "write" /\ pc' = "fill" /\ UNCHANGED <<api, fetched, mapped, runs, job, at>>
      /\ files' = [files EXCEPT ![s] = [by |-> runs, rows |-> <<>>, whole |-> FALSE]]
      /\ s \in SourceKind /\ at \in 1..4
  BY <1>0, Names DEF WriteFile, WellPlaced, Place
<1>2. /\ s = "capture" <=> at = 2
      /\ s # "capture" => files'.capture = files.capture
      /\ s = "capture" => ~files'.capture.whole
  <2>1. s = "capture" <=> at = 2
    BY <1>1, FilesAreFour
  <2> HIDE DEF s
  <2> QED
    BY <1>0, <1>1, <2>1 DEF WellPlaced, Shape, SourceKind
<1> HIDE DEF s
<1>3. NoRefundIsLost'
  <2>1. CASE s = "capture"
    BY <1>2, <2>1 DEF NoRefundIsLost
  <2>2. CASE s # "capture"
    <3>1. files'.capture = files.capture /\ UNCHANGED <<job, runs, fetched>>
      BY <1>1, <1>2, <2>2
    <3> QED
      BY <3>1, BooksKept DEF BooksInv
  <2> QED
    BY <2>1, <2>2
<1>4. Sourced' /\ (HasRead' => Covered')
  BY <1>1, CoveredKept DEF BooksInv, Sourced, HasRead
<1>5. \A row \in ToSet(mapped'.capture) : CaptureRow(row)'
  <2>1. \A row : CaptureRow(row) => CaptureRow(row)'
    BY <1>1 DEF CaptureRow, FromRefund, OrderOf
  <2> QED
    BY <1>1, <2>1 DEF BooksInv
<1>6. HasRefunds' => EveryRefundMapped(mapped.capture)'
  BY <1>1 DEF BooksInv, EveryRefundMapped, HasRefunds
<1>7. YetToOpen' => files'.capture.by < runs'
  BY <1>1, <1>2 DEF BooksInv, YetToOpen
<1> QED
  BY <1>1, <1>2, <1>3, <1>4, <1>5, <1>6, <1>7 DEF BooksInv, AtCaptures

\* A file is closed, or left as a kill leaves it.
LEMMA BooksClosed ==
    ASSUME BooksInv, DiskInv', FillFile \/ KilledFilling
    PROVE  BooksInv'
<1> DEFINE s == FILES[at]
<1>0. WellPlaced
  BY DEF BooksInv, DiskInv
<1>1. /\ pc = "fill" /\ UNCHANGED <<api, fetched, mapped, runs, job>>
      /\ s \in SourceKind /\ at \in 1..4
      /\ \/ pc' = "idle"
         \/ pc' = "manifest"
         \/ pc' = "write" /\ at' = at + 1 /\ job = "ingest"
  <2>1. pc = "fill" /\ UNCHANGED <<api, fetched, mapped, runs, job>>
    BY DEF FillFile, KilledFilling, GiveUp
  <2>2. s \in SourceKind /\ at \in 1..4
    BY <1>0, <2>1, Names DEF WellPlaced, Place
  <2>3. job \in {"ingest", "import"}
    BY <1>0, <2>1 DEF WellPlaced, Place
  <2> QED
    BY <2>1, <2>2, <2>3 DEF FillFile, KilledFilling, GiveUp
<1>2. /\ \E rows : \/ files' = [files EXCEPT ![s].rows = rows]
                   \/ /\ files' = [files EXCEPT ![s].rows = rows, ![s].whole = TRUE]
                      /\ rows = AcceptedRows(mapped[s])
  BY DEF FillFile, KilledFilling
<1>3. s = "capture" <=> at = 2
  BY <1>1, FilesAreFour
<1> HIDE DEF s
<1>4. /\ DOMAIN files = SourceKind /\ "capture" \in SourceKind
      /\ DOMAIN files.capture = {"by", "rows", "whole"}
  BY <1>0 DEF WellPlaced, Shape, SourceKind
<1>5. /\ files'.capture.by = files.capture.by
      /\ s # "capture" => files'.capture = files.capture
      /\ s = "capture" => \/ files'.capture.whole = files.capture.whole
                          \/ files'.capture.rows = AcceptedRows(mapped.capture)
  <2>1. PICK rows : \/ files' = [files EXCEPT ![s].rows = rows]
                    \/ /\ files' = [files EXCEPT ![s].rows = rows, ![s].whole = TRUE]
                       /\ rows = AcceptedRows(mapped[s])
    BY <1>2
  <2>2. CASE s = "capture"
    BY <1>4, <2>1, <2>2
  <2>3. CASE s # "capture"
    BY <1>1, <1>4, <2>1, <2>3
  <2> QED
    BY <2>2, <2>3
<1>6. NoRefundIsLost'
  <2>1. CASE s # "capture"
    <3>1. files'.capture = files.capture /\ UNCHANGED <<job, runs, fetched>>
      BY <1>1, <1>5, <2>1
    <3> QED
      BY <3>1, BooksKept DEF BooksInv
  <2>2. CASE s = "capture" /\ job = "ingest"
    <3>1. AtCaptures /\ HasRead /\ HasRefunds
      BY <1>1, <1>3, <2>2 DEF AtCaptures, HasRead, HasRefunds
    <3>2. \/ ~files'.capture.whole
          \/ files'.capture.rows = AcceptedRows(mapped.capture)
      BY <1>5, <2>2, <3>1 DEF BooksInv
    <3>3. CASE ~files'.capture.whole
      BY <3>3 DEF NoRefundIsLost
    <3>4. CASE files'.capture.rows = AcceptedRows(mapped.capture)
      <4>1. /\ Sourced /\ Covered /\ EveryRefundMapped(mapped.capture)
            /\ \A row \in ToSet(mapped.capture) : CaptureRow(row)
        BY <3>1 DEF BooksInv
      <4>2. /\ IsSequence(fetched.payments) /\ IsSequence(fetched.refunds)
            /\ IsSequence(mapped.capture)
        BY <1>0, Names DEF WellPlaced, Shape, SourceKind
      <4> DEFINE rows == files'.capture.rows
      <4>3. \A o : SumFunction([i \in RowsOf(rows, o) |-> rows[i].amount])
                      =< SumFunction([p \in Paid(o) |-> p.amount - p.refunded])
        BY <3>4, <4>1, <4>2, BooksHold
      <4>4. \A o : Paid(o)' = Paid(o)
        BY <1>1 DEF Paid
      <4> QED
        BY <4>3, <4>4 DEF NoRefundIsLost
    <3> QED
      BY <3>2, <3>3, <3>4
  <2>3. CASE s = "capture" /\ job # "ingest"
    BY <1>1, <2>3 DEF NoRefundIsLost
  <2> QED
    BY <2>1, <2>2, <2>3
<1>7. Sourced' /\ (HasRead' => Covered')
  <2>1. HasRead' => HasRead
    BY <1>1 DEF HasRead
  <2> QED
    BY <1>1, <2>1, CoveredKept DEF BooksInv, Sourced
<1>8. \A row \in ToSet(mapped'.capture) : CaptureRow(row)'
  <2>1. \A row : CaptureRow(row) => CaptureRow(row)'
    BY <1>1 DEF CaptureRow, FromRefund, OrderOf
  <2> QED
    BY <1>1, <2>1 DEF BooksInv
<1>9. HasRefunds' => EveryRefundMapped(mapped.capture)'
  <2>1. HasRefunds' => HasRefunds
    BY <1>1 DEF HasRefunds
  <2> QED
    BY <1>1, <2>1 DEF BooksInv, EveryRefundMapped
<1>10. YetToOpen' => files'.capture.by < runs'
  <2>1. YetToOpen' => at = 1 /\ job = "ingest"
    BY <1>1 DEF YetToOpen
  <2> QED
    BY <1>1, <1>5, <2>1 DEF BooksInv, YetToOpen
<1> QED
  BY <1>1, <1>6, <1>7, <1>8, <1>9, <1>10 DEF BooksInv, AtCaptures

\* Something is created, among what is held.
LEMMA BooksArrived ==
    ASSUME BooksInv, DiskInv', Arrives
    PROVE  BooksInv'
<1>0. WellPlaced
  BY DEF BooksInv, DiskInv
<1>1. PICK new \in Incoming : api' = [api EXCEPT ![new[1]] = <<new[2]>> \o @]
  BY DEF Arrives
<1>2. UNCHANGED <<fetched, mapped, files, job, runs, pc, at>>
  BY DEF Arrives, run, disk
<1>3. ASSUME NEW f \in {"payments", "refunds"} PROVE ToSet(api'[f]) \subseteq Held(f)
  <2>1. f \in ToSet(FEEDS) /\ DOMAIN api = ToSet(FEEDS) /\ IsSequence(api[f])
    BY <1>0, Names DEF WellPlaced, Shape
  <2>2. CASE f = new[1]
    <3>1. IsSequence(<<new[2]>>) /\ ToSet(<<new[2]>>) \subseteq {new[2]}
      <4>1. <<new[2]>> \in Seq({new[2]})
        OBVIOUS
      <4> QED
        BY <4>1, SequenceOf
    <3>2. api'[f] = <<new[2]>> \o api[f]
      BY <1>1, <2>1, <2>2
    <3>3. ToSet(api'[f]) = ToSet(<<new[2]>>) \cup ToSet(api[f])
      BY <2>1, <3>1, <3>2, JoinedSequences
    <3>4. new[2] \in Held(f)
      BY <2>2 DEF Held
    <3> QED
      BY <3>1, <3>3, <3>4 DEF BooksInv
  <2>3. CASE f # new[1]
    BY <1>1, <2>1, <2>3 DEF BooksInv
  <2> QED
    BY <2>2, <2>3
<1>4. Sourced' /\ (HasRead' => Covered') /\ NoRefundIsLost'
  BY <1>2, CoveredKept, BooksKept DEF BooksInv, Sourced, HasRead
<1>5. \A row \in ToSet(mapped'.capture) : CaptureRow(row)'
  <2>1. \A row : CaptureRow(row) => CaptureRow(row)'
    BY <1>2 DEF CaptureRow, FromRefund, OrderOf
  <2> QED
    BY <1>2, <2>1 DEF BooksInv
<1>6. HasRefunds' => EveryRefundMapped(mapped.capture)'
  BY <1>2 DEF BooksInv, EveryRefundMapped, HasRefunds
<1> QED
  BY <1>2, <1>3, <1>4, <1>5, <1>6 DEF BooksInv, YetToOpen, AtCaptures

LEMMA BooksStep ==
    ASSUME BooksInv, [Next]_vars
    PROVE  BooksInv'
<1>0. DiskInv' /\ WellPlaced
  BY DiskStep DEF BooksInv, DiskInv
<1>1. CASE Arrives
  BY <1>0, <1>1, BooksArrived
<1>2. CASE StartIngest \/ StartImport
  BY <1>0, <1>2, BooksStarted
<1>3. CASE FetchPage
  BY <1>0, <1>3, BooksRead
<1>4. CASE Cover
  <2>1. /\ pc = "cover" /\ UNCHANGED <<api, fetched, mapped, files, job, runs, at>>
        /\ (pc' = "fetch" /\ Covered) \/ pc' = "idle"
    BY <1>4 DEF Cover, GiveUp, disk
  <2> QED
    BY <1>0, <2>1, BooksStay DEF HasRead, HasRefunds, YetToOpen, AtCaptures
<1>5. CASE OpenStore
  <2>1. /\ pc = "open" /\ UNCHANGED <<api, fetched, mapped, files, job, runs>>
        /\ (pc' = "map" /\ at' = 1) \/ pc' = "idle"
    BY <1>5 DEF OpenStore, Open, GiveUp, disk
  <2> QED
    BY <1>0, <2>1, BooksStay DEF HasRead, HasRefunds, YetToOpen, AtCaptures
<1>6. CASE MapFeed
  BY <1>0, <1>6, BooksMapped
<1>7. CASE Link
  BY <1>0, <1>7, BooksLinked
<1>8. CASE SecondStore
  <2>1. /\ pc = "store" /\ UNCHANGED <<api, fetched, mapped, files, job, runs>>
        /\ (pc' = "write" /\ at' = 1) \/ pc' = "idle"
    BY <1>8 DEF SecondStore, Open, GiveUp, disk
  <2> QED
    BY <1>0, <2>1, BooksStay DEF HasRead, HasRefunds, YetToOpen, AtCaptures
<1>9. CASE WriteFile
  BY <1>0, <1>9, BooksOpened
<1>10. CASE FillFile \/ KilledFilling
  BY <1>0, <1>10, BooksClosed
<1>11. CASE WriteManifest \/ Finish \/ FetchFails \/ Killed \/ KilledJournalling
  <2>1. /\ UNCHANGED <<api, fetched, mapped, files, job, runs>> /\ pc' \in {"idle", "receipt"}
    BY <1>11 DEF WriteManifest, Finish, FetchFails, Killed, KilledJournalling, GiveUp, disk
  <2> QED
    BY <1>0, <2>1, BooksStay DEF HasRead, HasRefunds, YetToOpen, AtCaptures
<1>12. CASE UNCHANGED vars
  <2>1. UNCHANGED <<api, fetched, mapped, files, job, runs, pc, at>>
    BY <1>12 DEF vars, run, disk
  <2> QED
    BY <1>0, <2>1, BooksStay DEF BooksInv, HasRead, HasRefunds, YetToOpen, AtCaptures
<1> QED
  BY <1>1, <1>2, <1>3, <1>4, <1>5, <1>6, <1>7, <1>8, <1>9, <1>10, <1>11, <1>12
     DEF Next, RunStep

\* NoRefundIsLost, for any payments and refunds, created at whatever moment the
\* pages are read, any page size and limit, and any kills: what the captures that
\* ingest_sandbox writes say an order received is no more than the payments it
\* read, less what was returned of them (ensure_refund_coverage, map_payment,
\* map_refund, validate_rows).
THEOREM RefundsAreKept == Spec => []NoRefundIsLost
<1>1. Init => BooksInv
  BY BooksAtStart
<1>2. BooksInv /\ [Next]_vars => BooksInv'
  BY BooksStep
<1>3. BooksInv => NoRefundIsLost
  BY DEF BooksInv
<1> QED
  BY <1>1, <1>2, <1>3, PTL DEF Spec

=============================================================================
