------------------------- MODULE KernStorageProofs --------------------------
(***************************************************************************)
(* The block cache of ext2 agrees with the disk as long as one task uses   *)
(* it and there is memory for every entry.  bc_lookup passes over empty    *)
(* slots and bc_insert stops at the first one, so a table is sound (Table) *)
(* only while no empty slot precedes an entry on the way of its probes:    *)
(* otherwise a block could be put in twice, and an update would change one *)
(* copy.  What a table keeps under bc_lookup, bc_insert, bc_update and the *)
(* eviction is stated and proved for a single table first; the invariant   *)
(* CacheInv of the specification adds the disk and the buffer of the task. *)
(***************************************************************************)
EXTENDS BlockCache, WellFoundedInduction, SequenceTheorems, TLAPS

Entries == {NoEntry} \cup [id : BlockNo, data : Content]

HashTypes == hash \in [BlockNo -> Nat]

TableTypes(c) ==
  /\ c \in [slot : Seq(Entries), used : Int, lru : Seq(Nat)]
  /\ c.lru \in Seq(DOMAIN c.slot)

\* Every entry can be chosen for eviction.
Queued(c) == \A s \in DOMAIN c.slot : Valid(c, s) => \E k \in DOMAIN c.lru : c.lru[k] = s

\* A block has one entry.
Unique(c) ==
  \A s, t \in DOMAIN c.slot :
    Valid(c, s) /\ Valid(c, t) /\ c.slot[s].id = c.slot[t].id => s = t

\* There is no empty slot between the place where an entry's probes begin and
\* the entry, so that bc_insert does not stop short of it.
Reaches(c, b, s) ==
  \E i \in Probes(c) : Probe(c, b, i) = s /\ \A j \in 0 .. i - 1 : Valid(c, Probe(c, b, j))
Reached(c) == \A s \in DOMAIN c.slot : Valid(c, s) => Reaches(c, c.slot[s].id, s)

Table(c) == TableTypes(c) /\ Queued(c) /\ Unique(c) /\ Reached(c)

\* The table d is c with the contents v for the block b, and perhaps without
\* some other entry.
Sets(c, d, b, v) ==
  \A s \in DOMAIN d.slot : Valid(d, s) =>
    IF d.slot[s].id = b THEN d.slot[s].data = v ELSE s \in DOMAIN c.slot /\ d.slot[s] = c.slot[s]

\* How bc_insert writes an entry, counting it or not, into the slot s, and makes
\* it the most recently used.
Stored(c, s, x) == [c.slot EXCEPT ![s] = x]
Requeued(q, s) == Append(RemoveFirst(q, s), s)
Puts(c, s, b, v, d) == d = Put(c, s, b, v) \/ d = [Put(c, s, b, v) EXCEPT !.used = @ + 1]
\* bc_insert and bc_update when there is memory.
Inserts(c, b, v, d) == d = Insert(c, b, v, FALSE)
Updates(c, b, v, d) == d = Update(c, b, v, FALSE)
Entry(b, v) == [id |-> b, data |-> v]
------------------------------------------------------------------------------
\* Division with a remainder, by the solver; the next lemmas need it as a fact.
LEMMA Divides ==
  ASSUME NEW C \in Nat \ {0}, NEW x \in Int
  PROVE  /\ x \div C \in Int /\ x % C \in 0 .. C - 1
         /\ x = C * (x \div C) + (x % C)
OBVIOUS
\* The remainder is determined.
LEMMA ModUnique ==
  ASSUME NEW C \in Nat \ {0}, NEW q \in Int, NEW r \in 0 .. C - 1, NEW x \in Int, x = C * q + r
  PROVE  x % C = r
<1> DEFINE q2 == x \div C  r2 == x % C
<1>1. q2 \in Int /\ r2 \in 0 .. C - 1 /\ x = C * q2 + r2
  BY Divides
<1> HIDE DEF q2, r2
<1>2. C * (q - q2) = r2 - r
  BY <1>1
<1>3. CASE q - q2 >= 1
  <2>1. C * (q - q2) >= C
    BY <1>1, <1>3
  <2> QED
    BY <1>1, <1>2, <2>1
<1>4. CASE q - q2 <= -1
  <2>1. C * (q - q2) <= -C
    BY <1>1, <1>4
  <2> QED
    BY <1>1, <1>2, <2>1
<1>5. CASE q = q2
  BY <1>1, <1>2, <1>5
<1> QED
  BY <1>1, <1>3, <1>4, <1>5 DEF r2
\* The probes, hash + i modulo the capacity, come to every slot.
LEMMA Probed ==
  ASSUME NEW C \in Nat \ {0}, NEW h \in Nat, NEW s \in 0 .. C - 1
  PROVE  \E i \in 0 .. C - 1 : (h + i) % C = s
<1> DEFINE i == (s - h) % C  q == (s - h) \div C
<1>1. i \in 0 .. C - 1 /\ q \in Int /\ s - h = C * q + i
  <2>1. s - h \in Int
    OBVIOUS
  <2> QED
    BY <2>1, Divides
<1> HIDE DEF i, q
<1>2. h + i = C * (-q) + s
  BY <1>1
<1>3. (h + i) % C = s
  <2>1. h + i \in Int /\ -q \in Int
    BY <1>1
  <2> QED
    BY <1>2, <2>1, ModUnique
<1> QED
  BY <1>1, <1>3

\* A non-empty set of naturals has a least element, and Min is it.
LEMMA SmallestOfNats ==
  ASSUME NEW S, S \subseteq Nat, S # {}
  PROVE  Min(S) \in S /\ \A m \in S : Min(S) <= m
<1> DEFINE Less == {ss \in Nat \X Nat : ss[1] < ss[2]}
<1>1. IsWellFoundedOn(Less, Nat)
  BY Zenon, NatLessThanWellFounded DEF OpToRel
<1>2. \A m, n \in Nat : <<m, n>> \in Less <=> m < n
  OBVIOUS
<1> HIDE DEF Less
<1>3. PICK n \in S : \A m \in S : <<m, n>> \notin Less
  BY <1>1, WFMin
<1>4. ASSUME NEW m \in S
      PROVE  n <= m
  <2>1. m \in Nat /\ n \in Nat /\ ~(m < n)
    BY <1>2, <1>3
  <2> QED
    BY <2>1
<1> QED
  BY <1>4, Zenon DEF Min

\* Taking a slot out of the queue leaves the others in it.
LEMMA Removed ==
  ASSUME NEW S, NEW q \in Seq(S), NEW e
  PROVE  /\ RemoveFirst(q, e) \in Seq(S)
         /\ \A i \in DOMAIN q : q[i] # e => \E j \in DOMAIN RemoveFirst(q, e) : RemoveFirst(q, e)[j] = q[i]
<1> DEFINE I == {i \in 1 .. Len(q) : q[i] = e}
<1>1. CASE I = {}
  <2>1. RemoveFirst(q, e) = q
    BY <1>1 DEF RemoveFirst
  <2> QED
    BY <2>1
<1>2. CASE I # {}
  <2> DEFINE k == Min(I)
             A == SubSeq(q, 1, k - 1)
             B == SubSeq(q, k + 1, Len(q))
  <2>1. k \in I
    <3>1. I \subseteq Nat
      OBVIOUS
    <3> HIDE DEF I
    <3> QED
      BY <1>2, <3>1, SmallestOfNats
  <2>2. RemoveFirst(q, e) = A \o B
    BY <1>2, Zenon DEF RemoveFirst, RemoveAt, SelectInSeq
  <2> HIDE DEF k
  <2>3. k \in 1 .. Len(q) /\ q[k] = e
    BY <2>1
  <2>4. /\ A \in Seq(S) /\ Len(A) = k - 1 /\ \A i \in 1 .. k - 1 : A[i] = q[i]
        /\ B \in Seq(S) /\ Len(B) = Len(q) - k /\ \A i \in 1 .. Len(q) - k : B[i] = q[i + k]
    BY <2>3
  <2> HIDE DEF A, B
  <2>5. A \o B \in Seq(S)
    BY <2>4
  <2>6. ASSUME NEW i \in DOMAIN q, q[i] # e
        PROVE  \E j \in DOMAIN (A \o B) : (A \o B)[j] = q[i]
    <3>1. CASE i < k
      <4>1. i \in DOMAIN (A \o B) /\ (A \o B)[i] = q[i]
        BY <2>3, <2>4, <3>1
      <4> QED
        BY <4>1
    <3>2. CASE i > k
      <4>1. i - k \in 1 .. Len(B) /\ (i - k) + k = i
        BY <2>3, <2>4, <3>2
      <4>2. B[i - k] = q[i]
        BY <2>4, <4>1
      <4>3. Len(A \o B) = Len(A) + Len(B) /\ (A \o B)[Len(A) + (i - k)] = B[i - k]
        <5>1. \A x \in 1 .. Len(B) : (A \o B)[Len(A) + x] = B[x]
          BY <2>4
        <5>2. Len(A \o B) = Len(A) + Len(B)
          <6>1. A \in Seq(S) /\ B \in Seq(S)
            BY <2>4
          <6> QED
            BY <6>1, ConcatProperties
        <5>3. \A x \in 1 .. Len(B) : x = i - k => (A \o B)[Len(A) + (i - k)] = B[i - k]
          BY <5>1
        <5> QED
          BY <4>1, <5>2, <5>3
      <4>4. Len(A) + (i - k) \in DOMAIN (A \o B)
        BY <2>4, <2>5, <4>1, <4>3
      <4> QED
        BY <4>2, <4>3, <4>4
    <3> QED
      BY <2>3, <2>6, <3>1, <3>2
  <2> HIDE DEF I
  <2> QED
    BY <2>2, <2>5, <2>6
<1> QED
  BY <1>1, <1>2

\* The probes for a block stay in the table and come to every slot of it.
LEMMA ProbePlaces ==
  ASSUME HashTypes, NEW c, TableTypes(c), NEW b \in BlockNo
  PROVE  /\ \A i \in Probes(c) : Probe(c, b, i) \in DOMAIN c.slot
         /\ \A s \in DOMAIN c.slot : \E i \in Probes(c) : Probe(c, b, i) = s
<1> DEFINE C == Len(c.slot)  h == hash[b]
<1>1. C \in Nat /\ h \in Nat /\ DOMAIN c.slot = 1 .. C
  BY DEF TableTypes, HashTypes
<1>2. Probes(c) = 0 .. C - 1 /\ \A i : Probe(c, b, i) = 1 + ((h + i) % C)
  BY DEF Probes, Probe, Cap
<1> HIDE DEF C, h
<1>3. ASSUME NEW i \in Probes(c)
      PROVE  Probe(c, b, i) \in DOMAIN c.slot
  <2>1. C \in Nat \ {0} /\ h + i \in Int
    BY <1>1, <1>2
  <2>2. (h + i) % C \in 0 .. C - 1
    BY <2>1, Divides
  <2> QED
    BY <1>1, <1>2, <2>2
<1>4. ASSUME NEW s \in DOMAIN c.slot
      PROVE  \E i \in Probes(c) : Probe(c, b, i) = s
  <2>1. C \in Nat \ {0} /\ s - 1 \in 0 .. C - 1
    BY <1>1
  <2>2. PICK i \in 0 .. C - 1 : (h + i) % C = s - 1
    BY <1>1, <2>1, Probed
  <2> QED
    BY <1>1, <1>2, <2>2
<1> QED
  BY <1>3, <1>4

\* bc_lookup finds the entry of a block, if there is one.
LEMMA LookupFinds ==
  ASSUME HashTypes, NEW c, TableTypes(c), NEW b \in BlockNo
  PROVE  \/ Lookup(c, b) = 0 /\ \A s \in DOMAIN c.slot : c.slot[s].id # b
         \/ Lookup(c, b) \in DOMAIN c.slot /\ c.slot[Lookup(c, b)].id = b
<1> DEFINE hits == {i \in Probes(c) : c.slot[Probe(c, b, i)].id = b}
<1>1. CASE hits = {}
  BY <1>1, ProbePlaces DEF Lookup
<1>2. CASE hits # {}
  <2>1. hits \subseteq Nat
    BY DEF Probes, TableTypes, Cap
  <2>2. Lookup(c, b) = Probe(c, b, Min(hits))
    BY <1>2 DEF Lookup
  <2>3. Min(hits) \in hits
    <3> HIDE DEF hits
    <3> QED
      BY <1>2, <2>1, SmallestOfNats
  <2> QED
    BY <2>2, <2>3, ProbePlaces
<1> QED
  BY <1>1, <1>2

\* Marking an entry as used changes no entry.
LEMMA TouchKeeps ==
  ASSUME NEW c, Table(c), NEW s \in DOMAIN c.slot
  PROVE  Table(Touch(c, s)) /\ Touch(c, s).slot = c.slot
<1> DEFINE d == Touch(c, s)
<1>1. c \in [slot : Seq(Entries), used : Int, lru : Seq(Nat)] /\ c.lru \in Seq(DOMAIN c.slot)
  BY DEF Table, TableTypes
<1>2. d.slot = c.slot /\ d.used = c.used /\ d.lru = Requeued(c.lru, s)
  BY <1>1 DEF Touch, Requeued
<1>3. /\ RemoveFirst(c.lru, s) \in Seq(DOMAIN c.slot)
      /\ \A i \in DOMAIN c.lru : c.lru[i] # s =>
           \E j \in DOMAIN RemoveFirst(c.lru, s) : RemoveFirst(c.lru, s)[j] = c.lru[i]
  BY <1>1, Removed
<1>4. TableTypes(d)
  <2>1. d.lru \in Seq(DOMAIN c.slot) /\ DOMAIN c.slot \subseteq Nat
    BY <1>1, <1>2, <1>3 DEF Requeued
  <2>2. d.lru \in Seq(Nat)
    BY <2>1
  <2>3. d \in [slot : Seq(Entries), used : Int, lru : Seq(Nat)]
    BY <1>1, <1>2, <2>2 DEF Touch
  <2> QED
    BY <1>2, <2>1, <2>3 DEF TableTypes
<1> HIDE DEF d
<1>5. Queued(d)
  BY <1>2, <1>3 DEF Table, Queued, Valid, Requeued
<1>6. Unique(d) /\ Reached(d)
  BY <1>2 DEF Table, Unique, Reached, Reaches, Valid, Probes, Probe, Cap
<1> QED
  BY <1>2, <1>4, <1>5, <1>6 DEF Table, d

\* A new entry in the place where bc_insert stops.
LEMMA PutKeeps ==
  ASSUME HashTypes, CacheAssumption, NEW c, Table(c), NEW s \in DOMAIN c.slot, NEW b \in BlockNo, NEW v \in Content,
         Reaches(c, b, s), \A t \in DOMAIN c.slot : Valid(c, t) /\ c.slot[t].id = b => t = s,
         NEW d, TableTypes(d), Queued(d), d.slot = Stored(c, s, Entry(b, v))
  PROVE  Table(d) /\ Sets(c, d, b, v) /\ Cap(d) = Cap(c)
<1>1. /\ c.slot \in Seq(Entries) /\ DOMAIN d.slot = DOMAIN c.slot /\ Cap(d) = Cap(c)
      /\ \A t \in DOMAIN c.slot : d.slot[t] = IF t = s THEN [id |-> b, data |-> v] ELSE c.slot[t]
  BY DEF Table, TableTypes, Cap, Stored, Entry
<1>2. [id |-> b, data |-> v] # NoEntry
  BY DEF CacheAssumption, NoEntry
<1>3. \A t \in DOMAIN c.slot : Valid(d, t) <=> t = s \/ Valid(c, t)
  BY <1>1, <1>2 DEF Valid
<1>4. Probes(d) = Probes(c) /\ \A e, i : Probe(d, e, i) = Probe(c, e, i)
  BY <1>1 DEF Probes, Probe
<1>5. Unique(d)
  BY <1>1, <1>3 DEF Table, Unique
<1>6. ASSUME NEW e \in BlockNo, NEW t \in DOMAIN c.slot, Reaches(c, e, t)
      PROVE  Reaches(d, e, t)
  <2>1. PICK i \in Probes(c) : Probe(c, e, i) = t /\ \A j \in 0 .. i - 1 : Valid(c, Probe(c, e, j))
    BY <1>6 DEF Reaches
  <2>2. \A j \in 0 .. i - 1 : Probe(c, e, j) \in DOMAIN c.slot
    <3>1. \A j \in 0 .. i - 1 : j \in Probes(c)
      BY DEF Probes, Cap, Table, TableTypes
    <3> QED
      BY <3>1, ProbePlaces DEF Table
  <2> QED
    BY <1>3, <1>4, <2>1, <2>2 DEF Reaches
<1>7. \A t \in DOMAIN c.slot : Valid(c, t) => c.slot[t].id \in BlockNo
  BY <1>1 DEF Entries, Valid
<1>8. Reached(d)
  <2>1. ASSUME NEW t \in DOMAIN c.slot, Valid(d, t)
        PROVE  Reaches(d, d.slot[t].id, t)
    <3>1. CASE t = s
      <4>1. d.slot[t] = [id |-> b, data |-> v]
        BY <1>1, <3>1
      <4>2. Reaches(d, b, s)
        BY <1>6
      <4> QED
        BY <3>1, <4>1, <4>2
    <3>2. CASE t # s
      BY <1>1, <1>3, <1>6, <1>7, <2>1, <3>2 DEF Table, Reached
    <3> QED
      BY <3>1, <3>2
  <2> QED
    BY <1>1, <2>1 DEF Reached
<1>9. Sets(c, d, b, v)
  BY <1>1, <1>3 DEF Sets
<1> QED
  BY <1>1, <1>5, <1>8, <1>9 DEF Table

\* Writing an entry into a slot keeps the table a table.
LEMMA StoredSeq ==
  ASSUME NEW E, NEW c, c.slot \in Seq(E), NEW s \in DOMAIN c.slot, NEW x \in E
  PROVE  Stored(c, s, x) \in Seq(E) /\ DOMAIN Stored(c, s, x) = DOMAIN c.slot
<1>1. s \in 1 .. Len(c.slot)
  OBVIOUS
<1> QED
  BY <1>1, ExceptSeq DEF Stored

\* A sequence over a set is one over a larger set.
LEMMA WiderSeq ==
  ASSUME NEW A, NEW B, A \subseteq B, NEW q \in Seq(A)
  PROVE  q \in Seq(B)
<1> QED
  OBVIOUS

\* The fields of a table with a new entry.
LEMMA PutTypes ==
  ASSUME CacheAssumption, NEW c, TableTypes(c), NEW s \in DOMAIN c.slot, NEW b \in BlockNo, NEW v \in Content,
         NEW d, Puts(c, s, b, v, d)
  PROVE  /\ TableTypes(d)
         /\ d.slot = Stored(c, s, Entry(b, v))
         /\ d.lru = Requeued(c.lru, s)
<1>1. c \in [slot : Seq(Entries), used : Int, lru : Seq(Nat)] /\ c.lru \in Seq(DOMAIN c.slot)
  BY DEF TableTypes
<1>2. [id |-> b, data |-> v] \in Entries
  BY DEF Entries
<1> DEFINE S == [c.slot EXCEPT ![s] = [id |-> b, data |-> v]]  L == Append(RemoveFirst(c.lru, s), s)
<1>3. S \in Seq(Entries) /\ DOMAIN S = DOMAIN c.slot /\ DOMAIN S \subseteq Nat
  <2>1. c.slot \in Seq(Entries)
    BY <1>1
  <2> QED
    BY <1>2, <2>1
<1>4. L \in Seq(DOMAIN c.slot)
  BY <1>1, Removed
<1>5. L \in Seq(Nat)
  <2> HIDE DEF L
  <2> QED
    BY <1>3, <1>4, WiderSeq
<1>6. d.slot = S /\ d.lru = L
  BY <1>1 DEF Put, Touch, Puts
<1>7. d \in [slot : Seq(Entries), used : Int, lru : Seq(Nat)]
  <2> HIDE DEF S, L
  <2>1. \A x \in [slot : Seq(Entries), used : Int, lru : Seq(Nat)] :
          /\ [x EXCEPT !.slot = S] \in [slot : Seq(Entries), used : Int, lru : Seq(Nat)]
          /\ [x EXCEPT !.used = @ + 1] \in [slot : Seq(Entries), used : Int, lru : Seq(Nat)]
          /\ [x EXCEPT !.lru = L] \in [slot : Seq(Entries), used : Int, lru : Seq(Nat)]
    BY <1>3, <1>5
  <2>2. Put(c, s, b, v) = [[c EXCEPT !.slot = S] EXCEPT !.lru = L]
    BY <1>1 DEF Put, Touch, S, L
  <2>3. Put(c, s, b, v) \in [slot : Seq(Entries), used : Int, lru : Seq(Nat)]
    BY <1>1, <2>1, <2>2
  <2> QED
    BY <2>1, <2>3 DEF Puts
<1> QED
  BY <1>3, <1>4, <1>6, <1>7 DEF TableTypes, Stored, Requeued, Entry

\* With a new entry, and the slots of the others in the queue q, every entry is
\* in the queue.
LEMMA QueuedWith ==
  ASSUME NEW c, NEW s \in DOMAIN c.slot, NEW q \in Seq(DOMAIN c.slot), NEW x, NEW d,
         d.slot = Stored(c, s, x), d.lru = Requeued(q, s),
         \A t \in DOMAIN c.slot : Valid(c, t) /\ t # s => \E k \in DOMAIN q : q[k] = t
  PROVE  Queued(d)
<1> DEFINE L == RemoveFirst(q, s)
<1>1. L \in Seq(DOMAIN c.slot) /\ \A i \in DOMAIN q : q[i] # s => \E j \in DOMAIN L : L[j] = q[i]
  BY Removed
<1>2. d.lru = Append(L, s) /\ d.slot = [c.slot EXCEPT ![s] = x]
  BY DEF Requeued, Stored
<1> HIDE DEF L
<1>3. ASSUME NEW t \in DOMAIN d.slot, Valid(d, t)
      PROVE  \E k \in DOMAIN d.lru : d.lru[k] = t
  <2>1. CASE t = s
    <3>1. Len(L) + 1 \in DOMAIN d.lru /\ d.lru[Len(L) + 1] = t
      BY <1>1, <1>2, <2>1
    <3> QED
      BY <3>1
  <2>2. CASE t # s
    <3>1. t \in DOMAIN c.slot /\ Valid(c, t)
      BY <1>2, <1>3, <2>2 DEF Valid
    <3>2. PICK k \in DOMAIN q : q[k] = t
      BY <2>2, <3>1
    <3>3. PICK j \in DOMAIN L : L[j] = t
      BY <1>1, <2>2, <3>2
    <3>4. j \in DOMAIN d.lru /\ d.lru[j] = t
      BY <1>1, <1>2, <3>3
    <3> QED
      BY <3>4
  <2> QED
    BY <2>1, <2>2
<1> QED
  BY <1>3 DEF Queued

\* bc_insert, with and without an eviction, keeps a table sound, and sets nothing
\* but the block it is given.
LEMMA InsertKeeps ==
  ASSUME HashTypes, CacheAssumption, NEW c, Table(c), NEW b \in BlockNo, NEW v \in Content, NEW d, Inserts(c, b, v, d)
  PROVE  Table(d) /\ Sets(c, d, b, v) /\ Cap(d) = Cap(c)
<1> DEFINE stops == Stops(c, b)
<1>1. TableTypes(c) /\ Queued(c) /\ Unique(c) /\ Reached(c) /\ c.slot \in Seq(Entries) /\ c.lru \in Seq(DOMAIN c.slot)
  BY DEF Table, TableTypes
<1>2. CASE Cap(c) = 0
  <2>1. d = c
    BY <1>2 DEF Inserts, Insert
  <2>2. DOMAIN c.slot = {}
    BY <1>1, <1>2 DEF Cap
  <2> QED
    BY <2>1, <2>2 DEF Sets
<1>3. CASE Cap(c) # 0 /\ stops # {}
  <2> PICK m, s : m = Min(stops) /\ s = Probe(c, b, m)
    OBVIOUS
  <2>1. m \in stops /\ \A i \in stops : m <= i
    <3>1. stops \subseteq Nat
      BY <1>1 DEF Stops, Probes, Cap
    <3> HIDE DEF stops
    <3> QED
      BY <1>3, <3>1, SmallestOfNats
  <2>2. m \in Probes(c) /\ s \in DOMAIN c.slot /\ (Valid(c, s) => c.slot[s].id = b)
    BY <1>1, <2>1, ProbePlaces DEF Stops
  <2>3. Reaches(c, b, s)
    <3>1. ASSUME NEW j \in 0 .. m - 1
          PROVE  Valid(c, Probe(c, b, j))
      <4>1. j \in Probes(c) /\ ~(m <= j)
        BY <1>1, <2>2 DEF Probes, Cap
      <4> QED
        BY <2>1, <4>1 DEF Stops
    <3> QED
      BY <2>2, <3>1 DEF Reaches
  <2>4. ASSUME NEW t \in DOMAIN c.slot, Valid(c, t), c.slot[t].id = b
        PROVE  t = s
    <3>1. PICK i \in Probes(c) : Probe(c, b, i) = t /\ \A j \in 0 .. i - 1 : Valid(c, Probe(c, b, j))
      BY <1>1, <2>4 DEF Reached, Reaches
    <3>2. i \in stops /\ m <= i /\ m \in Nat /\ i \in Nat
      BY <1>1, <2>1, <2>2, <2>4, <3>1, SMTT(30) DEF Stops, Probes, Cap
    <3>3. CASE m < i
      <4>1. Valid(c, s)
        BY <3>1, <3>2, <3>3
      <4> QED
        BY <1>1, <2>2, <2>4, <4>1 DEF Unique
    <3> QED
      BY <3>1, <3>2, <3>3
  <2>5. Puts(c, s, b, v, d)
    BY <1>3, Zenon DEF Inserts, Insert, Puts
  <2> HIDE DEF stops
  <2>6. /\ TableTypes(d) /\ d.slot = Stored(c, s, Entry(b, v))
        /\ d.lru = Requeued(c.lru, s)
    BY <1>1, <2>2, <2>5, PutTypes
  <2>7. Queued(d)
    <3>1. c.lru \in Seq(DOMAIN c.slot)
      BY <1>1
    <3>2. \A t \in DOMAIN c.slot : Valid(c, t) => \E k \in DOMAIN c.lru : c.lru[k] = t
      BY <1>1 DEF Queued
    <3> QED
      BY <2>2, <2>6, <3>1, <3>2, QueuedWith
  <2> QED
    BY <2>2, <2>3, <2>4, <2>6, <2>7, PutKeeps
<1>4. CASE Cap(c) # 0 /\ stops = {}
  <2> PICK s, e : s = Head(c.lru) /\ e = Evict(c)
    OBVIOUS
  <2>1. \A t \in DOMAIN c.slot : Valid(c, t) /\ c.slot[t].id # b
    BY <1>1, <1>4, ProbePlaces DEF Stops
  <2>2. c.lru # << >>
    <3>1. 1 \in DOMAIN c.slot
      BY <1>1, <1>4 DEF Cap
    <3> QED
      BY <1>1, <2>1, <3>1 DEF Queued
  <2>3. s \in DOMAIN c.slot /\ s = c.lru[1] /\ Tail(c.lru) \in Seq(DOMAIN c.slot)
    <3>1. c.lru \in Seq(DOMAIN c.slot)
      BY <1>1
    <3>2. \A q \in Seq(DOMAIN c.slot) : q # << >> => Head(q) \in DOMAIN c.slot /\ Head(q) = q[1] /\ Tail(q) \in Seq(DOMAIN c.slot)
      OBVIOUS
    <3> QED
      BY <2>2, <3>1, <3>2
  <2>4. /\ TableTypes(e) /\ e.slot = [c.slot EXCEPT ![s] = NoEntry] /\ e.lru = Tail(c.lru)
    <3>1. c \in [slot : Seq(Entries), used : Int, lru : Seq(Nat)]
      BY <1>1 DEF TableTypes
    <3>2. /\ [c.slot EXCEPT ![s] = NoEntry] \in Seq(Entries) /\ Tail(c.lru) \in Seq(Nat)
          /\ DOMAIN [c.slot EXCEPT ![s] = NoEntry] = DOMAIN c.slot
      <4>1. NoEntry \in Entries
        BY DEF Entries
      <4>2. DOMAIN c.slot \subseteq Nat
        BY <1>1
      <4>3. c.slot \in Seq(Entries) /\ Tail(c.lru) \in Seq(DOMAIN c.slot)
        BY <1>1, <2>3
      <4>4. Tail(c.lru) \in Seq(Nat)
        BY <4>2, <4>3, WiderSeq
      <4>5. [c.slot EXCEPT ![s] = NoEntry] \in Seq(Entries) /\ DOMAIN [c.slot EXCEPT ![s] = NoEntry] = DOMAIN c.slot
        BY <2>3, <4>1, <4>3, StoredSeq DEF Stored
      <4> QED
        BY <4>4, <4>5
    <3>3. e.slot = [c.slot EXCEPT ![s] = NoEntry] /\ e.lru = Tail(c.lru)
      BY <3>1 DEF Evict
    <3>4. e \in [slot : Seq(Entries), used : Int, lru : Seq(Nat)]
      <4> DEFINE S == [c.slot EXCEPT ![s] = NoEntry]  L == Tail(c.lru)
      <4>1. e = [[[c EXCEPT !.slot = S] EXCEPT !.used = @ - 1] EXCEPT !.lru = L]
        BY <3>1 DEF Evict
      <4>2. S \in Seq(Entries) /\ L \in Seq(Nat)
        BY <3>2
      <4> HIDE DEF S, L
      <4>3. \A x \in [slot : Seq(Entries), used : Int, lru : Seq(Nat)] :
              /\ [x EXCEPT !.slot = S] \in [slot : Seq(Entries), used : Int, lru : Seq(Nat)]
              /\ [x EXCEPT !.lru = L] \in [slot : Seq(Entries), used : Int, lru : Seq(Nat)]
        BY <4>2
      <4>4. \A x \in [slot : Seq(Entries), used : Int, lru : Seq(Nat)] :
              [x EXCEPT !.used = @ - 1] \in [slot : Seq(Entries), used : Int, lru : Seq(Nat)]
        OBVIOUS
      <4> QED
        BY <3>1, <4>1, <4>3, <4>4
    <3> QED
      BY <2>3, <3>2, <3>3, <3>4 DEF TableTypes
  <2>5. Puts(e, s, b, v, d)
    <3>1. ~Valid(e, s)
      BY <1>1, <2>3, <2>4 DEF Valid
    <3> QED
      BY <1>4, <3>1, Zenon DEF Inserts, Insert, Puts
  <2> HIDE DEF stops
  <2>6. /\ TableTypes(d) /\ d.slot = Stored(e, s, Entry(b, v))
        /\ d.lru = Requeued(Tail(c.lru), s)
    <3>1. s \in DOMAIN e.slot
      BY <2>3, <2>4
    <3> QED
      BY <2>4, <2>5, <3>1, PutTypes
  <2>7. d.slot = Stored(c, s, Entry(b, v))
    BY <1>1, <2>3, <2>4, <2>6 DEF Stored
  <2>8. Queued(d)
    <3>1. ASSUME NEW t \in DOMAIN c.slot, Valid(c, t), t # s
          PROVE  \E k \in DOMAIN Tail(c.lru) : Tail(c.lru)[k] = t
      <4>1. PICK k \in DOMAIN c.lru : c.lru[k] = t
        BY <1>1, <3>1 DEF Queued
      <4>2. k - 1 \in DOMAIN Tail(c.lru) /\ Tail(c.lru)[k - 1] = t
        <5>1. c.lru \in Seq(DOMAIN c.slot) /\ k # 1
          BY <1>1, <2>3, <3>1, <4>1
        <5> QED
          BY <2>2, <4>1, <5>1
      <4> QED
        BY <4>2
    <3>2. PICK q : q = Tail(c.lru)
      OBVIOUS
    <3>3. /\ q \in Seq(DOMAIN c.slot) /\ d.lru = Requeued(q, s)
          /\ \A t \in DOMAIN c.slot : Valid(c, t) /\ t # s => \E k \in DOMAIN q : q[k] = t
      BY <2>3, <2>6, <3>1, <3>2
    <3> QED
      BY <2>3, <2>7, <3>3, QueuedWith
  <2>9. Reaches(c, b, s)
    <3>1. PICK i \in Probes(c) : Probe(c, b, i) = s
      BY <1>1, <2>3, ProbePlaces
    <3>2. ASSUME NEW j \in 0 .. i - 1
          PROVE  Valid(c, Probe(c, b, j))
      <4>1. j \in Probes(c)
        BY <1>1, <3>1 DEF Probes, Cap
      <4> QED
        BY <1>1, <2>1, <4>1, ProbePlaces
    <3> QED
      BY <3>1, <3>2 DEF Reaches
  <2> QED
    BY <2>1, <2>3, <2>6, <2>7, <2>8, <2>9, PutKeeps
<1> QED
  BY <1>2, <1>3, <1>4

\* bc_update keeps a table sound and sets nothing but the block it is given.
LEMMA UpdateKeeps ==
  ASSUME HashTypes, CacheAssumption, NEW c, Table(c), NEW b \in BlockNo, NEW v \in Content, NEW d, Updates(c, b, v, d)
  PROVE  Table(d) /\ Sets(c, d, b, v) /\ Cap(d) = Cap(c)
<1> PICK s : s = Lookup(c, b)
  OBVIOUS
<1>1. TableTypes(c) /\ Queued(c) /\ Unique(c) /\ Reached(c) /\ c.slot \in Seq(Entries) /\ c.lru \in Seq(DOMAIN c.slot)
  BY DEF Table, TableTypes
<1>2. CASE s = 0
  BY <1>2, InsertKeeps DEF Updates, Update, Inserts
<1>3. CASE s # 0
  <2>1. s \in DOMAIN c.slot /\ c.slot[s].id = b
    BY <1>1, <1>3, LookupFinds
  <2>2. Valid(c, s)
    BY <2>1 DEF CacheAssumption, Valid, NoEntry
  <2>3. Puts(c, s, b, v, d)
    BY <1>3 DEF Updates, Update, Puts
  <2>4. /\ TableTypes(d) /\ d.slot = Stored(c, s, Entry(b, v))
        /\ d.lru = Requeued(c.lru, s)
    BY <1>1, <2>1, <2>3, PutTypes
  <2>5. Queued(d)
    <3>1. c.lru \in Seq(DOMAIN c.slot)
      BY <1>1
    <3>2. \A t \in DOMAIN c.slot : Valid(c, t) => \E k \in DOMAIN c.lru : c.lru[k] = t
      BY <1>1 DEF Queued
    <3> QED
      BY <2>1, <2>4, <3>1, <3>2, QueuedWith
  <2>6. Reaches(c, b, s) /\ \A t \in DOMAIN c.slot : Valid(c, t) /\ c.slot[t].id = b => t = s
    BY <1>1, <2>1, <2>2 DEF Reached, Unique
  <2> QED
    BY <2>1, <2>4, <2>5, <2>6, PutKeeps
<1> QED
  BY <1>2, <1>3

\* The recursion over a run of one or two blocks.
LEMMA LookedUpIs ==
  ASSUME NEW c, NEW run, Len(run) = 1 \/ Len(run) = 2
  PROVE  /\ LookedUp(c, run)[0] = c
         /\ LookedUp(c, run)[1] = Used(c, run[1])
         /\ Len(run) = 2 => LookedUp(c, run)[2] = Used(Used(c, run[1]), run[2])
<1> DEFINE Is(f) == f = [i \in 0 .. Len(run) |-> IF i = 0 THEN c ELSE Used(f[i - 1], run[i])]
           g == [i \in 0 .. Len(run) |-> IF i = 0 THEN c ELSE IF i = 1 THEN Used(c, run[1])
                                         ELSE Used(Used(c, run[1]), run[2])]
<1>1. Is(g)
  <2>1. CASE Len(run) = 1
    BY <2>1
  <2>2. CASE Len(run) = 2
    BY <2>2
  <2> QED
    BY <2>1, <2>2
<1>2. LookedUp(c, run) = CHOOSE f : Is(f)
  BY Zenon DEF LookedUp
<1> HIDE DEF g
<1>3. Is(LookedUp(c, run))
  <2> HIDE DEF Is
  <2> QED
    BY <1>1, <1>2, Zenon
<1> HIDE DEF Is
<1>4. \A f : Is(f) => /\ f[0] = c /\ f[1] = Used(c, run[1])
                      /\ Len(run) = 2 => f[2] = Used(Used(c, run[1]), run[2])
  <2>1. CASE Len(run) = 1
    BY <2>1 DEF Is
  <2>2. CASE Len(run) = 2
    BY <2>2 DEF Is
  <2> QED
    BY <2>1, <2>2
<1>5. PICK f : f = LookedUp(c, run)
  OBVIOUS
<1> QED
  BY <1>3, <1>4, <1>5

\* The blocks of a run put into the cache.
LEMMA AllPutIs ==
  ASSUME NEW c, NEW run, NEW nomem, Len(run) = 1 \/ Len(run) = 2
  PROVE  /\ AllPut(c, run, nomem)[1] = Insert(c, run[1].id, run[1].data, nomem[1])
         /\ Len(run) = 2 =>
              AllPut(c, run, nomem)[2] = Insert(AllPut(c, run, nomem)[1], run[2].id, run[2].data, nomem[2])
<1> DEFINE Step(d, i) == Insert(d, run[i].id, run[i].data, nomem[i])
           Is(f) == f = [i \in 0 .. Len(run) |-> IF i = 0 THEN c ELSE Step(f[i - 1], i)]
           g == [i \in 0 .. Len(run) |-> IF i = 0 THEN c ELSE IF i = 1 THEN Step(c, 1)
                                         ELSE Step(Step(c, 1), 2)]
<1>2. AllPut(c, run, nomem) = CHOOSE f : Is(f)
  BY Zenon DEF AllPut
<1> HIDE DEF Step
<1>1. Is(g)
  <2>1. CASE Len(run) = 1
    BY <2>1
  <2>2. CASE Len(run) = 2
    BY <2>2
  <2> QED
    BY <2>1, <2>2
<1> HIDE DEF g
<1>3. Is(AllPut(c, run, nomem))
  <2> HIDE DEF Is
  <2> QED
    BY <1>1, <1>2, Zenon
<1> HIDE DEF Is
<1>4. \A f : Is(f) => f[1] = Step(c, 1) /\ (Len(run) = 2 => f[2] = Step(f[1], 2))
  <2>1. CASE Len(run) = 1
    BY <2>1 DEF Is
  <2>2. CASE Len(run) = 2
    BY <2>2 DEF Is
  <2> QED
    BY <2>1, <2>2
<1>5. PICK f : f = AllPut(c, run, nomem)
  OBVIOUS
<1>6. f[1] = Step(c, 1) /\ (Len(run) = 2 => f[2] = Step(f[1], 2))
  BY <1>3, <1>4, <1>5
<1> QED
  BY <1>5, <1>6, Zenon DEF Step

\* A lookup changes no entry.
LEMMA UsedKeeps ==
  ASSUME HashTypes, NEW c, Table(c), NEW b \in BlockNo
  PROVE  Table(Used(c, b)) /\ Used(c, b).slot = c.slot
<1>1. CASE Lookup(c, b) = 0
  BY <1>1 DEF Used
<1>2. CASE Lookup(c, b) # 0
  <2>1. Lookup(c, b) \in DOMAIN c.slot
    BY <1>2, LookupFinds DEF Table
  <2>2. Used(c, b) = Touch(c, Lookup(c, b))
    BY <1>2 DEF Used
  <2> QED
    BY <2>1, <2>2, TouchKeeps
<1> QED
  BY <1>1, <1>2

\* No lookup of a run changes an entry.
LEMMA RunUsed ==
  ASSUME HashTypes, NEW c, Table(c), NEW run \in Runs, NEW k \in 0 .. Len(run)
  PROVE  Table(LookedUp(c, run)[k]) /\ LookedUp(c, run)[k].slot = c.slot
<1>1. CASE Len(run) = 1
  <2>1. run[1] \in BlockNo /\ (k = 0 \/ k = 1)
    BY <1>1 DEF Runs
  <2>2. LookedUp(c, run)[0] = c /\ LookedUp(c, run)[1] = Used(c, run[1])
    BY <1>1, LookedUpIs
  <2> QED
    BY <2>1, <2>2, UsedKeeps
<1>2. CASE Len(run) = 2
  <2>1. run[1] \in BlockNo /\ run[2] \in BlockNo /\ (k = 0 \/ k = 1 \/ k = 2)
    BY <1>2 DEF Runs
  <2>2. /\ LookedUp(c, run)[0] = c /\ LookedUp(c, run)[1] = Used(c, run[1])
        /\ LookedUp(c, run)[2] = Used(Used(c, run[1]), run[2])
    BY <1>2, LookedUpIs
  <2>3. PICK d : d = Used(c, run[1])
    OBVIOUS
  <2>4. Table(d) /\ d.slot = c.slot
    BY <2>1, <2>3, UsedKeeps
  <2>5. Table(Used(d, run[2])) /\ Used(d, run[2]).slot = c.slot
    BY <2>1, <2>4, UsedKeeps
  <2> QED
    BY <2>1, <2>2, <2>3, <2>4, <2>5
<1> QED
  BY <1>1, <1>2 DEF Runs

\* A table fresh from bc_init is sound and has no entry.
LEMMA Empty ==
  ASSUME NEW cap \in Nat
  PROVE  Table(NewTable(cap)) /\ \A s \in DOMAIN NewTable(cap).slot : ~Valid(NewTable(cap), s)
<1>1. PICK c : c = NewTable(cap)
  OBVIOUS
<1>2. /\ c = [slot |-> [i \in 1 .. cap |-> NoEntry], used |-> 0, lru |-> << >>]
      /\ c.slot = [i \in 1 .. cap |-> NoEntry] /\ c.lru = << >>
  BY <1>1 DEF NewTable
<1>3. \A s \in DOMAIN c.slot : ~Valid(c, s)
  BY <1>2 DEF Valid
<1>4. TableTypes(c)
  <2>1. [i \in 1 .. cap |-> NoEntry] \in Seq(Entries)
    <3>1. NoEntry \in Entries
      BY DEF Entries
    <3> QED
      BY <3>1
  <2>2. << >> \in Seq(Nat) /\ << >> \in Seq(DOMAIN c.slot)
    OBVIOUS
  <2>3. c \in [slot : Seq(Entries), used : Int, lru : Seq(Nat)]
    <3> PICK S : S = [i \in 1 .. cap |-> NoEntry]
      OBVIOUS
    <3>1. S \in Seq(Entries) /\ c = [slot |-> S, used |-> 0, lru |-> << >>]
      BY <1>2, <2>1
    <3> QED
      BY <2>2, <3>1
  <2> QED
    BY <1>2, <2>2, <2>3 DEF TableTypes
<1>5. Queued(c) /\ Unique(c) /\ Reached(c)
  BY <1>3 DEF Queued, Unique, Reached
<1> QED
  BY <1>1, <1>3, <1>4, <1>5 DEF Table

\* So has no table at all.
LEMMA NoTableEmpty == Table(NoTable) /\ DOMAIN NoTable.slot = {}
<1>1. TableTypes(NoTable)
  BY DEF TableTypes, NoTable
<1>2. DOMAIN NoTable.slot = {}
  BY DEF NoTable
<1> QED
  BY <1>1, <1>2 DEF Table, Queued, Unique, Reached

\* The cache agrees with the disk.
Agrees(c) == \A s \in DOMAIN c.slot : Valid(c, s) => c.slot[s].data = disk[c.slot[s].id]

\* Inserting what is on the disk keeps the cache in agreement with it.
LEMMA InsertAgrees ==
  ASSUME HashTypes, CacheAssumption, disk \in [BlockNo -> Content],
         NEW c, Table(c), Agrees(c), NEW b \in BlockNo, NEW d, Inserts(c, b, disk[b], d)
  PROVE  Table(d) /\ Agrees(d)
<1>1. disk[b] \in Content
  OBVIOUS
<1>2. Table(d) /\ Sets(c, d, b, disk[b])
  BY <1>1, InsertKeeps
<1>3. Agrees(d)
  BY <1>2 DEF Agrees, Sets, Valid
<1> QED
  BY <1>2, <1>3
------------------------------------------------------------------------------
(* One task, and memory for every entry *)
Item == [id : BlockNo, data : Content]

CacheTypes ==
  /\ disk \in [BlockNo -> Content] /\ HashTypes /\ g_bc_target \in Nat
  /\ pc \in [User -> {"idle", "fill", "update"}]
  /\ buf \in [User -> Seq(Item)]

\* A buffer to put into the cache holds what is on the disk.
Fetched ==
  \A t \in User :
    /\ pc[t] = "fill" => Len(buf[t]) = 1 \/ Len(buf[t]) = 2
    /\ pc[t] = "update" => Len(buf[t]) = 1
    /\ pc[t] # "idle" => \A i \in DOMAIN buf[t] : buf[t][i].data = disk[buf[t][i].id]

\* Between the write to the disk and the update, the block written may differ.
Written(b) == \E t \in User : pc[t] = "update" /\ buf[t][1].id = b
AgreesBut(c) ==
  \A s \in DOMAIN c.slot : Valid(c, s) =>
    c.slot[s].data = disk[c.slot[s].id] \/ Written(c.slot[s].id)

CacheInv == CacheTypes /\ Fetched /\ Table(bc) /\ AgreesBut(bc)

OneTask == \A t, u \in User : t = u

\* Nothing is cached at first.
LEMMA CacheInitInv ==
  ASSUME CacheAssumption, CacheInit
  PROVE  CacheInv
<1>1. CacheTypes
  BY DEF CacheInit, CacheAssumption, CacheTypes, HashTypes
<1>2. Fetched
  BY DEF CacheInit, Fetched
<1>3. Table(bc) /\ AgreesBut(bc)
  BY NoTableEmpty DEF CacheInit, AgreesBut
<1> QED
  BY <1>1, <1>2, <1>3 DEF CacheInv

\* bc_init
LEMMA ReadyKeeps ==
  ASSUME CacheInv, CacheAssumption, NEW c, NEW nomem, c = Ready(nomem)
  PROVE  /\ Table(c)
         /\ c = bc \/ \A s \in DOMAIN c.slot : ~Valid(c, s)
<1>1. c = bc \/ c = NewTable(g_bc_target)
  BY Zenon DEF Ready
<1>2. g_bc_target \in Nat
  BY DEF CacheInv, CacheTypes
<1> QED
  BY <1>1, <1>2, Empty DEF CacheInv

\* A read from the cache, or from the disk into the buffer of the task.
LEMMA ReadKeeps ==
  ASSUME CacheInv, CacheAssumption, OneTask, NEW t \in User, NEW run \in Runs, NEW nomem \in NoMem, Read(t, run, nomem)
  PROVE  CacheInv'
<1> PICK c : c = Ready(nomem)
  OBVIOUS
<1>1. Table(c) /\ (c = bc \/ \A s \in DOMAIN c.slot : ~Valid(c, s))
  BY ReadyKeeps
<1> PICK missing : missing = {i \in DOMAIN run : Lookup(c, run[i]) = 0}
  OBVIOUS
<1>2. /\ Len(run) = 1 \/ Len(run) = 2 
      /\ DOMAIN run = 1 .. Len(run) /\ \A i \in DOMAIN run : run[i] \in BlockNo
  BY DEF Runs
<1>3. /\ pc[t] = "idle"
      /\ \/ missing = {} /\ bc' = LookedUp(c, run)[Len(run)] /\ pc' = pc /\ buf' = buf
         \/ /\ missing # {} /\ bc' = LookedUp(c, run)[Min(missing) - 1]
            /\ pc' = [pc EXCEPT ![t] = "fill"]
            /\ buf' = [buf EXCEPT ![t] = [i \in DOMAIN run |-> [id |-> run[i], data |-> disk[run[i]]]]]
      /\ disk' = disk /\ hash' = hash /\ g_bc_target' = g_bc_target
  BY DEF Read
<1>4. Table(bc') /\ bc'.slot = c.slot
  <2>1. CASE missing = {}
    <3>1. Len(run) \in 0 .. Len(run) /\ bc' = LookedUp(c, run)[Len(run)]
      BY <1>2, <1>3, <2>1
    <3> QED
      BY <1>1, <3>1, RunUsed DEF CacheInv, CacheTypes
  <2>2. CASE missing # {}
    <3>1. missing \subseteq Nat /\ missing \subseteq 1 .. Len(run)
      BY <1>2
    <3>2. Min(missing) \in missing
      BY <2>2, <3>1, SmallestOfNats
    <3>3. Min(missing) - 1 \in 0 .. Len(run) /\ bc' = LookedUp(c, run)[Min(missing) - 1]
      BY <1>2, <1>3, <2>2, <3>1, <3>2
    <3> QED
      BY <1>1, <3>3, RunUsed DEF CacheInv, CacheTypes
  <2> QED
    BY <2>1, <2>2
<1>5. CacheTypes'
  <2>1. \A i \in DOMAIN run : [id |-> run[i], data |-> disk[run[i]]] \in Item
    BY <1>2 DEF CacheInv, CacheTypes, Item
  <2>2. [i \in DOMAIN run |-> [id |-> run[i], data |-> disk[run[i]]]] \in Seq(Item)
    BY <1>2, <2>1
  <2> QED
    BY <1>3, <2>2 DEF CacheInv, CacheTypes, HashTypes
<1>6. Fetched'
  <2>1. CASE missing = {}
    BY <1>3, <2>1 DEF CacheInv, Fetched
  <2>2. CASE missing # {}
    <3> PICK q : q = [i \in DOMAIN run |-> [id |-> run[i], data |-> disk[run[i]]]]
      OBVIOUS
    <3>1. /\ Len(q) = 1 \/ Len(q) = 2
          /\ \A i \in DOMAIN q : q[i].data = disk[q[i].id]
      BY <1>2
    <3>2. buf' = [buf EXCEPT ![t] = q] /\ pc' = [pc EXCEPT ![t] = "fill"] /\ disk' = disk
      BY <1>3, <2>2
    <3> QED
      BY <3>1, <3>2 DEF CacheInv, CacheTypes, Fetched
  <2> QED
    BY <2>1, <2>2
<1>7. ASSUME NEW b, Written(b)
      PROVE  FALSE
  BY <1>3, <1>7 DEF Written, OneTask
<1>8. AgreesBut(bc)'
  BY <1>1, <1>3, <1>4, <1>7 DEF CacheInv, AgreesBut, Valid
<1>9. Table(bc)'
  BY <1>3, <1>4, SMTT(30) DEF Table, TableTypes, Queued, Unique, Reached, Reaches, Valid, Probe, Probes, Cap
<1> QED
  BY <1>5, <1>6, <1>8, <1>9 DEF CacheInv

\* After a read.
LEMMA FillKeeps ==
  ASSUME CacheInv, CacheAssumption, OneTask, OOM = FALSE, NEW t \in User, Fill(t)
  PROVE  CacheInv'
<1> PICK q : q = buf[t]
  OBVIOUS
<1>1. PICK nomem \in [DOMAIN q -> NoMem] :
        bc' = IF Len(q) = 1 \/ Len(q) <= Cap(bc) THEN AllPut(bc, q, nomem)[Len(q)] ELSE bc
  BY DEF Fill
<1>2. /\ pc[t] = "fill" /\ pc' = [pc EXCEPT ![t] = "idle"] /\ buf' = [buf EXCEPT ![t] = << >>]
      /\ disk' = disk /\ hash' = hash /\ g_bc_target' = g_bc_target
  BY DEF Fill
<1>3. /\ q \in Seq(Item) /\ (Len(q) = 1 \/ Len(q) = 2)
      /\ \A i \in DOMAIN q : q[i].data = disk[q[i].id]
  BY <1>2 DEF CacheInv, CacheTypes, Fetched
<1>4. \A i \in DOMAIN q : q[i].id \in BlockNo /\ nomem[i] = FALSE
  <2>1. \A i \in DOMAIN q : q[i].id \in BlockNo
    <3>1. \A i \in DOMAIN q : q[i] \in Item
      BY <1>3
    <3> QED
      BY <3>1 DEF Item
  <2>2. NoMem = {FALSE}
    BY Zenon DEF NoMem
  <2>3. \A i \in DOMAIN q : nomem[i] \in {FALSE}
    BY <2>2
  <2> QED
    BY <2>1, <2>3
<1>5. Table(bc) /\ Agrees(bc)
  <2>1. \A b : ~Written(b)
    BY <1>2 DEF Written, OneTask
  <2> QED
    BY <2>1 DEF CacheInv, AgreesBut, Agrees
<1>6. HashTypes /\ disk \in [BlockNo -> Content]
  BY DEF CacheInv, CacheTypes
<1>7. Table(bc') /\ Agrees(bc')
  <2> PICK d : d = AllPut(bc, q, nomem)[1]
    OBVIOUS
  <2>1. d = Insert(bc, q[1].id, q[1].data, nomem[1])
    BY <1>3, AllPutIs
  <2>2. 1 \in DOMAIN q
    BY <1>3
  <2>3. Inserts(bc, q[1].id, disk[q[1].id], d)
    BY <1>3, <1>4, <2>1, <2>2, Zenon DEF Inserts
  <2>4. Table(d) /\ Agrees(d)
    BY <1>4, <1>5, <1>6, <2>2, <2>3, InsertAgrees
  <2>5. CASE Len(q) = 1
    BY <1>1, <2>4, <2>5
  <2>6. CASE Len(q) = 2
    <3> PICK e : e = AllPut(bc, q, nomem)[2]
      OBVIOUS
    <3>1. e = Insert(d, q[2].id, q[2].data, nomem[2])
      BY <1>3, <2>6, AllPutIs
    <3>2. 2 \in DOMAIN q
      BY <1>3, <2>6
    <3>3. Inserts(d, q[2].id, disk[q[2].id], e)
      BY <1>3, <1>4, <3>1, <3>2, Zenon DEF Inserts
    <3>4. Table(e) /\ Agrees(e)
      BY <1>4, <1>6, <2>4, <3>2, <3>3, InsertAgrees
    <3> QED
      BY <1>1, <1>5, <2>6, <3>4
  <2> QED
    BY <1>3, <2>5, <2>6
<1>8. CacheTypes'
  BY <1>2 DEF CacheInv, CacheTypes, HashTypes
<1>9. Fetched'
  BY <1>2 DEF CacheInv, CacheTypes, Fetched
<1>10. AgreesBut(bc)'
  BY <1>2, <1>7 DEF AgreesBut, Agrees, Valid
<1>11. Table(bc)'
  BY <1>2, <1>7 DEF Table, TableTypes, Queued, Unique, Reached, Reaches, Valid, Probe, Probes, Cap
<1> QED
  BY <1>8, <1>9, <1>10, <1>11 DEF CacheInv

\* The disk is written: the block may differ until the update.
LEMMA WriteDiskKeeps ==
  ASSUME CacheInv, CacheAssumption, OneTask, NEW t \in User, NEW b \in BlockNo, NEW v \in Content, WriteDisk(t, b, v)
  PROVE  CacheInv'
<1>1. /\ pc[t] = "idle" /\ disk' = [disk EXCEPT ![b] = v] /\ pc' = [pc EXCEPT ![t] = "update"]
      /\ hash' = hash /\ bc' = bc /\ g_bc_target' = g_bc_target
  BY DEF WriteDisk
<1> PICK q : q = <<[id |-> b, data |-> v]>>
  OBVIOUS
<1>2. buf' = [buf EXCEPT ![t] = q]
  BY DEF WriteDisk
<1>3. q \in Seq(Item) /\ Len(q) = 1 /\ q[1].id = b /\ q[1].data = v
  <2>1. [id |-> b, data |-> v] \in Item
    BY DEF Item
  <2> QED
    BY <2>1
<1>4. CacheTypes'
  BY <1>1, <1>2, <1>3 DEF CacheInv, CacheTypes, HashTypes
<1>5. Fetched'
  <2>1. buf'[t] = q /\ pc'[t] = "update" /\ disk'[b] = v
    BY <1>1, <1>2 DEF CacheInv, CacheTypes
  <2>2. \A i \in DOMAIN q : q[i].data = disk'[q[i].id]
    BY <1>3, <2>1
  <2>3. \A u \in User : u = t
    BY DEF OneTask
  <2> QED
    BY <1>3, <2>1, <2>2, <2>3 DEF Fetched
<1>6. AgreesBut(bc)'
  <2>1. buf'[t][1].id = b /\ pc'[t] = "update"
    BY <1>1, <1>2, <1>3 DEF CacheInv, CacheTypes
  <2>2. Written(b)'
    BY <2>1 DEF Written
  <2>3. \A e : ~Written(e)
    BY <1>1 DEF Written, OneTask
  <2>4. ASSUME NEW s \in DOMAIN bc.slot, Valid(bc, s), bc.slot[s].id # b
        PROVE  bc.slot[s].data = disk'[bc.slot[s].id]
    <3>1. bc.slot[s].data = disk[bc.slot[s].id]
      BY <2>3, <2>4 DEF CacheInv, AgreesBut
    <3>2. bc.slot[s].id \in BlockNo
      BY <2>4 DEF CacheInv, Table, TableTypes, Valid, Entries
    <3> QED
      BY <1>1, <2>4, <3>1, <3>2 DEF CacheInv, CacheTypes
  <2>5. \A s \in DOMAIN bc.slot : bc.slot[s].id = b => Written(bc.slot[s].id)'
    BY <1>1, <2>1 DEF Written
  <2> QED
    BY <1>1, <2>4, <2>5 DEF AgreesBut, Valid
<1>7. Table(bc)'
  BY <1>1 DEF CacheInv, Table, TableTypes, Queued, Unique, Reached, Reaches, Valid, Probe, Probes, Cap
<1> QED
  BY <1>4, <1>5, <1>6, <1>7 DEF CacheInv

\* The update sets the block that may differ.
LEMMA WriteUpdateKeeps ==
  ASSUME CacheInv, CacheAssumption, OneTask, OOM = FALSE, NEW t \in User, WriteUpdate(t)
  PROVE  CacheInv'
<1> PICK b, v : b = buf[t][1].id /\ v = buf[t][1].data
  OBVIOUS
<1>1. /\ pc[t] = "update" /\ pc' = [pc EXCEPT ![t] = "idle"] /\ buf' = [buf EXCEPT ![t] = << >>]
      /\ disk' = disk /\ hash' = hash /\ g_bc_target' = g_bc_target
  BY DEF WriteUpdate
<1>2. (bc' = bc /\ bc = NoTable) \/ Updates(bc, b, v, bc')
  <2>1. PICK nomem \in NoMem : bc' = IF bc = NoTable THEN bc ELSE Update(bc, b, v, nomem)
    BY DEF WriteUpdate
  <2>2. nomem = FALSE
    BY Zenon DEF NoMem
  <2> QED
    BY <2>1, <2>2, Zenon DEF Updates
<1>3. b \in BlockNo /\ v \in Content /\ v = disk[b]
  <2>1. buf[t] \in Seq(Item) /\ Len(buf[t]) = 1 /\ \A i \in DOMAIN buf[t] : buf[t][i].data = disk[buf[t][i].id]
    BY <1>1 DEF CacheInv, CacheTypes, Fetched
  <2>2. 1 \in DOMAIN buf[t] /\ buf[t][1] \in Item
    BY <2>1
  <2> QED
    BY <2>1, <2>2 DEF Item
<1>4. \A e : Written(e) => e = b
  BY DEF Written, OneTask
<1>5. Table(bc') /\ Agrees(bc')
  <2>1. CASE bc' = bc /\ bc = NoTable
    BY <2>1, NoTableEmpty DEF Agrees
  <2>2. CASE Updates(bc, b, v, bc')
    <3>1. Table(bc) /\ HashTypes
      BY DEF CacheInv, CacheTypes
    <3>2. Table(bc') /\ Sets(bc, bc', b, v)
      BY <1>3, <2>2, <3>1, UpdateKeeps
    <3>3. Agrees(bc')
      BY <1>3, <1>4, <3>2 DEF CacheInv, AgreesBut, Agrees, Sets, Valid
    <3> QED
      BY <3>2, <3>3
  <2> QED
    BY <1>2, <2>1, <2>2
<1>6. CacheTypes'
  BY <1>1 DEF CacheInv, CacheTypes, HashTypes
<1>7. Fetched'
  BY <1>1 DEF CacheInv, CacheTypes, Fetched
<1>8. AgreesBut(bc)'
  BY <1>1, <1>5 DEF AgreesBut, Agrees, Valid
<1>9. Table(bc)'
  BY <1>1, <1>5 DEF Table, TableTypes, Queued, Unique, Reached, Reaches, Valid, Probe, Probes, Cap
<1> QED
  BY <1>6, <1>7, <1>8, <1>9 DEF CacheInv

\* Resizing drops every entry.
LEMMA SetCapacityKeeps ==
  ASSUME CacheInv, CacheAssumption, NEW t \in User, NEW cap \in Caps, SetCapacity(t, cap)
  PROVE  CacheInv'
<1>1. /\ g_bc_target' = cap /\ (bc' = NoTable \/ bc' = NewTable(cap))
      /\ disk' = disk /\ hash' = hash /\ pc' = pc /\ buf' = buf
  BY DEF SetCapacity
<1>2. cap \in Nat
  BY DEF CacheAssumption
<1>3. Table(bc') /\ \A s \in DOMAIN bc'.slot : ~Valid(bc', s)
  BY <1>1, <1>2, Empty, NoTableEmpty
<1>4. CacheTypes' /\ Fetched'
  BY <1>1, <1>2 DEF CacheInv, CacheTypes, HashTypes, Fetched
<1>5. AgreesBut(bc)'
  BY <1>3 DEF AgreesBut, Valid
<1>6. Table(bc)'
  BY <1>1, <1>3 DEF Table, TableTypes, Queued, Unique, Reached, Reaches, Valid, Probe, Probes, Cap
<1> QED
  BY <1>4, <1>5, <1>6 DEF CacheInv

\* With one task that uses the file system, and memory for every entry, a block
\* in the cache is what is on the disk whenever the task is not inside a read or
\* a write: nothing ext2_read_block returns is older than the last
\* ext2_write_block.  With two tasks it is not so.
THEOREM OneTaskCoherent ==
  ASSUME CacheAssumption, OneTask, OOM = FALSE
  PROVE  CacheSpec => []CacheCoherent
<1>1. CacheInit => CacheInv
  BY CacheInitInv
<1>2. CacheInv /\ [CacheNext]_cacheVars => CacheInv'
  <2> SUFFICES ASSUME CacheInv, [CacheNext]_cacheVars
               PROVE  CacheInv'
    OBVIOUS
  <2>1. CASE UNCHANGED cacheVars
    BY <2>1 DEF cacheVars, CacheInv, CacheTypes, HashTypes, Fetched, AgreesBut, Written,
                Table, TableTypes, Queued, Unique, Reached, Reaches, Valid, Probe, Probes, Cap
  <2>2. CASE CacheNext
    BY <2>2, ReadKeeps, FillKeeps, WriteDiskKeeps, WriteUpdateKeeps, SetCapacityKeeps DEF CacheNext
  <2> QED
    BY <2>1, <2>2
<1>3. CacheInv => CacheCoherent
  BY DEF CacheInv, AgreesBut, Written, CacheCoherent
<1> QED
  BY <1>1, <1>2, <1>3, PTL DEF CacheSpec
==============================================================================
