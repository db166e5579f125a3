---------------------------- MODULE KernWmProofs -----------------------------
(***************************************************************************)
(* Proofs about the window manager and its terminals, for any number of    *)
(* both, every size of the ring of keys, any number of keys, and window    *)
(* managers one after the other.                                           *)
(*                                                                         *)
(* The desk: windows, terminals and the spawn under way agree on the rings *)
(* (RingsAgree, SpawnInv), which a spawn that failed or that was left by   *)
(* another window manager does not disturb, since at most one is queued,   *)
(* and one window has the focus (FocusInv, HasFocus).                      *)
(*                                                                         *)
(* The keys, on top of that: the window manager knows the end of every     *)
(* ring but the one it is publishing in (TodoInv); what was published in a *)
(* ring is what its terminal has taken and what waits (OrderInv), unless   *)
(* the ring was filled to the last cell; and a terminal that is told of    *)
(* nothing new has read what there is to read, as far as it got in its     *)
(* round (SeenInv), since every size and key that is written is followed   *)
(* by a signal.                                                            *)
(***************************************************************************)
EXTENDS KernWm, SequenceTheorems, WellFoundedInduction, TLAPS

(* Sequences *)

\* A non-empty set of naturals has a least element, and Min is it.
LEMMA SmallestOfNats ==
  ASSUME NEW S, S \subseteq Nat, S # {}
  PROVE  Min(S) \in S /\ \A m \in S : Min(S) <= m
<1> DEFINE Less == {ss \in Nat \X Nat : ss[1] < ss[2]}
<1>1. IsWellFoundedOn(Less, Nat)
  BY Zenon, NatLessThanWellFounded DEF OpToRel
<1>2. \A m, n \in Nat : <<m, n>> \in Less <=> m < n
  OBVIOUS
<1> HIDE DEF Less
<1>3. PICK n \in S : \A m \in S : <<m, n>> \notin Less
  BY <1>1, WFMin
<1>4. ASSUME NEW m \in S
      PROVE  n <= m
  <2>1. m \in Nat /\ n \in Nat /\ ~(m < n)
    BY <1>2, <1>3
  <2> QED
    BY <2>1
<1> QED
  BY <1>4, Zenon DEF Min

\* The pieces of a sequence of sequences are in the flat one, and nothing else is.
Piece(F, p, o) == \A k \in DOMAIN p : o + k \in DOMAIN F /\ F[o + k] = p[k]
Pieces(F, q, m) ==
  /\ \A i \in 1 .. m : \E o \in Nat : Piece(F, q[i], o)
  /\ \A j \in DOMAIN F : \E i \in 1 .. m, o \in Nat : Piece(F, q[i], o) /\ j - o \in DOMAIN q[i]

\* A sequence is the only piece of itself.
LEMMA OnePiece ==
  ASSUME NEW S, NEW p \in Seq(S), NEW q, p = q[1]
  PROVE  Pieces(p, q, 1)
<1>1. Piece(p, q[1], 0)
  BY DEF Piece
<1>2. \A j \in DOMAIN p : j - 0 \in DOMAIN p
  OBVIOUS
<1> QED
  BY <1>1, <1>2 DEF Pieces

\* With another piece at the end.
LEMMA OneMorePiece ==
  ASSUME NEW S, NEW F \in Seq(S), NEW p \in Seq(S), NEW q, NEW m \in Nat, Pieces(F, q, m), p = q[m + 1]
  PROVE  F \o p \in Seq(S) /\ Pieces(F \o p, q, m + 1)
<1> PICK G : G = F \o p
  OBVIOUS
<1>1. G \in Seq(S) /\ Len(G) = Len(F) + Len(p) /\ DOMAIN G = 1 .. Len(F) + Len(p)
  OBVIOUS
<1>2. Len(F) \in Nat /\ Len(p) \in Nat /\ DOMAIN F = 1 .. Len(F) /\ DOMAIN p = 1 .. Len(p)
  OBVIOUS
<1>3. (\A k \in 1 .. Len(F) : G[k] = F[k]) /\ \A k \in 1 .. Len(p) : G[Len(F) + k] = p[k]
  OBVIOUS
<1>4. Piece(G, q[m + 1], Len(F))
  BY <1>1, <1>2, <1>3 DEF Piece
<1>5. ASSUME NEW i, NEW o \in Nat, Piece(F, q[i], o)
      PROVE  Piece(G, q[i], o)
  BY <1>1, <1>2, <1>3, <1>5 DEF Piece
<1>6. ASSUME NEW i \in 1 .. m + 1
      PROVE  \E o \in Nat : Piece(G, q[i], o)
  <2>1. CASE i = m + 1
    BY <1>2, <1>4, <2>1
  <2>2. CASE i # m + 1
    <3>1. i \in 1 .. m
      BY <2>2
    <3> QED
      BY <1>5, <3>1 DEF Pieces
  <2> QED
    BY <2>1, <2>2
<1>7. ASSUME NEW j \in DOMAIN G
      PROVE  \E i \in 1 .. m + 1, o \in Nat : Piece(G, q[i], o) /\ j - o \in DOMAIN q[i]
  <2>1. CASE j <= Len(F)
    <3>1. j \in DOMAIN F
      BY <1>1, <1>2, <2>1
    <3>2. PICK i \in 1 .. m, o \in Nat : Piece(F, q[i], o) /\ j - o \in DOMAIN q[i]
      BY <3>1 DEF Pieces
    <3>3. i \in 1 .. m + 1 /\ Piece(G, q[i], o)
      BY <1>5, <3>2
    <3> QED
      BY <3>2, <3>3
  <2>2. CASE j > Len(F)
    <3>1. j - Len(F) \in DOMAIN q[m + 1] /\ m + 1 \in 1 .. m + 1
      BY <1>1, <1>2, <2>2
    <3> QED
      BY <1>2, <1>4, <3>1
  <2> QED
    BY <1>1, <1>2, <2>1, <2>2
<1> QED
  BY <1>1, <1>6, <1>7 DEF Pieces

\* The recursion over the pieces.
Joined(f, q, i) == IF i = 1 THEN q[i] ELSE f[i - 1] \o q[i]
IsFlat(f, q, m) == f = [i \in 1 .. m |-> Joined(f, q, i)]

\* FlattenSeq joins the pieces: by a least place at which the recursion over
\* them would be undefined, or wrong.
LEMMA FlattenIs ==
  ASSUME NEW S, NEW q \in Seq(Seq(S))
  PROVE  FlattenSeq(q) \in Seq(S) /\ Pieces(FlattenSeq(q), q, Len(q))
<1>00. PICK n : n = Len(q)
  OBVIOUS
<1> DEFINE T == {m \in 1 .. n : ~\E f : IsFlat(f, q, m)}
<1>0. n \in Nat
  BY <1>00
<1>01. \A i \in 1 .. n : q[i] \in Seq(S)
  BY <1>00
<1>1. T = {}
  <2> SUFFICES ASSUME T # {} PROVE FALSE
    OBVIOUS
  <2>1. PICK m \in T : \A k \in T : m <= k
    <3>1. T \subseteq Nat
      BY <1>0
    <3> HIDE DEF T
    <3> QED
      BY <3>1, SmallestOfNats
  <2>2. m \in 1 .. n /\ ~\E f : IsFlat(f, q, m)
    OBVIOUS
  <2>3. CASE m = 1
    <3>1. IsFlat([i \in 1 .. 1 |-> q[1]], q, 1)
      BY DEF IsFlat, Joined
    <3> QED
      BY <2>2, <2>3, <3>1
  <2>4. CASE m # 1
    <3>1. m - 1 \in 1 .. n /\ m - 1 \notin T
      BY <1>0, <2>1, <2>2, <2>4
    <3>2. PICK f : IsFlat(f, q, m - 1)
      BY <3>1
    <3> DEFINE g == [i \in 1 .. m |-> IF i < m THEN f[i] ELSE Joined(f, q, m)]
    <3>3. m \in Nat /\ m > 1
      BY <1>0, <2>2, <2>4
    <3>4. \A i \in 1 .. m - 1 : f[i] = Joined(f, q, i)
      BY <3>2, <3>3 DEF IsFlat
    <3>5. \A i \in 1 .. m : g[i] = Joined(g, q, i)
      <4> SUFFICES ASSUME NEW i \in 1 .. m PROVE g[i] = Joined(g, q, i)
        OBVIOUS
      <4>1. CASE i < m
        <5>1. i \in 1 .. m - 1 /\ g[i] = f[i] /\ (i # 1 => g[i - 1] = f[i - 1])
          BY <3>3, <4>1
        <5> HIDE DEF g
        <5> QED
          BY <3>4, <5>1 DEF Joined
      <4>2. CASE i = m
        <5>1. g[i - 1] = f[i - 1] /\ g[i] = Joined(f, q, m)
          BY <3>3, <4>2
        <5> HIDE DEF g
        <5> QED
          BY <3>3, <4>2, <5>1 DEF Joined
      <4> QED
        BY <3>3, <4>1, <4>2
    <3>6. IsFlat(g, q, m)
      BY <3>5 DEF IsFlat
    <3> HIDE DEF g
    <3> QED
      BY <2>2, <3>6
  <2> QED
    BY <2>3, <2>4
<1>2. CASE n = 0
  <2>1. q = <<>>
    BY <1>00, <1>2, EmptySeq
  <2>2. FlattenSeq(q) = <<>>
    BY <2>1 DEF FlattenSeq
  <2> QED
    BY <1>00, <1>2, <2>2 DEF Pieces
<1>3. CASE n # 0
  <2>1. \E f : IsFlat(f, q, n)
    <3>1. n \in 1 .. n
      BY <1>0, <1>3
    <3>2. n \notin T
      <4> HIDE DEF T
      <4> QED
        BY <1>1
    <3> QED
      BY <3>1, <3>2
  <2> PICK h : h = CHOOSE f : IsFlat(f, q, n)
    OBVIOUS
  <2>2. FlattenSeq(q) = h[n]
    BY <1>00, <1>3, Zenon DEF FlattenSeq, IsFlat, Joined
  <2>3. IsFlat(h, q, n)
    <3> QED
      BY <2>1, Zenon
  <2>4. \A i \in 1 .. n : h[i] = Joined(h, q, i)
    BY <2>3 DEF IsFlat
  <2> DEFINE U == {m \in 1 .. n : ~(h[m] \in Seq(S) /\ Pieces(h[m], q, m))}
  <2>5. U = {}
    <3> SUFFICES ASSUME U # {} PROVE FALSE
      OBVIOUS
    <3>1. PICK m \in U : \A k \in U : m <= k
      <4>1. U \subseteq Nat
        BY <1>0
      <4> HIDE DEF U
      <4> QED
        BY <4>1, SmallestOfNats
    <3>2. CASE m = 1
      BY <1>01, <1>0, <1>3, <2>4, <3>2, OnePiece DEF Joined
    <3>3. CASE m # 1
      <4>1. m - 1 \in 1 .. n /\ m - 1 \notin U /\ m = (m - 1) + 1 /\ m - 1 \in Nat
        BY <1>0, <3>1, <3>3
      <4>2. h[m - 1] \in Seq(S) /\ Pieces(h[m - 1], q, m - 1) /\ h[m] = h[m - 1] \o q[m] /\ q[m] \in Seq(S)
        BY <1>01, <1>0, <2>4, <3>3, <4>1 DEF Joined
      <4>3. PICK l, F, p : l = m - 1 /\ F = h[l] /\ p = q[m]
        OBVIOUS
      <4>4. F \o p \in Seq(S) /\ Pieces(F \o p, q, l + 1)
        BY <4>1, <4>2, <4>3, OneMorePiece
      <4> QED
        BY <4>1, <4>2, <4>3, <4>4
    <3> QED
      BY <3>2, <3>3
  <2> QED
    BY <1>00, <1>0, <1>3, <2>2, <2>5
<1> QED
  BY <1>2, <1>3
------------------------------------------------------------------------------
(* The desk *)

Sigs == {"key", "close"}
Letters == Typed \cup {"none"}
Places == {"none", "start", "init1", "init2", "round", "size1", "size2", "keys", "wait", "gone"}
RingRecs == [tail : Cells, keys : [Cells -> Letters], geo : [1 .. 2 -> Nat], wm : BOOLEAN]
TermRecs == [at : Places, ring : Nat, sig : SUBSET Sigs, head : Cells, tail : Cells,
             geo : [1 .. 2 -> Nat], drawn : Nat]
WindowRecs == [term : TermIds, focused : BOOLEAN, ring : Nat, tail : Cells]

\* The calls the window manager may have to make when there are n rings.
Calls(n) ==
  {Signal(t, s) : t \in TermIds, s \in Sigs}
  \cup {WriteKey(r, x, k) : r \in 1 .. n, x \in Cells, k \in Typed}
  \cup {WriteTail(r, x) : r \in 1 .. n, x \in Cells}
  \cup {WriteGeo(r, p, m) : r \in 1 .. n, p \in 1 .. 2, m \in Nat}

WmTypes ==
  /\ rings \in Seq(RingRecs) /\ terms \in [TermIds -> TermRecs]
  /\ windows \in Seq(WindowRecs) /\ focused_idx \in 0 .. Len(windows)
  /\ g_spawn_queue \in Seq(Nat) /\ pending_shm \in Nat
  /\ wm \in {"dequeue", "poll"} /\ taken \in [TermIds -> Seq(Letters)]
  /\ todo \in Seq(Calls(Len(rings)))

\* The windows, the terminals and the spawns agree on the rings.
RingsAgree ==
  /\ \A t \in TermIds : terms[t].ring \in 0 .. Len(rings)
  /\ \A t, u \in TermIds : terms[t].ring = terms[u].ring /\ terms[t].ring # 0 => t = u
  /\ \A t \in TermIds : terms[t].at = "none" => terms[t].ring = 0
  /\ \A i \in DOMAIN windows :
       /\ terms[windows[i].term].at # "none"
       /\ windows[i].ring # 0 => windows[i].ring = terms[windows[i].term].ring /\ rings[windows[i].ring].wm
  /\ \A i, j \in DOMAIN windows : windows[i].term = windows[j].term => i = j

FocusInv == \A i \in DOMAIN windows : windows[i].focused <=> i = focused_idx
HasFocus == windows # <<>> => focused_idx # 0

\* No more than one spawn is on its way, and it is the one pending, if any is.
SpawnInv ==
  /\ Len(g_spawn_queue) <= 1
  /\ wm = "poll" => g_spawn_queue = <<>>
  /\ g_spawn_queue # <<>> =>
       /\ Len(windows) < MaxWindows
       /\ Head(g_spawn_queue) \in 0 .. Len(rings)
       /\ \A t \in TermIds : Head(g_spawn_queue) # 0 => terms[t].ring # Head(g_spawn_queue)
       /\ pending_shm # 0 => pending_shm = Head(g_spawn_queue) /\ rings[pending_shm].wm

\* What a terminal has of its ring at each place.
TermsInv ==
  \A t \in TermIds :
    /\ terms[t].at \in {"none", "start"} => terms[t].head = 0 /\ terms[t].tail = 0 /\ taken[t] = <<>>
    /\ terms[t].at \in {"size1", "size2", "keys"} => terms[t].ring # 0
    /\ terms[t].ring = 0 => terms[t].head = terms[t].tail

DeskInv == WmTypes /\ TermsInv /\ RingsAgree /\ FocusInv /\ HasFocus /\ SpawnInv

\* The invariant implies the property.
LEMMA DeskAgrees == DeskInv => WindowsAgree
<1> SUFFICES ASSUME DeskInv PROVE WindowsAgree
  OBVIOUS
<1>1. windows \in Seq(WindowRecs) /\ focused_idx \in 0 .. Len(windows) /\ DOMAIN windows = 1 .. Len(windows)
      /\ Len(windows) \in Nat
  BY DEF DeskInv, WmTypes
<1>2. {i \in DOMAIN windows : windows[i].focused} = {focused_idx} \ {0}
  BY <1>1 DEF DeskInv, FocusInv
<1>3. windows = <<>> <=> focused_idx = 0
  BY <1>1 DEF DeskInv, HasFocus
<1>4. ASSUME NEW i \in DOMAIN windows, windows[i].ring # 0
      PROVE  /\ terms[windows[i].term].ring = windows[i].ring
             /\ \A j \in DOMAIN windows \ {i} : windows[j].ring # windows[i].ring
  <2>1. \A j \in DOMAIN windows : windows[j].term \in TermIds
    <3>1. \A j \in DOMAIN windows : windows[j] \in WindowRecs
      BY <1>1
    <3> QED
      BY <3>1 DEF WindowRecs
  <2> QED
    BY <1>4, <2>1 DEF DeskInv, RingsAgree
<1> QED
  BY <1>2, <1>3, <1>4 DEF WindowsAgree

\* At the start there is neither window nor terminal.
LEMMA WmInitDesk == ASSUME WmAssumption PROVE WmInit => DeskInv
<1> SUFFICES ASSUME WmInit PROVE DeskInv
  OBVIOUS
<1>1. 0 \in Cells
  BY DEF WmAssumption, Cells
<1>2. NoTerm \in TermRecs
  <2>1. <<0, 0>> \in [1 .. 2 -> Nat]
    OBVIOUS
  <2> QED
    BY <1>1, <2>1 DEF NoTerm, TermRecs, Places
<1>3. WmTypes
  BY <1>2 DEF WmInit, WmTypes
<1>4. RingsAgree /\ TermsInv
  BY DEF WmInit, RingsAgree, TermsInv, NoTerm
<1> QED
  BY <1>3, <1>4 DEF WmInit, DeskInv, FocusInv, HasFocus, SpawnInv

\* What a step may do to a record.
LEMMA RingStays ==
  ASSUME NEW g \in RingRecs
  PROVE  /\ \A c \in Cells, k \in Letters : [g EXCEPT !.keys[c] = k] \in RingRecs /\ [g EXCEPT !.keys[c] = k].wm = g.wm
         /\ \A c \in Cells : [g EXCEPT !.tail = c] \in RingRecs /\ [g EXCEPT !.tail = c].wm = g.wm
         /\ \A p \in 1 .. 2, n \in Nat : [g EXCEPT !.geo[p] = n] \in RingRecs /\ [g EXCEPT !.geo[p] = n].wm = g.wm
         /\ \A b \in BOOLEAN : [g EXCEPT !.wm = b] \in RingRecs
  BY DEF RingRecs

Has(g, a, r, x, y) == g \in TermRecs /\ g.at = a /\ g.ring = r /\ g.head = x /\ g.tail = y

\* Nor is there more to a terminal than its record.
LEMMA TermStays ==
  ASSUME NEW g \in TermRecs, NEW a \in Places
  PROVE  /\ \A s \in SUBSET Sigs : Has([g EXCEPT !.sig = s, !.at = a], a, g.ring, g.head, g.tail)
         /\ \A s \in SUBSET Sigs : Has([g EXCEPT !.sig = s], g.at, g.ring, g.head, g.tail)
         /\ \A c \in Cells : Has([g EXCEPT !.head = c], g.at, g.ring, c, g.tail)
         /\ Has([g EXCEPT !.at = a], a, g.ring, g.head, g.tail)
         /\ \A c \in Cells : Has([g EXCEPT !.at = a, !.tail = c], a, g.ring, g.head, c)
         /\ \A r \in Nat : Has([g EXCEPT !.at = a, !.ring = r], a, r, g.head, g.tail)
         /\ \A n \in Nat : Has([g EXCEPT !.at = a, !.drawn = n], a, g.ring, g.head, g.tail)
         /\ \A p \in 1 .. 2, n \in Nat : Has([g EXCEPT !.at = a, !.geo[p] = n], a, g.ring, g.head, g.tail)
  BY DEF TermRecs, Has

\* Steps that leave the windows alone, and the rings where they are.
LEMMA TermsMove ==
  ASSUME DeskInv, WmTypes', TermsInv',
         UNCHANGED <<windows, focused_idx, pending_shm, g_spawn_queue, wm>>,
         Len(rings') = Len(rings), \A r \in DOMAIN rings : rings'[r].wm = rings[r].wm,
         \A t \in TermIds :
           /\ terms'[t].at = "none" <=> terms[t].at = "none"
           /\ \/ terms'[t].ring = terms[t].ring
              \/ terms'[t].ring = 0 /\ terms[t].ring # 0 /\ ~rings[terms[t].ring].wm
  PROVE  DeskInv'
<1>1. windows \in Seq(WindowRecs) /\ Len(rings) \in Nat /\ DOMAIN rings = 1 .. Len(rings)
  BY DEF DeskInv, WmTypes
<1>2. \A j \in DOMAIN windows : windows[j].term \in TermIds
  <2>1. \A j \in DOMAIN windows : windows[j] \in WindowRecs
    BY <1>1
  <2> QED
    BY <2>1 DEF WindowRecs
<1>3. RingsAgree'
  <2>1. \A t \in TermIds : terms'[t].ring \in 0 .. Len(rings')
    BY <1>1 DEF DeskInv, RingsAgree
  <2>2. \A t, u \in TermIds : terms'[t].ring = terms'[u].ring /\ terms'[t].ring # 0 => t = u
    BY <1>1 DEF DeskInv, RingsAgree
  <2>3. \A t \in TermIds : terms'[t].at = "none" => terms'[t].ring = 0
    BY <1>1 DEF DeskInv, RingsAgree
  <2>4. ASSUME NEW i \in DOMAIN windows
        PROVE  /\ terms'[windows[i].term].at # "none"
               /\ windows[i].ring # 0 => windows[i].ring = terms'[windows[i].term].ring /\ rings'[windows[i].ring].wm
    <3>1. windows[i].term \in TermIds
      BY <1>2
    <3>2. windows[i].ring # 0 => windows[i].ring \in DOMAIN rings
      BY <1>1, <3>1 DEF DeskInv, RingsAgree
    <3> QED
      BY <1>1, <3>1, <3>2 DEF DeskInv, RingsAgree
  <2> QED
    BY <2>1, <2>2, <2>3, <2>4 DEF DeskInv, RingsAgree
<1>4. SpawnInv'
  <2> SUFFICES ASSUME g_spawn_queue # <<>>
               PROVE  /\ Head(g_spawn_queue) \in 0 .. Len(rings')
                      /\ \A t \in TermIds : Head(g_spawn_queue) # 0 => terms'[t].ring # Head(g_spawn_queue)
                      /\ pending_shm # 0 => pending_shm = Head(g_spawn_queue) /\ rings'[pending_shm].wm
    BY DEF DeskInv, SpawnInv
  <2> QED
    BY <1>1 DEF DeskInv, SpawnInv
<1> QED
  BY <1>3, <1>4 DEF DeskInv, FocusInv, HasFocus

\* Steps that leave the terminals and rings alone, and the windows to them.
LEMMA WindowsMove ==
  ASSUME DeskInv, WmTypes', UNCHANGED <<rings, terms>>, Len(windows') = Len(windows),
         \A i \in DOMAIN windows : windows'[i].term = windows[i].term /\ windows'[i].ring = windows[i].ring
  PROVE  RingsAgree'
<1>1. DOMAIN windows' = DOMAIN windows
  BY DEF DeskInv, WmTypes
<1> QED
  BY <1>1 DEF DeskInv, RingsAgree

\* Making one of the calls.
LEMMA CallKeepsTypes ==
  ASSUME WmAssumption, WmTypes, DoCall
  PROVE  /\ WmTypes' /\ Len(rings') = Len(rings) /\ (TermsInv => TermsInv')
         /\ \A r \in DOMAIN rings : rings'[r].wm = rings[r].wm
         /\ \A t \in TermIds : terms'[t].at = terms[t].at /\ terms'[t].ring = terms[t].ring
<1> PICK c : c = Head(todo)
  OBVIOUS
<1> PICK n : n = Len(rings)
  OBVIOUS
<1>1. n \in Nat /\ DOMAIN rings = 1 .. n /\ \A r \in 1 .. n : rings[r] \in RingRecs
  BY DEF WmTypes
<1>2. todo # <<>> /\ todo' = Tail(todo) /\ todo \in Seq(Calls(n))
  BY DEF WmTypes, DoCall
<1>3. c \in Calls(n) /\ todo' \in Seq(Calls(n))
  BY <1>2
<1>4. terms \in [TermIds -> TermRecs] /\ \A t \in TermIds : terms[t] \in TermRecs /\ terms[t].sig \in SUBSET Sigs
  BY DEF WmTypes, TermRecs
<1>5. CASE c.op = "signal"
  <2>1. PICK t \in TermIds, s \in Sigs : c = Signal(t, s)
    BY <1>3, <1>5 DEF Calls, Signal, WriteKey, WriteTail, WriteGeo
  <2>2. c.term = t /\ c.sig = s
    BY <2>1 DEF Signal
  <2>3. rings' = rings /\ terms' = IF Alive(t) THEN [terms EXCEPT ![t].sig = @ \cup {s}] ELSE terms
    BY <1>5, <2>2 DEF DoCall
  <2>4. [terms[t] EXCEPT !.sig = terms[t].sig \cup {s}] \in TermRecs
    <3>1. "gone" \in Places
      BY DEF Places
    <3>2. terms[t] \in TermRecs /\ terms[t].sig \cup {s} \in SUBSET Sigs
      BY <1>4
    <3>3. Has([terms[t] EXCEPT !.sig = terms[t].sig \cup {s}], terms[t].at, terms[t].ring, terms[t].head, terms[t].tail)
      BY <3>1, <3>2, TermStays
    <3> QED
      BY <3>3 DEF Has
  <2>5. terms' \in [TermIds -> TermRecs]
    BY <1>4, <2>3, <2>4
  <2>6. \A u \in TermIds : /\ terms'[u].at = terms[u].at /\ terms'[u].ring = terms[u].ring
                           /\ terms'[u].head = terms[u].head /\ terms'[u].tail = terms[u].tail
    BY <1>4, <2>3
  <2>7. TermsInv => TermsInv'
    BY <2>6 DEF DoCall, TermsInv
  <2> QED
    BY <1>1, <1>3, <2>3, <2>5, <2>6, <2>7 DEF WmTypes, DoCall, desk
<1>6. ASSUME c.op # "signal"
      PROVE  terms' = terms /\ rings' \in Seq(RingRecs) /\ Len(rings') = n /\ \A r \in 1 .. n : rings'[r].wm = rings[r].wm
  <2> PICK r, g : r \in 1 .. n /\ g \in RingRecs /\ rings' = [rings EXCEPT ![r] = g] /\ g.wm = rings[r].wm
    <3>1. CASE c.op = "key"
      <4>1. PICK r \in 1 .. n, x \in Cells, k \in Typed : c = WriteKey(r, x, k)
        BY <1>3, <3>1 DEF Calls, Signal, WriteKey, WriteTail, WriteGeo
      <4>2. c.ring = r /\ c.cell = x /\ c.key = k /\ k \in Letters
        BY <4>1 DEF WriteKey, Letters
      <4>3. rings' = [rings EXCEPT ![r] = [rings[r] EXCEPT !.keys[x] = k]]
        BY <3>1, <4>2 DEF DoCall
      <4> PICK g : g = [rings[r] EXCEPT !.keys[x] = k]
        OBVIOUS
      <4>4. g \in RingRecs /\ g.wm = rings[r].wm
        BY <1>1, <4>1, <4>2, RingStays
      <4> QED
        BY <4>3, <4>4
    <3>2. CASE c.op = "tail"
      <4>1. PICK r \in 1 .. n, x \in Cells : c = WriteTail(r, x)
        BY <1>3, <3>2 DEF Calls, Signal, WriteKey, WriteTail, WriteGeo
      <4>2. c.ring = r /\ c.cell = x
        BY <4>1 DEF WriteTail
      <4>3. rings' = [rings EXCEPT ![r] = [rings[r] EXCEPT !.tail = x]]
        BY <3>2, <4>2 DEF DoCall
      <4> PICK g : g = [rings[r] EXCEPT !.tail = x]
        OBVIOUS
      <4>4. g \in RingRecs /\ g.wm = rings[r].wm
        BY <1>1, <4>1, <4>2, RingStays
      <4> QED
        BY <4>3, <4>4
    <3>3. CASE c.op = "geo"
      <4>1. PICK r \in 1 .. n, p \in 1 .. 2, m \in Nat : c = WriteGeo(r, p, m)
        BY <1>3, <3>3 DEF Calls, Signal, WriteKey, WriteTail, WriteGeo
      <4>2. c.ring = r /\ c.part = p /\ c.n = m
        BY <4>1 DEF WriteGeo
      <4>3. rings' = [rings EXCEPT ![r] = [rings[r] EXCEPT !.geo[p] = m]]
        BY <3>3, <4>2 DEF DoCall
      <4> PICK g : g = [rings[r] EXCEPT !.geo[p] = m]
        OBVIOUS
      <4>4. g \in RingRecs /\ g.wm = rings[r].wm
        BY <1>1, <4>1, <4>2, RingStays
      <4> QED
        BY <4>3, <4>4
    <3> QED
      BY <1>6, <3>1, <3>2, <3>3 DEF DoCall
  <2>1. terms' = terms
    BY <1>6 DEF DoCall
  <2>2. rings \in Seq(RingRecs)
    BY DEF WmTypes
  <2> QED
    BY <1>1, <2>1, <2>2
<1>7. CASE c.op # "signal"
  <2>1. taken' = taken
    BY DEF DoCall
  <2>2. TermsInv => TermsInv'
    BY <1>6, <1>7, <2>1 DEF TermsInv
  <2> QED
    BY <1>1, <1>3, <1>6, <1>7, <2>2 DEF WmTypes, DoCall, desk
<1> QED
  BY <1>5, <1>7

\* DoCall: a call writes into a page or leaves a signal.
LEMMA CallKeepsDesk == ASSUME WmAssumption, DeskInv, DoCall PROVE DeskInv'
<1>1. WmTypes /\ TermsInv
  BY DEF DeskInv
<1> QED
  BY <1>1, CallKeepsTypes, TermsMove DEF DoCall, desk

\* A step of one terminal.
LEMMA TermChanges ==
  ASSUME WmAssumption, DeskInv, NEW t \in TermIds, NEW h, NEW q \in Seq(Letters),
         NEW a, NEW r, NEW x, NEW y, Has(h, a, r, x, y),
         terms' = [terms EXCEPT ![t] = h], taken' = [taken EXCEPT ![t] = q], TermVars(t),
         terms[t].at # "none", a \notin {"none", "start"},
         a \in {"size1", "size2", "keys"} => r # 0,
         r = 0 => x = y,
         r = terms[t].ring \/ (r = 0 /\ terms[t].ring # 0 /\ ~rings[terms[t].ring].wm)
  PROVE  DeskInv'
<1> PICK g : g = h /\ g \in TermRecs /\ g.at = a /\ g.ring = r /\ g.head = x /\ g.tail = y
  BY DEF Has
<1>1. WmTypes /\ TermsInv
  BY DEF DeskInv
<1>2. terms \in [TermIds -> TermRecs] /\ taken \in [TermIds -> Seq(Letters)]
  BY <1>1 DEF WmTypes
<1>3. terms' \in [TermIds -> TermRecs] /\ taken' \in [TermIds -> Seq(Letters)]
  BY <1>2
<1>4. WmTypes'
  BY <1>1, <1>3 DEF WmTypes, TermVars, desk
<1>5. \A u \in TermIds \ {t} : terms'[u] = terms[u] /\ taken'[u] = taken[u]
  BY <1>2
<1>6. terms'[t] = g
  BY <1>2
<1>7. TermsInv'
  BY <1>1, <1>5, <1>6 DEF TermsInv
<1>8. \A u \in TermIds :
        /\ terms'[u].at = "none" <=> terms[u].at = "none"
        /\ \/ terms'[u].ring = terms[u].ring
           \/ terms'[u].ring = 0 /\ terms[u].ring # 0 /\ ~rings[terms[u].ring].wm
  BY <1>5, <1>6
<1>9. UNCHANGED <<windows, focused_idx, pending_shm, g_spawn_queue, wm, rings>>
  BY DEF TermVars, desk
<1> QED
  BY <1>4, <1>7, <1>8, <1>9, TermsMove

\* Every step of a terminal is such a change.
LEMMA TermKeepsDesk ==
  ASSUME WmAssumption, DeskInv, NEW t \in TermIds, TermStep(t) \/ TermKilled(t)
  PROVE  DeskInv'
<1> PICK g, q : g = terms[t] /\ q = taken[t]
  OBVIOUS
<1>1. g \in TermRecs /\ q \in Seq(Letters) /\ terms \in [TermIds -> TermRecs] /\ taken = [taken EXCEPT ![t] = q]
  BY DEF DeskInv, WmTypes
<1>2. g.ring = 0 => g.head = g.tail
  BY DEF DeskInv, TermsInv
<1>3. g.at \in {"size1", "size2", "keys"} => g.ring # 0
  BY DEF DeskInv, TermsInv
<1>4. g.ring # 0 => rings[g.ring] \in RingRecs
  BY DEF DeskInv, WmTypes, RingsAgree
<1>5. CASE TermStart(t)
  <2> PICK r, h : r = (IF g.ring # 0 /\ rings[g.ring].wm THEN g.ring ELSE 0) /\ h = [g EXCEPT !.at = "init1", !.ring = r]
    OBVIOUS
  <2>1. r \in Nat
    BY <1>1 DEF TermRecs
  <2>2. Has(h, "init1", r, g.head, g.tail)
    BY <1>1, <2>1, TermStays DEF Places
  <2>3. terms' = [terms EXCEPT ![t] = h] /\ g.at = "start" /\ TermVars(t) /\ taken' = taken
    BY <1>5 DEF TermStart, TermAt
  <2>4. g.head = g.tail
    BY <2>3 DEF DeskInv, TermsInv
  <2>5. r = g.ring \/ (r = 0 /\ g.ring # 0 /\ ~rings[g.ring].wm)
    OBVIOUS
  <2>6. terms[t].at # "none" /\ taken' = [taken EXCEPT ![t] = q]
    BY <1>1, <2>3
  <2>7. "init1" \notin {"none", "start"} /\ "init1" \notin {"size1", "size2", "keys"}
    OBVIOUS
  <2> QED
    BY <2>7, <1>1, <2>2, <2>3, <2>4, <2>5, <2>6, TermChanges
<1>6. CASE ReadSize(t)
  <2>8. PICK p, a : p = (IF g.at \in {"init1", "size1"} THEN 1 ELSE 2) /\ a = Then[g.at]
    OBVIOUS
  <2>9. PICK m : m = IF g.ring = 0 THEN g.geo[p] ELSE rings[g.ring].geo[p]
    OBVIOUS
  <2>0. PICK h : h = [g EXCEPT !.at = a, !.geo[p] = m]
    OBVIOUS
  <2>1. terms' = [terms EXCEPT ![t] = h] /\ TermVars(t) /\ taken' = taken /\ g.at \in {"init1", "init2", "size1", "size2"}
    BY <1>6, <2>8, <2>9, <2>0 DEF ReadSize, Then
  <2>2. /\ a \in Places /\ a \notin {"none", "start"}
        /\ a \in {"size1", "size2", "keys"} => g.at \in {"size1", "size2", "keys"}
    BY <2>1, <2>8 DEF Then, Places
  <2>3. m \in Nat /\ p \in 1 .. 2
    BY <1>1, <1>4, <2>8, <2>9 DEF TermRecs, RingRecs
  <2>4. Has(h, a, g.ring, g.head, g.tail)
    BY <1>1, <2>0, <2>2, <2>3, TermStays
  <2>5. terms[t].at # "none" /\ taken' = [taken EXCEPT ![t] = q]
    BY <1>1, <2>1
  <2>6. a \in {"size1", "size2", "keys"} => g.ring # 0
    BY <1>3, <2>2
  <2> QED
    BY <1>1, <1>2, <2>1, <2>2, <2>4, <2>5, <2>6, TermChanges
<1>7. CASE ReadTail(t)
  <2>0. PICK x, h : x = rings[g.ring].tail /\ h = [g EXCEPT !.at = "round", !.tail = x]
    OBVIOUS
  <2>1. terms' = [terms EXCEPT ![t] = h] /\ TermVars(t) /\ taken' = taken /\ g.at = "keys"
    BY <1>7, <2>0 DEF ReadTail, TermAt
  <2>2. g.ring # 0 /\ x \in Cells
    BY <1>3, <1>4, <2>0, <2>1 DEF RingRecs
  <2>3. Has(h, "round", g.ring, g.head, x)
    BY <1>1, <2>0, <2>2, TermStays DEF Places
  <2>4. terms[t].at # "none" /\ taken' = [taken EXCEPT ![t] = q]
    BY <1>1, <2>1
  <2>7. "round" \notin {"none", "start"} /\ "round" \notin {"size1", "size2", "keys"}
    OBVIOUS
  <2> QED
    BY <2>7, <1>1, <2>1, <2>2, <2>3, <2>4, TermChanges
<1>8. CASE TakeKey(t)
  <2>0. PICK x, h, k : x = (g.head + 1) % RingSize /\ h = [g EXCEPT !.head = x] /\ k = rings[g.ring].keys[g.head]
    OBVIOUS
  <2>1. terms' = [terms EXCEPT ![t] = h] /\ TermVars(t) /\ taken' = [taken EXCEPT ![t] = Append(q, k)] /\ g.at = "round"
        /\ g.head # g.tail
    BY <1>1, <1>8, <2>0 DEF TakeKey, TermAt
  <2>2. x \in Cells /\ g.head \in Cells
    BY <1>1, <2>0, SMTT(30) DEF TermRecs, WmAssumption, Cells
  <2>3. g.ring # 0 /\ k \in Letters
    BY <1>2, <1>4, <2>0, <2>1, <2>2 DEF RingRecs
  <2>4. Has(h, "round", g.ring, x, g.tail)
    <3>1. "round" \in Places
      BY DEF Places
    <3> QED
      BY <1>1, <2>0, <2>1, <2>2, <3>1, TermStays
  <2>5. terms[t].at # "none" /\ Append(q, k) \in Seq(Letters)
    BY <1>1, <2>1, <2>3
  <2>7. "round" \notin {"none", "start"} /\ "round" \notin {"size1", "size2", "keys"}
    OBVIOUS
  <2> QED
    BY <2>7, <1>1, <2>1, <2>3, <2>4, <2>5, TermChanges
<1>9. CASE RoundDone(t)
  <2> PICK x, h : x = Len(q) + 1 /\ h = [g EXCEPT !.at = "wait", !.drawn = x]
    OBVIOUS
  <2>1. terms' = [terms EXCEPT ![t] = h] /\ TermVars(t) /\ taken' = taken /\ g.at = "round"
    BY <1>9 DEF RoundDone, TermAt
  <2>2. x \in Nat
    BY <1>1
  <2>3. Has(h, "wait", g.ring, g.head, g.tail)
    BY <1>1, <2>2, TermStays DEF Places
  <2>4. terms[t].at # "none" /\ taken' = [taken EXCEPT ![t] = q]
    BY <1>1, <2>1
  <2>7. "wait" \notin {"none", "start"} /\ "wait" \notin {"size1", "size2", "keys"}
    OBVIOUS
  <2> QED
    BY <2>7, <1>1, <1>2, <2>1, <2>3, <2>4, TermChanges
<1>10. CASE Woken(t)
  <2> PICK a, h : /\ a = (IF "close" \in g.sig THEN "gone" ELSE IF "key" \in g.sig /\ g.ring # 0 THEN "size1" ELSE "wait")
                  /\ h = [g EXCEPT !.sig = {}, !.at = a]
    OBVIOUS
  <2>1. terms' = [terms EXCEPT ![t] = h] /\ TermVars(t) /\ taken' = taken /\ g.at = "wait"
    BY <1>10 DEF Woken, TermAt
  <2>2. a \in Places /\ a \notin {"none", "start"} /\ (a \in {"size1", "size2", "keys"} => g.ring # 0)
    BY DEF Places
  <2>3. Has(h, a, g.ring, g.head, g.tail)
    BY <1>1, <2>2, TermStays
  <2>4. terms[t].at # "none" /\ taken' = [taken EXCEPT ![t] = q]
    BY <1>1, <2>1
  <2> QED
    BY <1>1, <1>2, <2>1, <2>2, <2>3, <2>4, TermChanges
<1>11. CASE TermKilled(t)
  <2> PICK h : h = [g EXCEPT !.at = "gone"]
    OBVIOUS
  <2>1. terms' = [terms EXCEPT ![t] = h] /\ TermVars(t) /\ taken' = taken /\ g.at # "none"
    BY <1>11 DEF TermKilled, Alive
  <2>2. Has(h, "gone", g.ring, g.head, g.tail)
    BY <1>1, TermStays DEF Places
  <2>3. terms[t].at # "none" /\ taken' = [taken EXCEPT ![t] = q]
    BY <1>1, <2>1
  <2>7. "gone" \notin {"none", "start"} /\ "gone" \notin {"size1", "size2", "keys"}
    OBVIOUS
  <2> QED
    BY <2>7, <1>1, <1>2, <2>1, <2>2, <2>3, TermChanges
<1> QED
  BY <1>5, <1>6, <1>7, <1>8, <1>9, <1>10, <1>11 DEF TermStep

\* A function on 1 .. n is a sequence of n elements.
LEMMA FunIsSeq ==
  ASSUME NEW S, NEW n \in Nat, NEW f \in [1 .. n -> S]
  PROVE  f \in Seq(S) /\ Len(f) = n
  OBVIOUS

\* The windows v are ws with the focus taken from i and given to j.
FocusMoved(v, ws, i, j) ==
  /\ v \in Seq(WindowRecs) /\ Len(v) = Len(ws) /\ DOMAIN v = DOMAIN ws
  /\ \A k \in DOMAIN ws : /\ v[k].term = ws[k].term /\ v[k].ring = ws[k].ring /\ v[k].tail = ws[k].tail
                          /\ v[k].focused <=> k = j \/ (k # i /\ ws[k].focused)

\* The focus moves; all else of the windows stays.
LEMMA FocusedIs ==
  ASSUME NEW ws \in Seq(WindowRecs), NEW i \in Nat, NEW j \in Nat
  PROVE  FocusMoved(Focused(ws, i, j), ws, i, j)
<1>1. ASSUME NEW k \in DOMAIN ws
      PROVE  /\ Focused(ws, i, j)[k] \in WindowRecs
             /\ Focused(ws, i, j)[k].term = ws[k].term /\ Focused(ws, i, j)[k].ring = ws[k].ring
             /\ Focused(ws, i, j)[k].tail = ws[k].tail
             /\ Focused(ws, i, j)[k].focused <=> k = j \/ (k # i /\ ws[k].focused)
  <2> PICK w, b : w = ws[k] /\ b = IF k = i THEN k = j ELSE ws[k].focused \/ k = j
    OBVIOUS
  <2>1. w \in WindowRecs
    OBVIOUS
  <2>2. b \in BOOLEAN
    <3>1. w.focused \in BOOLEAN
      BY <2>1 DEF WindowRecs
    <3> QED
      BY <3>1
  <2>3. Focused(ws, i, j)[k] = [w EXCEPT !.focused = b]
    BY DEF Focused
  <2>4. /\ [w EXCEPT !.focused = b] \in WindowRecs /\ [w EXCEPT !.focused = b].term = w.term
        /\ [w EXCEPT !.focused = b].ring = w.ring /\ [w EXCEPT !.focused = b].tail = w.tail
        /\ [w EXCEPT !.focused = b].focused = b
    BY <2>1, <2>2 DEF WindowRecs
  <2> QED
    BY <2>3, <2>4
<1>2. DOMAIN Focused(ws, i, j) = DOMAIN ws
  BY DEF Focused
<1>3. Focused(ws, i, j) \in Seq(WindowRecs) /\ Len(Focused(ws, i, j)) = Len(ws)
  <2>1. PICK f, n : f = Focused(ws, i, j) /\ n = Len(ws)
    OBVIOUS
  <2>2. n \in Nat /\ DOMAIN f = 1 .. n /\ f = [k \in DOMAIN f |-> f[k]]
    BY <2>1 DEF Focused
  <2>3. \A k \in 1 .. n : f[k] \in WindowRecs
    BY <1>1, <2>1
  <2>4. f \in [1 .. n -> WindowRecs]
    BY <2>2, <2>3
  <2> QED
    BY <2>1, <2>2, <2>4, FunIsSeq
<1> QED
  BY <1>1, <1>2, <1>3 DEF FocusMoved

\* What tile_all has still to do: two sizes for every window with a ring, and
\* then the signal to its terminal.
Follows(q, j, t) == \E l \in DOMAIN q : l > j /\ q[l] = Signal(t, "key")

\* So the calls of tile_all are, for any number of windows.
LEMMA TilingIs ==
  ASSUME NEW n \in Nat, NEW ws \in Seq(WindowRecs), \A i \in DOMAIN ws : ws[i].ring \in 0 .. n
  PROVE  /\ Tiling(ws) \in Seq(Calls(n))
         /\ \A j \in DOMAIN Tiling(ws) : \E i \in DOMAIN ws :
              \/ Tiling(ws)[j] = Signal(ws[i].term, "key")
              \/ \E p \in 1 .. 2 : /\ Tiling(ws)[j] = WriteGeo(ws[i].ring, p, Len(ws))
                                   /\ ws[i].ring # 0 /\ Follows(Tiling(ws), j, ws[i].term)
         /\ \A i \in DOMAIN ws : ws[i].ring # 0 => Follows(Tiling(ws), 0, ws[i].term)
<1> DEFINE q == [i \in DOMAIN ws |-> IF ws[i].ring = 0 THEN <<>> ELSE
                  <<WriteGeo(ws[i].ring, 1, Len(ws)), WriteGeo(ws[i].ring, 2, Len(ws)), Signal(ws[i].term, "key")>>]
<1>0. PICK F : F = FlattenSeq(q)
  OBVIOUS
<1>1. ASSUME NEW i \in DOMAIN ws
      PROVE  q[i] \in Seq(Calls(n))
  <2>1. ws[i].term \in TermIds /\ Len(ws) \in Nat
    <3>1. ws[i] \in WindowRecs
      OBVIOUS
    <3> QED
      BY <3>1 DEF WindowRecs
  <2>2. Signal(ws[i].term, "key") \in Calls(n)
    BY <2>1 DEF Calls, Sigs
  <2>3. ASSUME ws[i].ring # 0
        PROVE  WriteGeo(ws[i].ring, 1, Len(ws)) \in Calls(n) /\ WriteGeo(ws[i].ring, 2, Len(ws)) \in Calls(n)
    <3>1. ws[i].ring \in 1 .. n
      BY <2>3
    <3> QED
      BY <2>1, <3>1 DEF Calls
  <2>4. CASE ws[i].ring = 0
    BY <2>4
  <2>5. CASE ws[i].ring # 0
    BY <2>2, <2>3, <2>5
  <2> QED
    BY <2>4, <2>5
<1>2. q \in Seq(Seq(Calls(n))) /\ Len(q) = Len(ws) /\ DOMAIN ws = 1 .. Len(ws)
  <2>1. DOMAIN ws = 1 .. Len(ws) /\ Len(ws) \in Nat /\ DOMAIN q = DOMAIN ws /\ q = [i \in DOMAIN q |-> q[i]]
    OBVIOUS
  <2> HIDE DEF q
  <2>2. q \in [1 .. Len(ws) -> Seq(Calls(n))]
    BY <1>1, <2>1
  <2> QED
    BY <2>1, <2>2, FunIsSeq
<1>3. F \in Seq(Calls(n)) /\ Pieces(F, q, Len(ws)) /\ Tiling(ws) = F
  <2>1. Tiling(ws) = F
    BY <1>0 DEF Tiling
  <2> HIDE DEF q
  <2> QED
    BY <1>0, <1>2, <2>1, FlattenIs
<1>4. DOMAIN F = 1 .. Len(F) /\ Len(F) \in Nat
  BY <1>3
<1>5. ASSUME NEW i \in DOMAIN ws, ws[i].ring # 0, NEW o \in Nat, Piece(F, q[i], o)
      PROVE  /\ o + 3 \in DOMAIN F /\ F[o + 3] = Signal(ws[i].term, "key")
             /\ F[o + 1] = WriteGeo(ws[i].ring, 1, Len(ws)) /\ F[o + 2] = WriteGeo(ws[i].ring, 2, Len(ws))
  <2>1. PICK p : /\ p = q[i] /\ DOMAIN p = 1 .. 3 /\ p[3] = Signal(ws[i].term, "key")
                 /\ p[1] = WriteGeo(ws[i].ring, 1, Len(ws)) /\ p[2] = WriteGeo(ws[i].ring, 2, Len(ws))
    BY <1>5
  <2> HIDE DEF q
  <2> QED
    BY <1>5, <2>1 DEF Piece
<1>6. ASSUME NEW j \in DOMAIN F
      PROVE  \E i \in DOMAIN ws :
              \/ F[j] = Signal(ws[i].term, "key")
              \/ \E p \in 1 .. 2 : /\ F[j] = WriteGeo(ws[i].ring, p, Len(ws))
                                   /\ ws[i].ring # 0 /\ Follows(F, j, ws[i].term)
  <2>1. PICK i \in DOMAIN ws, o \in Nat : Piece(F, q[i], o) /\ j - o \in DOMAIN q[i]
    <3> HIDE DEF q
    <3> QED
      BY <1>2, <1>3 DEF Pieces
  <2>2. ws[i].ring # 0 /\ j - o \in 1 .. 3
    BY <2>1
  <2>3. /\ o + 3 \in DOMAIN F /\ F[o + 3] = Signal(ws[i].term, "key")
        /\ F[o + 1] = WriteGeo(ws[i].ring, 1, Len(ws)) /\ F[o + 2] = WriteGeo(ws[i].ring, 2, Len(ws))
    <3> HIDE DEF q
    <3> QED
      BY <1>5, <2>1, <2>2
  <2>4. j = o + 1 \/ j = o + 2 \/ j = o + 3
    BY <1>4, <2>2
  <2>5. CASE j = o + 3
    BY <2>3, <2>5
  <2>6. CASE j = o + 1
    <3>1. Follows(F, j, ws[i].term)
      BY <2>3, <2>6 DEF Follows
    <3> QED
      BY <2>2, <2>3, <2>6, <3>1
  <2>7. CASE j = o + 2
    <3>1. Follows(F, j, ws[i].term)
      BY <2>3, <2>7 DEF Follows
    <3> QED
      BY <2>2, <2>3, <2>7, <3>1
  <2> QED
    BY <2>4, <2>5, <2>6, <2>7
<1>7. ASSUME NEW i \in DOMAIN ws, ws[i].ring # 0
      PROVE  Follows(F, 0, ws[i].term)
  <2>1. PICK o \in Nat : Piece(F, q[i], o)
    <3> HIDE DEF q
    <3> QED
      BY <1>2, <1>3 DEF Pieces
  <2>2. o + 3 \in DOMAIN F /\ F[o + 3] = Signal(ws[i].term, "key") /\ o + 3 > 0
    <3> HIDE DEF q
    <3> QED
      BY <1>5, <1>7, <2>1
  <2> QED
    BY <2>2 DEF Follows
<1> QED
  BY <1>3, <1>6, <1>7

\* The types of what the steps look at.
LEMMA WindowTypes ==
  ASSUME WmTypes
  PROVE  /\ windows \in Seq(WindowRecs) /\ Len(windows) \in Nat /\ DOMAIN windows = 1 .. Len(windows)
         /\ rings \in Seq(RingRecs) /\ Len(rings) \in Nat /\ DOMAIN rings = 1 .. Len(rings)
         /\ \A i \in DOMAIN windows : /\ windows[i] \in WindowRecs /\ windows[i].term \in TermIds
                                      /\ windows[i].ring \in Nat /\ windows[i].tail \in Cells
         /\ \A t \in TermIds : terms[t] \in TermRecs
<1>1. \A i \in DOMAIN windows : windows[i] \in WindowRecs
  BY DEF WmTypes
<1>2. \A i \in DOMAIN windows : windows[i].term \in TermIds /\ windows[i].ring \in Nat /\ windows[i].tail \in Cells
  BY <1>1 DEF WindowRecs
<1> QED
  BY <1>1, <1>2 DEF WmTypes

\* No calls are a sequence of whatever.
LEMMA NoCalls == ASSUME NEW S, todo = <<>> PROVE todo \in Seq(S)
  OBVIOUS

\* Steps that only move the loop of the window manager on.
LEMMA LoopKeepsDesk ==
  ASSUME DeskInv, UNCHANGED <<shared, desk, todo>>, wm' \in {"dequeue", "poll"},
         wm' = "poll" => wm = "poll" \/ g_spawn_queue = <<>> \/ Len(windows) = MaxWindows
  PROVE  DeskInv'
<1>1. WmTypes'
  BY DEF DeskInv, WmTypes, shared, desk
<1>2. RingsAgree' /\ TermsInv' /\ FocusInv' /\ HasFocus'
  BY DEF DeskInv, RingsAgree, TermsInv, FocusInv, HasFocus, shared, desk
<1>3. SpawnInv'
  <2>1. g_spawn_queue # <<>> => Len(windows) # MaxWindows
    BY WindowTypes DEF DeskInv, SpawnInv
  <2> QED
    BY <2>1 DEF DeskInv, SpawnInv, shared, desk
<1> QED
  BY <1>1, <1>2, <1>3 DEF DeskInv

\* send_key_to_focused moves the end of the ring that the window knows.
LEMMA KeyKeepsDesk ==
  ASSUME WmAssumption, DeskInv, NEW k \in Typed, KeyToFocused(k)
  PROVE  DeskInv'
<1> PICK i, w, x : i = focused_idx /\ w = windows[i] /\ x = (w.tail + 1) % RingSize
  OBVIOUS
<1>1. todo = <<>> /\ wm = "poll" /\ i \in DOMAIN windows /\ UNCHANGED <<shared, focused_idx, pending_shm, wm>>
  BY WindowTypes DEF KeyToFocused, Ready, DeskInv, WmTypes
<1>2. w \in WindowRecs
  BY <1>1, WindowTypes DEF DeskInv
<1>3. w.tail \in Cells /\ x \in Cells
  BY <1>2 DEF WindowRecs, WmAssumption, Cells
<1>4. CASE w.ring = 0
  <2>1. windows' = windows /\ todo' = todo
    BY <1>4 DEF KeyToFocused
  <2> QED
    BY <1>1, <2>1, LoopKeepsDesk DEF desk
<1>5. CASE w.ring # 0
  <2>1. windows' = [windows EXCEPT ![i] = [w EXCEPT !.tail = x]] /\ todo' = KeyCalls(w, k)
    BY <1>5 DEF KeyToFocused
  <2>2. PICK v : v = [w EXCEPT !.tail = x]
    OBVIOUS
  <2>3. v \in WindowRecs /\ v.term = w.term /\ v.ring = w.ring /\ v.focused = w.focused
    BY <1>2, <1>3, <2>2 DEF WindowRecs
  <2>4. /\ windows' \in Seq(WindowRecs) /\ Len(windows') = Len(windows) /\ DOMAIN windows' = DOMAIN windows
        /\ \A j \in DOMAIN windows : /\ windows'[j].term = windows[j].term /\ windows'[j].ring = windows[j].ring
                                     /\ windows'[j].focused = windows[j].focused
    BY <1>1, <2>1, <2>2, <2>3, WindowTypes DEF DeskInv
  <2>5. todo' \in Seq(Calls(Len(rings)))
    <3>1. w.ring \in 1 .. Len(rings) /\ w.term \in TermIds
      BY <1>1, <1>5, WindowTypes DEF DeskInv, RingsAgree
    <3>2. WriteKey(w.ring, w.tail, k) \in Calls(Len(rings))
      BY <1>3, <3>1 DEF Calls
    <3>3. WriteTail(w.ring, x) \in Calls(Len(rings))
      BY <1>3, <3>1 DEF Calls
    <3>4. Signal(w.term, "key") \in Calls(Len(rings))
      BY <3>1 DEF Calls, Sigs
    <3> QED
      BY <2>1, <3>2, <3>3, <3>4 DEF KeyCalls
  <2>6. WmTypes'
    BY <1>1, <2>4, <2>5 DEF DeskInv, WmTypes, shared
  <2>7. RingsAgree'
    BY <1>1, <2>4, <2>6, WindowsMove DEF shared
  <2>8. FocusInv' /\ HasFocus' /\ SpawnInv' /\ TermsInv'
    BY <1>1, <2>4, WindowTypes DEF DeskInv, FocusInv, HasFocus, SpawnInv, TermsInv, shared
  <2> QED
    BY <2>6, <2>7, <2>8 DEF DeskInv
<1> QED
  BY <1>4, <1>5

\* focus_window.
LEMMA FocusKeepsDesk ==
  ASSUME WmAssumption, DeskInv, NEW j, Focus(j)
  PROVE  DeskInv'
<1>1. /\ todo = <<>> /\ j \in DOMAIN windows /\ UNCHANGED <<shared, pending_shm, wm, todo>>
      /\ windows' = Focused(windows, focused_idx, j) /\ focused_idx' = j
  BY DEF Focus, FocusWindow, Ready
<1>2. windows \in Seq(WindowRecs) /\ focused_idx \in Nat /\ j \in Nat
  BY <1>1, WindowTypes DEF DeskInv, WmTypes
<1>3. /\ windows' \in Seq(WindowRecs) /\ Len(windows') = Len(windows) /\ DOMAIN windows' = DOMAIN windows
      /\ \A k \in DOMAIN windows : /\ windows'[k].term = windows[k].term /\ windows'[k].ring = windows[k].ring
                                   /\ windows'[k].focused <=> k = j \/ (k # focused_idx /\ windows[k].focused)
  <2>1. FocusMoved(windows', windows, focused_idx, j)
    BY <1>1, <1>2, FocusedIs
  <2> QED
    BY <2>1 DEF FocusMoved
<1>4. WmTypes'
  BY <1>1, <1>3, WindowTypes DEF DeskInv, WmTypes, shared
<1>5. RingsAgree'
  BY <1>1, <1>3, <1>4, WindowsMove DEF shared
<1>6. FocusInv'
  BY <1>1, <1>3 DEF DeskInv, FocusInv
<1>7. HasFocus' /\ SpawnInv' /\ TermsInv'
  BY <1>1, <1>3, WindowTypes DEF DeskInv, HasFocus, SpawnInv, TermsInv, shared
<1> QED
  BY <1>4, <1>5, <1>6, <1>7 DEF DeskInv

\* enqueue_spawn: the queue was empty, and a new ring is nobody's.
LEMMA EnqueueKeepsDesk ==
  ASSUME WmAssumption, DeskInv, EnqueueSpawn
  PROVE  DeskInv'
<1>1. /\ todo = <<>> /\ todo' = todo /\ wm = "poll" /\ wm' = "dequeue" /\ Len(windows) < MaxWindows
      /\ UNCHANGED <<terms, taken, windows, focused_idx>>
  BY DEF EnqueueSpawn, Ready
<1>2. g_spawn_queue = <<>>
  BY <1>1 DEF DeskInv, SpawnInv
<1>3. PICK r : /\ g_spawn_queue' = Append(g_spawn_queue, r) /\ pending_shm' = r
               /\ \/ r = 0 /\ rings' = rings
                  \/ r = Len(rings) + 1 /\ rings' = Append(rings, NewRing)
  BY DEF EnqueueSpawn, Pending
<1>4. /\ rings \in Seq(RingRecs) /\ Len(rings) \in Nat /\ DOMAIN rings = 1 .. Len(rings)
      /\ NewRing \in RingRecs /\ NewRing.wm
  <2>1. 0 \in Cells /\ <<0, 0>> \in [1 .. 2 -> Nat]
    BY DEF WmAssumption, Cells
  <2> QED
    BY <2>1 DEF DeskInv, WmTypes, NewRing, RingRecs, Letters
<1>5. /\ r \in Nat /\ rings' \in Seq(RingRecs) /\ Len(rings') \in Nat /\ Len(rings) <= Len(rings')
      /\ DOMAIN rings' = 1 .. Len(rings')
      /\ r \in 0 .. Len(rings') /\ (r # 0 => r > Len(rings) /\ rings'[r].wm)
      /\ \A q \in DOMAIN rings : rings'[q] = rings[q]
  BY <1>3, <1>4
<1>0. g_spawn_queue' = <<r>>
  BY <1>2, <1>3
<1>6. WmTypes'
  <2>1. g_spawn_queue' \in Seq(Nat)
    BY <1>0, <1>5
  <2>2. todo' \in Seq(Calls(Len(rings)))'
    BY <1>1, NoCalls
  <2> QED
    BY <1>1, <1>3, <1>5, <2>1, <2>2 DEF DeskInv, WmTypes
<1>7. RingsAgree'
  <2>1. \A t \in TermIds : terms[t].ring \in 0 .. Len(rings')
    BY <1>4, <1>5 DEF DeskInv, RingsAgree
  <2>2. \A i \in DOMAIN windows : windows[i].ring # 0 => windows[i].ring \in DOMAIN rings
    BY <1>4, WindowTypes DEF DeskInv, RingsAgree
  <2> QED
    BY <1>1, <1>5, <2>1, <2>2 DEF DeskInv, RingsAgree
<1>8. SpawnInv'
  <2>1. Len(g_spawn_queue') = 1 /\ Head(g_spawn_queue') = r
    BY <1>0
  <2>2. \A t \in TermIds : r # 0 => terms[t].ring # r
    BY <1>4, <1>5 DEF DeskInv, RingsAgree
  <2> QED
    <3>1. pending_shm' = r /\ (r # 0 => rings'[r].wm) /\ r \in 0 .. Len(rings')
      BY <1>3, <1>5
    <3> QED
      BY <1>1, <2>1, <2>2, <3>1 DEF SpawnInv
<1> QED
  BY <1>1, <1>6, <1>7, <1>8 DEF DeskInv, FocusInv, HasFocus, TermsInv

\* The window manager goes, and its windows with it.
LEMMA EndKeepsDesk ==
  ASSUME WmAssumption, DeskInv, WmEnds
  PROVE  DeskInv'
<1>1. /\ windows' = <<>> /\ focused_idx' = 0 /\ pending_shm' = 0 /\ todo' = <<>> /\ wm' = "dequeue"
      /\ UNCHANGED <<g_spawn_queue, terms, taken>>
  BY DEF WmEnds
<1>2. /\ rings' \in Seq(RingRecs) /\ Len(rings') = Len(rings)
  <2>1. rings' = [r \in DOMAIN rings |-> [rings[r] EXCEPT !.wm = FALSE]]
    BY DEF WmEnds
  <2>2. \A r \in DOMAIN rings : [rings[r] EXCEPT !.wm = FALSE] \in RingRecs
    <3>1. \A r \in DOMAIN rings : rings[r] \in RingRecs
      BY WindowTypes DEF DeskInv
    <3> QED
      BY <3>1 DEF RingRecs
  <2>3. PICK n : n = Len(rings) /\ n \in Nat /\ DOMAIN rings = 1 .. n
    BY WindowTypes DEF DeskInv
  <2>4. rings' \in [1 .. n -> RingRecs]
    BY <2>1, <2>2, <2>3
  <2> QED
    BY <2>3, <2>4, FunIsSeq
<1>3. WmTypes'
  <2>1. todo' \in Seq(Calls(Len(rings')))
    BY <1>1
  <2> QED
    BY <1>1, <1>2, <2>1, EmptySeq DEF DeskInv, WmTypes
<1>4. RingsAgree' /\ FocusInv' /\ HasFocus' /\ TermsInv'
  BY <1>1, <1>2 DEF DeskInv, RingsAgree, FocusInv, HasFocus, TermsInv
<1>5. SpawnInv'
  BY <1>1, <1>2 DEF DeskInv, SpawnInv, WmAssumption
<1> QED
  BY <1>3, <1>4, <1>5 DEF DeskInv

\* A sequence without its i-th element has all the others, once.
Was(i, j) == IF j < i THEN j ELSE j + 1

\* RemoveAt takes out one element.
LEMMA RemovedIs ==
  ASSUME NEW S, NEW q \in Seq(S), NEW i \in DOMAIN q
  PROVE  /\ RemoveAt(q, i) \in Seq(S) /\ Len(RemoveAt(q, i)) = Len(q) - 1
         /\ \A j \in DOMAIN RemoveAt(q, i) : Was(i, j) \in DOMAIN q \ {i} /\ RemoveAt(q, i)[j] = q[Was(i, j)]
         /\ \A j, k \in DOMAIN RemoveAt(q, i) : Was(i, j) = Was(i, k) => j = k
         /\ \A k \in DOMAIN q \ {i} : \E j \in DOMAIN RemoveAt(q, i) : Was(i, j) = k
<1>0. PICK n, a, b : n = Len(q) /\ a = SubSeq(q, 1, i - 1) /\ b = SubSeq(q, i + 1, n)
  OBVIOUS
<1>1. n \in Nat /\ i \in 1 .. n /\ DOMAIN q = 1 .. n
  BY <1>0
<1>2. a \in Seq(S) /\ Len(a) = i - 1 /\ \A j \in 1 .. i - 1 : a[j] = q[j]
  BY <1>0, <1>1
<1>3. b \in Seq(S) /\ Len(b) = n - i /\ \A j \in 1 .. n - i : b[j] = q[i + j]
  <2>1. \A j \in i + 1 .. n : q[j] \in S
    BY <1>0, <1>1
  <2> QED
    BY <1>0, <1>1, <2>1, SubSeqProperties, SMTT(30)
<1>4. PICK w : w = RemoveAt(q, i) /\ w = a \o b
  BY <1>0 DEF RemoveAt
<1>5. w \in Seq(S) /\ Len(w) = n - 1 /\ DOMAIN w = 1 .. n - 1
  <2>1. w \in Seq(S) /\ Len(w) = Len(a) + Len(b)
    BY <1>2, <1>3, <1>4, ConcatProperties
  <2> QED
    BY <1>1, <1>2, <1>3, <2>1
<1>51. /\ \A j \in 1 .. i - 1 : w[j] = a[j]
       /\ \A j \in i .. n - 1 : w[j] = b[j - (i - 1)]
  BY <1>1, <1>2, <1>3, <1>4, SMTT(30)
<1>6. ASSUME NEW j \in 1 .. n - 1
      PROVE  w[j] = q[Was(i, j)]
  <2>1. CASE j < i
    BY <1>1, <1>2, <1>51, <2>1 DEF Was
  <2>2. CASE i <= j
    <3>1. j \in i .. n - 1 /\ j - (i - 1) \in 1 .. n - i /\ i + (j - (i - 1)) = j + 1 /\ Was(i, j) = j + 1
      BY <1>1, <2>2 DEF Was
    <3> QED
      BY <1>3, <1>51, <3>1
  <2> QED
    BY <1>1, <2>1, <2>2
<1>7. /\ \A j \in 1 .. n - 1 : Was(i, j) \in 1 .. n /\ Was(i, j) # i
      /\ \A j, k \in 1 .. n - 1 : Was(i, j) = Was(i, k) => j = k
      /\ \A k \in 1 .. n : k < i => k \in 1 .. n - 1 /\ Was(i, k) = k
      /\ \A k \in 1 .. n : k > i => k - 1 \in 1 .. n - 1 /\ Was(i, k - 1) = k
  BY <1>1 DEF Was
<1>8. \A k \in (1 .. n) \ {i} : \E j \in 1 .. n - 1 : Was(i, j) = k
  <2> SUFFICES ASSUME NEW k \in 1 .. n, k # i PROVE \E j \in 1 .. n - 1 : Was(i, j) = k
    OBVIOUS
  <2>1. k < i \/ k > i
    BY <1>1
  <2> QED
    BY <1>7, <2>1
<1> QED
  BY <1>0, <1>1, <1>4, <1>5, <1>6, <1>7, <1>8

\* A queue of one is empty without its head.
LEMMA OneLeft ==
  ASSUME NEW S, NEW q \in Seq(S), Len(q) <= 1, q # <<>>
  PROVE  Len(q) = 1 /\ Tail(q) = <<>> /\ Head(q) \in S
<1>1. Len(q) \in Nat \ {0}
  BY EmptySeq, Zenon
<1>2. Len(q) = 1
  BY <1>1
<1>3. Tail(q) \in Seq(S) /\ Len(Tail(q)) = 0 /\ Head(q) \in S
  BY <1>2, HeadTailProperties
<1>4. Tail(q) = <<>>
  <2>1. Len(Tail(q)) \notin Nat \ {0}
    BY <1>3
  <2> QED
    BY <1>3, <2>1, EmptySeq, Zenon
<1> QED
  BY <1>2, <1>3, <1>4

\* dequeue_pending_spawns: the new window gets the pending ring, which is the
\* terminal's, and the focus.
LEMMA SpawnedKeepsDesk ==
  ASSUME WmAssumption, DeskInv, Spawned
  PROVE  DeskInv'
<1>1. /\ todo = <<>> /\ wm = "dequeue" /\ g_spawn_queue # <<>> /\ g_spawn_queue' = Tail(g_spawn_queue)
      /\ pending_shm' = 0 /\ UNCHANGED <<rings, taken, wm>>
  BY DEF Spawned
<1>2. PICK t \in TermIds : 
        /\ t \in Fresh
        /\ terms' = [terms EXCEPT ![t] = [NoTerm EXCEPT !.at = "start", !.ring = Head(g_spawn_queue)]]
        /\ LET ws == Append(windows, [term |-> t, focused |-> FALSE, ring |-> pending_shm, tail |-> 0])
               n == Len(ws)
           IN /\ windows' = Focused(ws, focused_idx, n) /\ focused_idx' = n
              /\ todo' = Tiling(ws)
  BY DEF Spawned, Fresh
<1>20. PICK x, q, v, ws : /\ x = pending_shm /\ q = Head(g_spawn_queue)
                       /\ v = [term |-> t, focused |-> FALSE, ring |-> x, tail |-> 0]
                       /\ ws = Append(windows, v)
  OBVIOUS
<1>21. PICK n, m : n = Len(windows) /\ m = Len(rings)
  OBVIOUS
<1>3. /\ n \in Nat /\ m \in Nat /\ DOMAIN windows = 1 .. n /\ DOMAIN rings = 1 .. m
      /\ windows \in Seq(WindowRecs) /\ focused_idx \in 0 .. n /\ x \in Nat /\ 0 \in Cells
      /\ terms \in [TermIds -> TermRecs]
  BY <1>20, <1>21, WindowTypes DEF DeskInv, WmTypes, WmAssumption, Cells
<1>4. /\ q \in 0 .. m /\ (q # 0 => \A u \in TermIds : terms[u].ring # q)
      /\ (x # 0 => x = q /\ rings[x].wm)
  BY <1>1, <1>20, <1>21 DEF DeskInv, SpawnInv
<1>22. g_spawn_queue' = <<>>
  <2>1. g_spawn_queue \in Seq(Nat) /\ Len(g_spawn_queue) <= 1
    BY DEF DeskInv, SpawnInv, WmTypes
  <2> QED
    BY <1>1, <2>1, OneLeft
<1>5. v \in WindowRecs /\ v.term = t /\ v.ring = x /\ v.focused = FALSE
  BY <1>3, <1>20 DEF WindowRecs
<1>6. /\ ws \in Seq(WindowRecs) /\ Len(ws) = n + 1 /\ DOMAIN ws = 1 .. n + 1 /\ ws[n + 1] = v
      /\ \A k \in 1 .. n : ws[k] = windows[k]
  BY <1>3, <1>5, <1>20, <1>21
<1>7. /\ windows' = Focused(ws, focused_idx, n + 1) /\ focused_idx' = n + 1 /\ todo' = Tiling(ws)
      /\ terms' = [terms EXCEPT ![t] = [NoTerm EXCEPT !.at = "start", !.ring = q]]
  BY <1>2, <1>6, <1>20
<1>8. /\ windows' \in Seq(WindowRecs) /\ Len(windows') = n + 1 /\ DOMAIN windows' = 1 .. n + 1
      /\ \A k \in 1 .. n + 1 : /\ windows'[k].term = ws[k].term /\ windows'[k].ring = ws[k].ring
                               /\ windows'[k].focused <=> k = n + 1 \/ (k # focused_idx /\ ws[k].focused)
  <2>1. focused_idx \in Nat /\ n + 1 \in Nat
    BY <1>3
  <2>2. FocusMoved(windows', ws, focused_idx, n + 1)
    BY <1>6, <1>7, <2>1, FocusedIs
  <2>3. /\ windows' \in Seq(WindowRecs) /\ Len(windows') = n + 1 /\ DOMAIN windows' = 1 .. n + 1
    BY <1>6, <2>2 DEF FocusMoved
  <2>4. \A k \in DOMAIN ws : /\ windows'[k].term = ws[k].term /\ windows'[k].ring = ws[k].ring
                             /\ windows'[k].focused <=> k = n + 1 \/ (k # focused_idx /\ ws[k].focused)
    BY <2>2 DEF FocusMoved
  <2> QED
    BY <1>6, <2>3, <2>4
<1>23. PICK g : g = [NoTerm EXCEPT !.at = "start", !.ring = q]
  OBVIOUS
<1>9. /\ g \in TermRecs /\ g.at = "start" /\ g.ring = q /\ g.head = 0 /\ g.tail = 0
  <2>1. <<0, 0>> \in [1 .. 2 -> Nat] /\ q \in Nat
    BY <1>3, <1>4
  <2> QED
    BY <1>3, <1>23, <2>1 DEF NoTerm, TermRecs, Places
<1>10. /\ terms' \in [TermIds -> TermRecs] /\ terms'[t] = g /\ \A u \in TermIds \ {t} : terms'[u] = terms[u]
  BY <1>3, <1>7, <1>9, <1>23
<1>11. \A k \in 1 .. n + 1 : ws[k].ring \in 0 .. m /\ ws[k].term \in TermIds
  <2>1. \A k \in 1 .. n : windows[k].ring \in 0 .. m /\ windows[k].term \in TermIds
    BY <1>3, <1>21, WindowTypes DEF DeskInv, RingsAgree
  <2>2. x \in 0 .. m
    BY <1>3, <1>4
  <2>3. \A k \in 1 .. n + 1 : k = n + 1 \/ k \in 1 .. n
    BY <1>3
  <2> QED
    BY <1>5, <1>6, <2>1, <2>2, <2>3
<1>12. WmTypes'
  <2>1. todo' \in Seq(Calls(m))
    BY <1>3, <1>6, <1>7, <1>11, TilingIs
  <2>2. g_spawn_queue' \in Seq(Nat)
    BY <1>22
  <2>3. focused_idx' \in 0 .. Len(windows')
    BY <1>3, <1>7, <1>8
  <2> QED
    BY <1>1, <1>8, <1>10, <1>21, <2>1, <2>2, <2>3 DEF DeskInv, WmTypes
<1>13. TermsInv'
  <2>1. taken[t] = <<>>
    BY <1>2 DEF DeskInv, TermsInv, Fresh
  <2> QED
    BY <1>1, <1>9, <1>10, <2>1 DEF DeskInv, TermsInv
<1>14. RingsAgree'
  <2>1. \A u \in TermIds : terms'[u].ring \in 0 .. m
    BY <1>4, <1>9, <1>10, <1>21 DEF DeskInv, RingsAgree
  <2>2. \A u, w \in TermIds : terms'[u].ring = terms'[w].ring /\ terms'[u].ring # 0 => u = w
    <3>1. \A u, w \in TermIds \ {t} : terms'[u].ring = terms'[w].ring /\ terms'[u].ring # 0 => u = w
      BY <1>10 DEF DeskInv, RingsAgree
    <3>2. \A u \in TermIds \ {t} : q # 0 => terms'[u].ring # q
      BY <1>4, <1>10
    <3>3. terms'[t].ring = q
      BY <1>9, <1>10
    <3> QED
      BY <3>1, <3>2, <3>3
  <2>3. \A u \in TermIds : terms'[u].at = "none" => terms'[u].ring = 0
    <3>1. terms'[t].at # "none"
      BY <1>9, <1>10
    <3> QED
      BY <1>10, <3>1 DEF DeskInv, RingsAgree
  <2>4. \A k \in 1 .. n : windows[k].term \in TermIds \ {t}
    BY <1>2, <1>3, <1>21, WindowTypes DEF DeskInv, RingsAgree, Fresh
  <2>5. ASSUME NEW k \in 1 .. n + 1
        PROVE  /\ terms'[windows'[k].term].at # "none"
               /\ windows'[k].ring # 0 => windows'[k].ring = terms'[windows'[k].term].ring /\ rings[windows'[k].ring].wm
    <3>1. CASE k = n + 1
      <4>1. windows'[k].term = t /\ windows'[k].ring = x /\ terms'[t].ring = q /\ terms'[t].at # "none"
        BY <1>5, <1>6, <1>8, <1>9, <1>10, <3>1
      <4> QED
        BY <1>4, <4>1
    <3>2. CASE k # n + 1
      <4>1. k \in 1 .. n /\ windows'[k].term = windows[k].term /\ windows'[k].ring = windows[k].ring
        BY <1>3, <1>6, <1>8, <3>2
      <4> QED
        BY <1>3, <1>10, <2>4, <4>1 DEF DeskInv, RingsAgree
    <3> QED
      BY <3>1, <3>2
  <2>6. \A k, l \in 1 .. n + 1 : windows'[k].term = windows'[l].term => k = l
    <3>1. \A k, l \in 1 .. n : windows[k].term = windows[l].term => k = l
      BY <1>3 DEF DeskInv, RingsAgree
    <3>2. /\ \A k \in 1 .. n + 1 : k = n + 1 \/ k \in 1 .. n
          /\ \A k \in 1 .. n : windows'[k].term = windows[k].term
          /\ windows'[n + 1].term = t
      <4>1. n + 1 \in 1 .. n + 1 /\ \A k \in 1 .. n : k \in 1 .. n + 1
        BY <1>3
      <4>2. \A k \in 1 .. n : windows'[k].term = ws[k].term /\ ws[k] = windows[k]
        BY <1>6, <1>8, <4>1
      <4> QED
        BY <1>3, <1>5, <1>6, <1>8, <4>1, <4>2
    <3> QED
      BY <2>4, <3>1, <3>2
  <2> QED
    BY <1>1, <1>8, <1>21, <2>1, <2>2, <2>3, <2>5, <2>6 DEF RingsAgree
<1>15. FocusInv' /\ HasFocus'
  <2>1. \A k \in 1 .. n : windows[k].focused <=> k = focused_idx
    BY <1>3 DEF DeskInv, FocusInv
  <2>2. ASSUME NEW k \in 1 .. n + 1
        PROVE  windows'[k].focused <=> k = n + 1
    <3>1. CASE k = n + 1
      BY <1>3, <1>8, <3>1
    <3>2. CASE k # n + 1
      <4>1. k \in 1 .. n /\ ws[k] = windows[k]
        BY <1>3, <1>6, <3>2
      <4> QED
        BY <1>8, <2>1, <3>2, <4>1
    <3> QED
      BY <3>1, <3>2
  <2>3. n + 1 # 0
    BY <1>3
  <2> QED
    BY <1>7, <1>8, <2>2, <2>3 DEF FocusInv, HasFocus
<1>16. SpawnInv'
  <2>1. Len(<<>>) <= 1
    OBVIOUS
  <2> QED
    BY <1>1, <1>22, <2>1 DEF SpawnInv
<1> QED
  BY <1>12, <1>13, <1>14, <1>15, <1>16 DEF DeskInv

\* Nor is anything left in the queue if the spawn fails.
LEMMA SpawnFailsKeepsDesk ==
  ASSUME WmAssumption, DeskInv, SpawnFails
  PROVE  DeskInv'
<1>1. /\ todo = <<>> /\ g_spawn_queue # <<>> /\ g_spawn_queue' = Tail(g_spawn_queue) /\ wm' = "poll"
      /\ UNCHANGED <<rings, terms, taken, windows, focused_idx, pending_shm, todo>>
  BY DEF SpawnFails, desk
<1>2. g_spawn_queue \in Seq(Nat) /\ Len(g_spawn_queue) <= 1
  BY DEF DeskInv, WmTypes, SpawnInv
<1>3. g_spawn_queue' = <<>> /\ g_spawn_queue' \in Seq(Nat) /\ Len(g_spawn_queue') <= 1
  BY <1>1, <1>2, OneLeft
<1>4. WmTypes'
  BY <1>1, <1>3 DEF DeskInv, WmTypes
<1> QED
  BY <1>1, <1>3, <1>4 DEF DeskInv, RingsAgree, FocusInv, HasFocus, TermsInv, SpawnInv

\* close_window: the focus goes to a window that is still there, if any is.
LEMMA CloseKeepsDesk ==
  ASSUME WmAssumption, DeskInv, CloseWindow
  PROVE  DeskInv'
<1>0. PICK i, ws, f : i = focused_idx /\ ws = RemoveAt(windows, i) /\ f = AfterClosing(i, Len(ws))
  OBVIOUS
<1>1. /\ todo = <<>> /\ wm = "poll" /\ i # 0 /\ focused_idx' = f /\ windows' = Focused(ws, 0, f)
      /\ todo' = <<Signal(windows[i].term, "close")>> \o Tiling(ws)
      /\ UNCHANGED <<g_spawn_queue, rings, terms, taken, pending_shm, wm>>
  BY <1>0 DEF CloseWindow, Ready, shared
<1>01. PICK n, m : n = Len(windows) /\ m = Len(rings)
  OBVIOUS
<1>2. /\ n \in Nat /\ m \in Nat /\ DOMAIN windows = 1 .. n /\ DOMAIN rings = 1 .. m
      /\ windows \in Seq(WindowRecs) /\ i \in 1 .. n /\ terms \in [TermIds -> TermRecs]
  BY <1>0, <1>01, <1>1, WindowTypes DEF DeskInv, WmTypes
<1>3. /\ ws \in Seq(WindowRecs) /\ Len(ws) = n - 1 /\ DOMAIN ws = 1 .. n - 1
      /\ \A k \in 1 .. n - 1 : ws[k] = windows[IF k < i THEN k ELSE k + 1]
  <2>1. PICK q, k : q = windows /\ k = i
    OBVIOUS
  <2>2. q \in Seq(WindowRecs) /\ k \in DOMAIN q /\ ws = RemoveAt(q, k) /\ Len(q) = n
    BY <1>2, <1>0, <1>01, <2>1
  <2>3. /\ ws \in Seq(WindowRecs) /\ Len(ws) = n - 1
        /\ \A j \in DOMAIN ws : Was(k, j) \in DOMAIN q \ {k} /\ ws[j] = q[Was(k, j)]
    <3>1. /\ RemoveAt(q, k) \in Seq(WindowRecs) /\ Len(RemoveAt(q, k)) = Len(q) - 1
          /\ \A j \in DOMAIN RemoveAt(q, k) : Was(k, j) \in DOMAIN q \ {k} /\ RemoveAt(q, k)[j] = q[Was(k, j)]
      BY <2>2, RemovedIs, ZenonT(60)
    <3> QED
      BY <2>2, <3>1
  <2> QED
    BY <1>2, <2>1, <2>3 DEF Was
<1>4. f \in 0 .. n - 1 /\ (n - 1 # 0 => f # 0) /\ f = (IF i > n - 1 THEN n - 1 ELSE i)
  BY <1>0, <1>2, <1>3 DEF AfterClosing
<1>5. /\ windows' \in Seq(WindowRecs) /\ Len(windows') = n - 1 /\ DOMAIN windows' = 1 .. n - 1
      /\ \A k \in 1 .. n - 1 : /\ windows'[k].term = ws[k].term /\ windows'[k].ring = ws[k].ring
                               /\ windows'[k].focused <=> ws[k].focused \/ k = f
  <2>1. f \in Nat /\ 0 \in Nat
    BY <1>2, <1>4
  <2>2. FocusMoved(windows', ws, 0, f)
    BY <1>1, <1>3, <2>1, FocusedIs
  <2>3. /\ windows' \in Seq(WindowRecs) /\ Len(windows') = n - 1 /\ DOMAIN windows' = 1 .. n - 1
        /\ DOMAIN ws = 1 .. n - 1
    BY <1>3, <2>2 DEF FocusMoved
  <2>4. \A k \in DOMAIN ws : /\ windows'[k].term = ws[k].term /\ windows'[k].ring = ws[k].ring
                             /\ windows'[k].focused <=> k = f \/ (k # 0 /\ ws[k].focused)
    BY <2>2 DEF FocusMoved
  <2>5. \A k \in 1 .. n - 1 : k # 0
    BY <1>2
  <2> QED
    BY <2>3, <2>4, <2>5
<1>6. \A k \in 1 .. n - 1 : ~ws[k].focused
  <2>1. \A k \in 1 .. n : windows[k].focused <=> k = i
    BY <1>0, <1>2 DEF DeskInv, FocusInv
  <2> QED
    BY <1>2, <1>3, <2>1
<1>7. \A k \in 1 .. n - 1 : ws[k].ring \in 0 .. m /\ ws[k].term \in TermIds
  <2>1. \A k \in 1 .. n : windows[k].ring \in 0 .. m /\ windows[k].term \in TermIds
    BY <1>01, <1>2, WindowTypes, SMTT(30) DEF DeskInv, RingsAgree
  <2> QED
    BY <1>2, <1>3, <2>1
<1>8. WmTypes'
  <2>1. Tiling(ws) \in Seq(Calls(m))
    BY <1>2, <1>3, <1>7, TilingIs
  <2>2. windows[i].term \in TermIds
    BY <1>2, WindowTypes DEF DeskInv
  <2>3. Signal(windows[i].term, "close") \in Calls(m)
    BY <2>2 DEF Calls, Sigs
  <2>4. todo' \in Seq(Calls(m))
    BY <1>1, <2>1, <2>3
  <2> QED
    BY <1>1, <1>4, <1>5, <1>01, <2>4 DEF DeskInv, WmTypes
<1>9. RingsAgree'
  <2>1. ASSUME NEW k \in 1 .. n - 1
        PROVE  Was(i, k) \in 1 .. n /\ windows'[k].term = windows[Was(i, k)].term /\ windows'[k].ring = windows[Was(i, k)].ring
    <3>1. Was(i, k) \in 1 .. n /\ ws[k] = windows[Was(i, k)]
      BY <1>2, <1>3 DEF Was
    <3> QED
      BY <1>5, <3>1
  <2>2. \A k, l \in 1 .. n - 1 : windows'[k].term = windows'[l].term => k = l
    <3>1. \A k, l \in 1 .. n : windows[k].term = windows[l].term => k = l
      BY <1>2 DEF DeskInv, RingsAgree
    <3>2. \A k, l \in 1 .. n - 1 : Was(i, k) = Was(i, l) => k = l
      BY <1>2 DEF Was
    <3> QED
      BY <2>1, <3>1, <3>2
  <2>3. \A k \in 1 .. n : /\ terms[windows[k].term].at # "none"
                          /\ windows[k].ring # 0 => windows[k].ring = terms[windows[k].term].ring /\ rings[windows[k].ring].wm
    BY <1>2 DEF DeskInv, RingsAgree
  <2>4. \A k \in 1 .. n - 1 : /\ terms'[windows'[k].term].at # "none"
                              /\ windows'[k].ring # 0 => windows'[k].ring = terms'[windows'[k].term].ring /\ rings'[windows'[k].ring].wm
    BY <1>1, <2>1, <2>3
  <2> QED
    BY <1>1, <1>5, <2>2, <2>4 DEF DeskInv, RingsAgree
<1>10. FocusInv' /\ HasFocus'
  <2>1. \A k \in 1 .. n - 1 : windows'[k].focused <=> k = f
    BY <1>5, <1>6
  <2>2. windows' # <<>> => n - 1 # 0
    BY <1>5, EmptySeq
  <2> QED
    BY <1>1, <1>4, <1>5, <2>1, <2>2 DEF FocusInv, HasFocus
<1>11. SpawnInv' /\ TermsInv'
  BY <1>1 DEF DeskInv, SpawnInv, TermsInv
<1> QED
  BY <1>8, <1>9, <1>10, <1>11 DEF DeskInv

\* Every step keeps the invariant.
LEMMA DeskInvStep == ASSUME WmAssumption PROVE DeskInv /\ [WmNext]_wmVars => DeskInv'
<1> SUFFICES ASSUME DeskInv, [WmNext]_wmVars PROVE DeskInv'
  OBVIOUS
<1>1. CASE DoCall
  BY <1>1, CallKeepsDesk
<1>2. CASE Spawned
  BY <1>2, SpawnedKeepsDesk
<1>3. CASE SpawnFails
  BY <1>3, SpawnFailsKeepsDesk
<1>4. CASE Dequeued \/ Composite \/ LoopAgain \/ SessionShown
  <2>1. UNCHANGED <<shared, desk, todo>>
    BY <1>4, Zenon DEF Dequeued, Composite, LoopAgain, SessionShown, Ready, frame
  <2>2. wm' \in {"dequeue", "poll"} /\ (wm' = "poll" => wm = "poll" \/ g_spawn_queue = <<>> \/ Len(windows) = MaxWindows)
    BY <1>4 DEF Dequeued, Composite, LoopAgain, SessionShown, Ready
  <2> QED
    BY <2>1, <2>2, LoopKeepsDesk
<1>5. ASSUME NEW k \in Typed, KeyToFocused(k)
      PROVE  DeskInv'
  BY <1>5, KeyKeepsDesk
<1>6. CASE EnqueueSpawn
  BY <1>6, EnqueueKeepsDesk
<1>7. CASE CloseWindow
  BY <1>7, CloseKeepsDesk
<1>8. ASSUME NEW j \in 1 .. MaxWindows, Focus(j)
      PROVE  DeskInv'
  BY <1>8, FocusKeepsDesk
<1>9. CASE WmEnds
  BY <1>9, EndKeepsDesk
<1>10. ASSUME NEW t \in TermIds, TermStep(t) \/ TermKilled(t)
       PROVE  DeskInv'
  BY <1>10, TermKeepsDesk
<1>11. CASE UNCHANGED wmVars
  BY <1>11 DEF wmVars, DeskInv, WmTypes, RingsAgree, FocusInv, HasFocus, SpawnInv, TermsInv
<1> QED
  BY <1>1, <1>2, <1>3, <1>4, <1>5, <1>6, <1>7, <1>8, <1>9, <1>10, <1>11 DEF WmNext, WmStep

\* While there are windows exactly one has the focus, the one at focused_idx,
\* and a window's ring is the one its terminal was started with and no other
\* window's (wm.c 188-215, 261-323), for any number of terminals and windows.
THEOREM DeskAgreed == WmSpec => []WindowsAgree
<1>1. WmInit => DeskInv
  BY WmAssumption, WmInitDesk
<1>2. DeskInv /\ [WmNext]_wmVars => DeskInv'
  BY WmAssumption, DeskInvStep
<1> QED
  BY <1>1, <1>2, DeskAgrees, PTL DEF WmSpec
------------------------------------------------------------------------------
(* The keys *)

\* How far b lies behind a in the ring, and the cell x steps from the start.
Dist(a, b) == IF a <= b THEN b - a ELSE b + RingSize - a
Wrapped(x) == IF x < RingSize THEN x ELSE x - RingSize
NextCell(x) == (x + 1) % RingSize

SentTypes == sent \in Seq(Seq(Letters)) /\ Len(sent) = Len(rings)

\* What the window manager thinks is the end of a ring is the end of it.
EndsAgree(S) == \A i \in DOMAIN windows \ S : windows[i].ring # 0 => windows[i].tail = rings[windows[i].ring].tail

\* No key is being published: there are signals, and sizes each of which is
\* followed by one.
Quiet ==
  /\ EndsAgree({})
  /\ \A j \in DOMAIN todo :
       \/ todo[j].op = "signal"
       \/ \E i \in DOMAIN windows, p \in 1 .. 2, n \in Nat :
            /\ todo[j] = WriteGeo(windows[i].ring, p, n) /\ windows[i].ring # 0
            /\ Follows(todo, j, windows[i].term)

\* A key is being published in the ring of window i.
Publishing(i) ==
  /\ windows[i].ring # 0 /\ windows[i].tail = NextCell(rings[windows[i].ring].tail) /\ EndsAgree({i})
  /\ LET w == windows[i]
         told == Signal(w.term, "key")
     IN \/ todo = <<WriteTail(w.ring, w.tail), told>>
        \/ \E k \in Typed : todo = <<WriteKey(w.ring, rings[w.ring].tail, k), WriteTail(w.ring, w.tail), told>>

TodoInv == Quiet \/ \E i \in DOMAIN windows : Publishing(i)

\* The ring of the spawn under way has not been used.
UnusedInv == g_spawn_queue # <<>> /\ Head(g_spawn_queue) # 0 =>
               sent[Head(g_spawn_queue)] = <<>> /\ rings[Head(g_spawn_queue)].tail = 0

\* What was published is what was taken and what waits.
InStep(g, s, h) ==
  /\ Len(s) = Len(h) + Dist(g.head, g.end)
  /\ \A k \in 1 .. Len(h) : h[k] = s[k]
  /\ \A k \in 1 .. Dist(g.head, g.end) : g.keys[Wrapped(g.head + k - 1)] = s[Len(h) + k]
  /\ Dist(g.head, g.tail) <= Dist(g.head, g.end)
Pace(t, r) == [head |-> t.head, tail |-> t.tail, end |-> r.tail, keys |-> r.keys]
OrderInv ==
  \A t \in TermIds : terms[t].ring # 0 /\ terms[t].ring \notin lapped =>
    InStep(Pace(terms[t], rings[terms[t].ring]), sent[terms[t].ring], taken[t])

\* What a terminal that is told of nothing new has read.
ReadsUpTo(t, r) ==
  /\ t.at \notin {"none", "start", "init1", "init2"}
  /\ t.at = "size2" => t.geo[1] = r.geo[1]
  /\ t.at \in {"keys", "round", "wait"} => t.geo = r.geo
  /\ t.at = "round" => t.tail = r.tail
  /\ t.at = "wait" => t.head = r.tail
SeenInv ==
  \A i \in DOMAIN windows : windows[i].ring # 0 =>
    OnItsWay(windows[i].term) \/ ReadsUpTo(terms[windows[i].term], rings[windows[i].ring])

KeysInv == SentTypes /\ TodoInv /\ UnusedInv /\ OrderInv /\ SeenInv

\* One turn of a ring of keys.
LEMMA RingTurns ==
  ASSUME WmAssumption
  PROVE  /\ \A x \in 0 .. 2 * RingSize - 1 : x % RingSize = Wrapped(x)
         /\ \A x \in Cells : NextCell(x) = Wrapped(x + 1) /\ NextCell(x) \in Cells
<1>1. RingSize \in Nat \ {0, 1}
  BY DEF WmAssumption
<1>2. ASSUME NEW x \in 0 .. 2 * RingSize - 1
      PROVE  x % RingSize = Wrapped(x)
  <2>1. CASE x < RingSize
    BY <1>1, <2>1 DEF Wrapped
  <2>2. CASE x >= RingSize
    <3>1. x = RingSize + (x - RingSize) /\ x - RingSize \in 0 .. RingSize - 1
      BY <1>1, <2>2
    <3> QED
      BY <1>1, <2>2, <3>1 DEF Wrapped
  <2> QED
    BY <1>1, <2>1, <2>2
<1>3. ASSUME NEW x \in Cells
      PROVE  NextCell(x) = Wrapped(x + 1) /\ NextCell(x) \in Cells
  <2>1. x \in 0 .. RingSize - 1 /\ x + 1 \in 0 .. 2 * RingSize - 1
    BY <1>1 DEF Cells
  <2>2. Wrapped(x + 1) \in 0 .. RingSize - 1
    BY <1>1, <2>1 DEF Wrapped
  <2>3. NextCell(x) = Wrapped(x + 1)
    BY <1>2, <2>1 DEF NextCell
  <2> QED
    BY <2>2, <2>3 DEF Cells
<1> QED
  BY <1>2, <1>3

\* From a to b.
LEMMA DistIs ==
  ASSUME WmAssumption, NEW a \in Cells, NEW b \in Cells
  PROVE  /\ Dist(a, b) \in 0 .. RingSize - 1 /\ (Dist(a, b) = 0 <=> a = b)
         /\ (b + RingSize - a) % RingSize = Dist(a, b)
         /\ Wrapped(a + Dist(a, b)) = b
         /\ \A k \in 1 .. Dist(a, b) :
              /\ Wrapped(a + k - 1) \in Cells \ {b}
              /\ (a + k - 1) % RingSize = Wrapped(a + k - 1)
<1>1. RingSize \in Nat \ {0, 1} /\ a \in 0 .. RingSize - 1 /\ b \in 0 .. RingSize - 1
  BY DEF WmAssumption, Cells
<1>2. Dist(a, b) \in 0 .. RingSize - 1 /\ (Dist(a, b) = 0 <=> a = b) /\ Wrapped(a + Dist(a, b)) = b
  BY <1>1 DEF Dist, Wrapped
<1>3. (b + RingSize - a) % RingSize = Dist(a, b)
  <2> PICK x : x = b + RingSize - a
    OBVIOUS
  <2>1. x \in 0 .. 2 * RingSize - 1 /\ Wrapped(x) = Dist(a, b)
    BY <1>1 DEF Wrapped, Dist
  <2> QED
    BY <2>1, RingTurns
<1>4. ASSUME NEW k \in 1 .. Dist(a, b)
      PROVE  Wrapped(a + k - 1) \in Cells \ {b} /\ (a + k - 1) % RingSize = Wrapped(a + k - 1)
  <2> PICK x : x = a + k - 1
    OBVIOUS
  <2>1. x \in 0 .. 2 * RingSize - 1
    BY <1>1, <1>2
  <2>2. Wrapped(x) \in (0 .. RingSize - 1) \ {b}
    BY <1>1, <1>2 DEF Wrapped, Dist
  <2> QED
    BY <2>1, <2>2, RingTurns DEF Cells
<1> QED
  BY <1>2, <1>3, <1>4

\* A key more at the end, or one less at the front.
LEMMA DistMoves ==
  ASSUME WmAssumption, NEW a \in Cells, NEW b \in Cells
  PROVE  /\ Dist(a, b) + 1 # RingSize => Dist(a, NextCell(b)) = Dist(a, b) + 1
         /\ a # b => /\ Dist(NextCell(a), b) = Dist(a, b) - 1
                     /\ \A k \in 1 .. Dist(a, b) - 1 : Wrapped(NextCell(a) + k - 1) = Wrapped(a + (k + 1) - 1)
<1>1. RingSize \in Nat \ {0, 1} /\ a \in 0 .. RingSize - 1 /\ b \in 0 .. RingSize - 1
  BY DEF WmAssumption, Cells
<1>2. NextCell(a) = Wrapped(a + 1) /\ NextCell(b) = Wrapped(b + 1)
  BY RingTurns
<1>3. Dist(a, b) + 1 # RingSize => Dist(a, Wrapped(b + 1)) = Dist(a, b) + 1
  BY <1>1 DEF Dist, Wrapped
<1>4. a # b => Dist(Wrapped(a + 1), b) = Dist(a, b) - 1
  BY <1>1 DEF Dist, Wrapped
<1>5. ASSUME a # b, NEW k \in 1 .. Dist(a, b) - 1
      PROVE  Wrapped(Wrapped(a + 1) + k - 1) = Wrapped(a + (k + 1) - 1)
  <2>1. k \in Int /\ 1 <= k /\ k <= Dist(a, b) - 1 /\ Dist(a, b) < RingSize /\ Dist(a, b) \in Int
    BY <1>1, DistIs
  <2> QED
    BY <1>1, <2>1 DEF Wrapped
<1> QED
  BY <1>2, <1>3, <1>4, <1>5

\* How InStep goes on: nothing is new for a terminal; the cell written is not
\* one that waits; a key is published; the end is read; a key is taken.
Steppers == [head : Cells, tail : Cells, end : Cells, keys : [Cells -> Letters]]

\* Nothing published and nothing read.
LEMMA FreshInStep ==
  ASSUME WmAssumption, NEW g \in Steppers, g.head = 0, g.tail = 0, g.end = 0
  PROVE  InStep(g, <<>>, <<>>)
<1>1. 0 \in Cells
  BY DEF WmAssumption, Cells
<1>2. Dist(0, 0) = 0
  BY <1>1, DistIs
<1> QED
  BY <1>2 DEF InStep

\* The cell of the next key is not one of those that wait.
LEMMA WriteInStep ==
  ASSUME WmAssumption, NEW g \in Steppers, NEW s, NEW h, InStep(g, s, h),
         NEW v \in Steppers, NEW k, v.head = g.head, v.tail = g.tail, v.end = g.end,
         v.keys = [g.keys EXCEPT ![g.end] = k]
  PROVE  InStep(v, s, h)
<1>1. g.head \in Cells /\ g.end \in Cells /\ g.keys \in [Cells -> Letters]
  BY DEF Steppers
<1>2. \A j \in 1 .. Dist(g.head, g.end) : Wrapped(g.head + j - 1) \in Cells \ {g.end}
  BY <1>1, DistIs
<1>3. \A j \in 1 .. Dist(g.head, g.end) : v.keys[Wrapped(g.head + j - 1)] = g.keys[Wrapped(g.head + j - 1)]
  BY <1>1, <1>2
<1> QED
  BY <1>3 DEF InStep

\* A published key is the last one that waits.
LEMMA PublishInStep ==
  ASSUME WmAssumption, NEW g \in Steppers, NEW s \in Seq(Letters), NEW h \in Seq(Letters), InStep(g, s, h),
         NEW v \in Steppers, v.head = g.head, v.tail = g.tail, v.end = NextCell(g.end), v.keys = g.keys,
         Len(s) - Len(h) + 1 # RingSize
  PROVE  InStep(v, Append(s, g.keys[g.end]), h)
<1>0. PICK d, z, y : d = Dist(g.head, g.end) /\ z = g.keys[g.end] /\ y = Append(s, z)
  OBVIOUS
<1>1. g.head \in Cells /\ g.end \in Cells /\ g.keys \in [Cells -> Letters] /\ g.tail \in Cells
  BY DEF Steppers
<1>2. d \in Nat /\ Wrapped(g.head + d) = g.end
  BY <1>0, <1>1, DistIs, RingTurns, SMTT(30) DEF WmAssumption
<1>3. Len(s) \in Nat /\ Len(h) \in Nat /\ Len(s) = Len(h) + d
  BY <1>0 DEF InStep
<1>4. d + 1 # RingSize
  BY <1>2, <1>3
<1>5. Dist(g.head, v.end) = d + 1
  BY <1>0, <1>1, <1>4, DistMoves
<1>6. Len(y) = Len(s) + 1 /\ y[Len(s) + 1] = z /\ \A k \in 1 .. Len(s) : y[k] = s[k]
  <2>1. z \in Letters
    BY <1>0, <1>1
  <2> QED
    BY <1>0, <2>1
<1>7. Len(y) = Len(h) + (d + 1)
  BY <1>2, <1>3, <1>6
<1>8. \A k \in 1 .. Len(h) : h[k] = y[k]
  <2>1. \A k \in 1 .. Len(h) : k \in 1 .. Len(s)
    BY <1>2, <1>3
  <2> QED
    BY <1>6, <2>1 DEF InStep
<1>9. ASSUME NEW k \in 1 .. d + 1
      PROVE  g.keys[Wrapped(g.head + k - 1)] = y[Len(h) + k]
  <2>1. CASE k = d + 1
    <3>1. g.head + k - 1 = g.head + d /\ Len(h) + k = Len(s) + 1
      BY <1>1, <1>2, <1>3, <2>1 DEF Cells
    <3> QED
      BY <1>0, <1>2, <1>6, <3>1
  <2>2. CASE k # d + 1
    <3>1. k \in 1 .. d /\ Len(h) + k \in 1 .. Len(s)
      BY <1>2, <1>3, <2>2
    <3>2. g.keys[Wrapped(g.head + k - 1)] = s[Len(h) + k]
      BY <1>0, <3>1 DEF InStep
    <3> QED
      BY <1>6, <3>1, <3>2
  <2> QED
    BY <2>1, <2>2
<1>10. Dist(g.head, g.tail) <= d + 1
  <2>1. Dist(g.head, g.tail) \in 0 .. RingSize - 1
    BY <1>1, DistIs
  <2>2. Dist(g.head, g.tail) <= d
    BY <1>0 DEF InStep
  <2> QED
    BY <1>2, <2>1, <2>2
<1>11. Len(y) = Len(h) + Dist(v.head, v.end) /\ Dist(v.head, v.tail) <= Dist(v.head, v.end)
  BY <1>5, <1>7, <1>10
<1>12. \A k \in 1 .. Dist(v.head, v.end) : v.keys[Wrapped(v.head + k - 1)] = y[Len(h) + k]
  BY <1>5, <1>9
<1> QED
  BY <1>0, <1>8, <1>11, <1>12 DEF InStep

\* The end is read.
LEMMA ReadInStep ==
  ASSUME WmAssumption, NEW g \in Steppers, NEW s, NEW h, InStep(g, s, h),
         NEW v \in Steppers, v.head = g.head, v.tail = g.end, v.end = g.end, v.keys = g.keys
  PROVE  InStep(v, s, h)
<1>1. Dist(g.head, g.end) \in 0 .. RingSize - 1 /\ RingSize \in Nat
  BY DistIs DEF Steppers, WmAssumption
<1>2. Dist(g.head, g.end) <= Dist(g.head, g.end)
  BY <1>1
<1> QED
  BY <1>2 DEF InStep

\* A key that is taken is the next one published.
LEMMA TakeInStep ==
  ASSUME WmAssumption, NEW g \in Steppers, NEW s \in Seq(Letters), NEW h \in Seq(Letters), InStep(g, s, h),
         NEW v \in Steppers, g.head # g.tail,
         v.head = NextCell(g.head), v.tail = g.tail, v.end = g.end, v.keys = g.keys
  PROVE  InStep(v, s, Append(h, g.keys[g.head]))
<1>0. PICK d, e, z, y : d = Dist(g.head, g.end) /\ e = Dist(g.head, g.tail) /\ z = g.keys[g.head] /\ y = Append(h, z)
  OBVIOUS
<1>1. g.head \in Cells /\ g.end \in Cells /\ g.keys \in [Cells -> Letters] /\ g.tail \in Cells
  BY DEF Steppers
<1>2. d \in Nat /\ e \in Nat /\ e # 0 /\ (d = 0 <=> g.head = g.end) /\ e <= d
  <2>1. d \in 0 .. RingSize - 1 /\ e \in 0 .. RingSize - 1 /\ e # 0 /\ (d = 0 <=> g.head = g.end)
    BY <1>0, <1>1, DistIs
  <2>2. e <= d
    BY <1>0 DEF InStep
  <2> QED
    BY <2>1, <2>2
<1>3. d # 0 /\ g.head # g.end
  BY <1>2
<1>4. Len(s) \in Nat /\ Len(h) \in Nat /\ Len(s) = Len(h) + d
  BY <1>0 DEF InStep
<1>5. Dist(v.head, v.end) = d - 1 /\ Dist(v.head, v.tail) = e - 1
  BY <1>0, <1>1, <1>3, DistMoves
<1>6. \A k \in 1 .. d - 1 : Wrapped(v.head + k - 1) = Wrapped(g.head + (k + 1) - 1)
  BY <1>0, <1>1, <1>3, DistMoves
<1>7. \A k \in 1 .. d : g.keys[Wrapped(g.head + k - 1)] = s[Len(h) + k]
  BY <1>0 DEF InStep
<1>8. z = s[Len(h) + 1]
  <2>1. 1 \in 1 .. d /\ g.head + 1 - 1 = g.head /\ Wrapped(g.head) = g.head
    BY <1>1, <1>2, <1>3 DEF Cells, Wrapped
  <2> QED
    BY <1>0, <1>7, <2>1
<1>9. Len(y) = Len(h) + 1 /\ y[Len(h) + 1] = z /\ \A k \in 1 .. Len(h) : y[k] = h[k]
  <2>1. z \in Letters
    BY <1>0, <1>1
  <2> QED
    BY <1>0, <2>1
<1>10. \A k \in 1 .. Len(y) : y[k] = s[k]
  <2>1. \A k \in 1 .. Len(y) : k = Len(h) + 1 \/ k \in 1 .. Len(h)
    BY <1>4, <1>9
  <2> QED
    BY <1>8, <1>9, <2>1 DEF InStep
<1>11. ASSUME NEW k \in 1 .. d - 1
       PROVE  v.keys[Wrapped(v.head + k - 1)] = s[Len(y) + k]
  <2>1. k + 1 \in 1 .. d /\ Len(h) + (k + 1) = Len(y) + k
    BY <1>2, <1>4, <1>9
  <2> QED
    BY <1>6, <1>7, <2>1
<1>12. Len(s) = Len(y) + (d - 1) /\ e - 1 <= d - 1
  BY <1>2, <1>4, <1>9
<1> QED
  BY <1>0, <1>5, <1>10, <1>11, <1>12 DEF InStep

\* A sequence from its two parts.
LEMMA ConcatIs ==
  ASSUME NEW S, NEW h \in Seq(S), NEW q \in Seq(S), NEW s \in Seq(S), NEW d \in Nat, Len(q) = d, Len(s) = Len(h) + d,
         \A k \in 1 .. Len(h) : h[k] = s[k], \A k \in 1 .. d : q[k] = s[Len(h) + k]
  PROVE  h \o q = s
<1>0. Len(h) \in Nat /\ Len(s) = Len(h) + d
  OBVIOUS
<1>1. h \o q \in Seq(S) /\ Len(h \o q) = Len(s)
  <2>1. h \o q \in Seq(S) /\ Len(h \o q) = Len(h) + Len(q)
    BY ConcatProperties
  <2> QED
    BY <1>0, <2>1
<1>2. ASSUME NEW i \in 1 .. Len(s)
      PROVE  (h \o q)[i] = s[i]
  <2>1. CASE i <= Len(h)
    <3>1. i \in 1 .. Len(h)
      BY <1>0, <2>1
    <3> QED
      BY <3>1
  <2>2. CASE i > Len(h)
    <3>1. i - Len(h) \in 1 .. d /\ Len(h) + (i - Len(h)) = i
      BY <1>0, <2>2
    <3>2. (h \o q)[i] = q[i - Len(h)]
      BY <1>0, <2>2
    <3> QED
      BY <3>1, <3>2
  <2> QED
    BY <1>0, <2>1, <2>2
<1>3. PICK y : y = h \o q
  OBVIOUS
<1> QED
  BY <1>1, <1>2, <1>3, SeqEqual

\* What waits of the ring.
Left(g) ==
  [i \in 1 .. (g.end + RingSize - g.head) % RingSize |-> g.keys[(g.head + i - 1) % RingSize]]

\* Then what was taken and what waits is what was sent.
LEMMA InStepIs ==
  ASSUME WmAssumption, NEW g \in Steppers, NEW s \in Seq(Letters), NEW h \in Seq(Letters), InStep(g, s, h)
  PROVE  h \o Left(g) = s
<1>0. PICK d, q : d = Dist(g.head, g.end) /\ q = Left(g)
  OBVIOUS
<1>1. g.head \in Cells /\ g.end \in Cells /\ g.keys \in [Cells -> Letters]
  BY DEF Steppers
<1>2. /\ d \in 0 .. RingSize - 1 /\ (g.end + RingSize - g.head) % RingSize = d
      /\ \A k \in 1 .. d : Wrapped(g.head + k - 1) \in Cells /\ (g.head + k - 1) % RingSize = Wrapped(g.head + k - 1)
  BY <1>0, <1>1, DistIs
<1>3. RingSize \in Nat /\ d \in Nat
  BY <1>2 DEF WmAssumption
<1>4. q = [i \in 1 .. d |-> g.keys[Wrapped(g.head + i - 1)]]
  BY <1>0, <1>2, Zenon DEF Left
<1>5. \A i \in 1 .. d : g.keys[Wrapped(g.head + i - 1)] \in Letters
  BY <1>1, <1>2
<1>6. q \in [1 .. d -> Letters]
  BY <1>4, <1>5
<1>7. q \in Seq(Letters) /\ Len(q) = d /\ \A i \in 1 .. d : q[i] = g.keys[Wrapped(g.head + i - 1)]
  BY <1>3, <1>4, <1>6, FunIsSeq
<1>8. Len(s) = Len(h) + d /\ (\A k \in 1 .. Len(h) : h[k] = s[k])
      /\ \A k \in 1 .. d : q[k] = s[Len(h) + k]
  BY <1>0, <1>7 DEF InStep
<1>9. Len(s) = Len(h) + d
  BY <1>8
<1>10. \A k \in 1 .. Len(h) : h[k] = s[k]
  BY <1>8
<1>11. \A k \in 1 .. d : q[k] = s[Len(h) + k]
  BY <1>8
<1>12. q \in Seq(Letters) /\ Len(q) = d
  BY <1>7
<1>13. h \o q = s
  BY ONLY <1>3, s \in Seq(Letters), h \in Seq(Letters), <1>9, <1>10, <1>11, <1>12, ConcatIs
<1> QED
  BY <1>0, <1>13

\* The types of what OrderInv is about.
LEMMA PaceIs ==
  ASSUME NEW t \in TermRecs, NEW r \in RingRecs
  PROVE  /\ Pace(t, r) \in Steppers
         /\ Pace(t, r).head = t.head /\ Pace(t, r).tail = t.tail
         /\ Pace(t, r).end = r.tail /\ Pace(t, r).keys = r.keys
  BY DEF Pace, Steppers, TermRecs, RingRecs

\* What belongs to a terminal with a ring.
LEMMA RingTypes ==
  ASSUME DeskInv, SentTypes, NEW t \in TermIds, terms[t].ring # 0
  PROVE  /\ terms[t].ring \in DOMAIN rings /\ rings[terms[t].ring] \in RingRecs /\ terms[t] \in TermRecs
         /\ sent[terms[t].ring] \in Seq(Letters) /\ taken[t] \in Seq(Letters)
         /\ terms[t].at # "none" /\ terms[t].head \in Cells /\ terms[t].tail \in Cells
         /\ rings[terms[t].ring].tail \in Cells
<1>1. rings \in Seq(RingRecs) /\ Len(rings) \in Nat /\ DOMAIN rings = 1 .. Len(rings) /\ terms[t] \in TermRecs
  BY WindowTypes DEF DeskInv
<1>2. terms[t].ring \in 1 .. Len(rings) /\ terms[t].at # "none"
  BY DEF DeskInv, RingsAgree
<1>3. sent[terms[t].ring] \in Seq(Letters)
  BY <1>1, <1>2 DEF SentTypes
<1>4. taken[t] \in Seq(Letters)
  BY DEF DeskInv, WmTypes
<1>5. rings[terms[t].ring] \in RingRecs
  BY <1>1, <1>2
<1>6. terms[t].head \in Cells /\ terms[t].tail \in Cells /\ rings[terms[t].ring].tail \in Cells
  BY <1>1, <1>5 DEF TermRecs, RingRecs
<1> QED
  BY <1>1, <1>2, <1>3, <1>4, <1>5, <1>6

\* At the start there is no ring.
LEMMA WmInitKeys == ASSUME WmAssumption PROVE WmInit => KeysInv
<1> SUFFICES ASSUME WmInit PROVE KeysInv
  OBVIOUS
<1>1. /\ rings = <<>> /\ sent = <<>> /\ windows = <<>> /\ todo = <<>> /\ g_spawn_queue = <<>>
      /\ \A t \in TermIds : terms[t].ring = 0
  BY DEF WmInit, NoTerm
<1>2. Quiet
  BY <1>1 DEF Quiet, EndsAgree
<1> QED
  BY <1>1, <1>2 DEF KeysInv, SentTypes, TodoInv, UnusedInv, OrderInv, SeenInv

\* The invariants imply the property.
LEMMA KeysDoArrive == ASSUME WmAssumption PROVE DeskInv /\ KeysInv => KeysArrive
<1> SUFFICES ASSUME DeskInv, KeysInv PROVE KeysArrive
  OBVIOUS
<1>0. SentTypes
  BY DEF KeysInv
<1>1. ASSUME NEW t \in TermIds, Alive(t), terms[t].ring \notin lapped \cup {0}
      PROVE  taken[t] \o Waiting(t) = sent[terms[t].ring]
  <2>1. PICK r, s, h, q, g : /\ r = terms[t].ring /\ s = sent[r] /\ h = taken[t] /\ q = Waiting(t)
                             /\ g = Pace(terms[t], rings[r])
    OBVIOUS
  <2>2. r # 0 /\ r \notin lapped
    BY <1>1, <2>1
  <2>3. InStep(g, s, h)
    BY <2>1, <2>2 DEF KeysInv, OrderInv
  <2>4. /\ rings[r] \in RingRecs /\ terms[t] \in TermRecs /\ s \in Seq(Letters) /\ h \in Seq(Letters)
    BY <1>0, <2>1, <2>2, RingTypes
  <2>5. g \in Steppers /\ g.head = terms[t].head /\ g.end = rings[r].tail /\ g.keys = rings[r].keys
    BY <2>1, <2>4, PaceIs
  <2>6. q = Left(g)
    BY <2>1, <2>5, Zenon DEF Waiting, Left
  <2>7. s \in Seq(Letters) /\ h \in Seq(Letters)
    BY <2>4
  <2>8. g \in Steppers
    BY <2>5
  <2>9. h \o q = s
    BY <2>3, <2>6, <2>7, <2>8, InStepIs
  <2> QED
    BY <2>1, <2>9
<1>2. ASSUME NEW i \in DOMAIN windows, NEW t, t = windows[i].term, terms[t].at = "wait", windows[i].ring # 0, ~OnItsWay(t)
      PROVE  Waiting(t) = <<>> /\ terms[t].geo = rings[windows[i].ring].geo
  <2>1. t \in TermIds /\ windows[i].ring = terms[t].ring
    BY <1>2, WindowTypes DEF DeskInv, RingsAgree
  <2>2. ReadsUpTo(terms[t], rings[windows[i].ring])
    BY <1>2 DEF KeysInv, SeenInv
  <2>3. terms[t].geo = rings[windows[i].ring].geo /\ terms[t].head = rings[terms[t].ring].tail
    BY <1>2, <2>1, <2>2 DEF ReadsUpTo
  <2>4. terms[t].head \in Cells /\ rings[terms[t].ring].tail \in Cells
    BY <1>0, <1>2, <2>1, RingTypes
  <2>5. (rings[terms[t].ring].tail + RingSize - terms[t].head) % RingSize = 0
    BY <2>3, <2>4, DistIs
  <2>6. Waiting(t) = [k \in 1 .. 0 |-> rings[terms[t].ring].keys[(terms[t].head + k - 1) % RingSize]]
    BY <2>5 DEF Waiting
  <2>7. Waiting(t) = <<>>
    BY <2>6
  <2> QED
    BY <2>3, <2>7
<1>3. KeysInOrder
  BY <1>1 DEF KeysInOrder
<1>4. NothingUnseen
  BY <1>2 DEF NothingUnseen
<1> QED
  BY <1>3, <1>4 DEF KeysArrive

\* One terminal moves.
LEMMA OneTermMoves ==
  ASSUME WmAssumption, DeskInv, DeskInv', KeysInv, NEW t \in TermIds, NEW h, NEW q, NEW e, NEW s,
         terms' = [terms EXCEPT ![t] = h], taken' = [taken EXCEPT ![t] = q], TermVars(t),
         e = rings[terms[t].ring], s = sent[terms[t].ring],
         h.ring # 0 => /\ h.ring = terms[t].ring
                       /\ InStep(Pace(terms[t], e), s, taken[t]) => InStep(Pace(h, e), s, q)
                       /\ OnItsWay(t) \/ ReadsUpTo(terms[t], e) => OnItsWay(t)' \/ ReadsUpTo(h, e)
  PROVE  KeysInv'
<1>1. UNCHANGED <<g_spawn_queue, rings, windows, todo, sent, lapped>>
  BY DEF TermVars, desk
<1>2. SentTypes' /\ UnusedInv' /\ TodoInv'
  BY <1>1 DEF KeysInv, SentTypes, UnusedInv, TodoInv, Quiet, Publishing, EndsAgree
<1>3. /\ \A u \in TermIds \ {t} : terms'[u] = terms[u] /\ taken'[u] = taken[u]
      /\ terms'[t] = h /\ taken'[t] = q
  BY DEF DeskInv, WmTypes
<1>4. OrderInv'
  <2>1. ASSUME NEW u \in TermIds, terms'[u].ring # 0, terms'[u].ring \notin lapped
        PROVE  InStep(Pace(terms'[u], rings[terms'[u].ring]), sent[terms'[u].ring], taken'[u])
    <3>1. CASE u = t
      BY <1>3, <2>1, <3>1 DEF KeysInv, OrderInv
    <3>2. CASE u # t
      BY <1>3, <2>1, <3>2 DEF KeysInv, OrderInv
    <3> QED
      BY <3>1, <3>2
  <2> QED
    BY <1>1, <2>1 DEF OrderInv
<1>5. SeenInv'
  <2>1. ASSUME NEW i \in DOMAIN windows, windows[i].ring # 0
        PROVE  OnItsWay(windows[i].term)' \/ ReadsUpTo(terms'[windows[i].term], rings[windows[i].ring])
    <3>1. windows[i].term \in TermIds /\ (OnItsWay(windows[i].term) \/ ReadsUpTo(terms[windows[i].term], rings[windows[i].ring]))
      BY <2>1, WindowTypes DEF DeskInv, KeysInv, SeenInv
    <3>2. CASE windows[i].term = t
      <4>1. windows[i].ring = terms[t].ring /\ windows[i].ring = h.ring
        BY <1>1, <1>3, <2>1, <3>2 DEF DeskInv, RingsAgree
      <4>2. OnItsWay(t)' \/ ReadsUpTo(h, e)
        BY <2>1, <3>1, <3>2, <4>1
      <4>3. windows'[i].term = t /\ terms'[t] = h
        BY <1>1, <1>3, <3>2
      <4> QED
        BY <3>2, <4>1, <4>2, <4>3 DEF OnItsWay
    <3>3. CASE windows[i].term # t
      <4>1. terms'[windows[i].term] = terms[windows[i].term]
        BY <1>3, <3>3, WindowTypes DEF DeskInv
      <4>2. OnItsWay(windows[i].term)' <=> OnItsWay(windows[i].term)
        BY <1>1, <4>1 DEF OnItsWay
      <4> QED
        BY <3>1, <4>1, <4>2
    <3> QED
      BY <3>2, <3>3
  <2> QED
    BY <1>1, <2>1 DEF SeenInv
<1> QED
  BY <1>2, <1>4, <1>5 DEF KeysInv

\* A terminal with a new place, and perhaps a new end of the ring or size.
LEMMA SamePace ==
  ASSUME NEW t, NEW h, NEW e, NEW s, NEW q, h.head = t.head, h.tail = t.tail
  PROVE  InStep(Pace(t, e), s, q) => InStep(Pace(h, e), s, q)
  BY DEF Pace

\* Every step of a terminal: only Woken takes away a signal, and the terminal
\* then reads everything; only TakeKey and ReadTail move along the ring.
LEMMA TermKeepsKeys ==
  ASSUME WmAssumption, DeskInv, KeysInv, NEW t \in TermIds, TermStep(t) \/ TermKilled(t)
  PROVE  KeysInv'
<1>0. DeskInv'
  BY TermKeepsDesk
<1>1. PICK g, q, e, s : g = terms[t] /\ q = taken[t] /\ e = rings[g.ring] /\ s = sent[g.ring]
  OBVIOUS
<1>2. g \in TermRecs /\ q \in Seq(Letters) /\ terms \in [TermIds -> TermRecs] /\ taken = [taken EXCEPT ![t] = q]
  BY <1>1 DEF DeskInv, WmTypes
<1>3. g.ring # 0 => e \in RingRecs /\ s \in Seq(Letters)
  BY <1>1, RingTypes DEF KeysInv
<1>4. ASSUME NEW h, h.head = g.head, h.tail = g.tail, h.ring # 0 => h.ring = g.ring,
             terms' = [terms EXCEPT ![t] = h], TermVars(t), UNCHANGED taken,
             h.ring # 0 => (OnItsWay(t) \/ ReadsUpTo(g, e) => OnItsWay(t)' \/ ReadsUpTo(h, e))
      PROVE  KeysInv'
  <2>1. InStep(Pace(g, e), s, q) => InStep(Pace(h, e), s, q)
    BY <1>4, SamePace
  <2> QED
    BY <1>0, <1>1, <1>2, <1>4, <2>1, OneTermMoves
<1>5. ASSUME NEW h, h.sig = g.sig, terms' = [terms EXCEPT ![t] = h], TermVars(t)
      PROVE  OnItsWay(t) => OnItsWay(t)'
  <2>1. terms'[t].sig = terms[t].sig /\ todo' = todo
    BY <1>1, <1>2, <1>5 DEF TermVars
  <2> QED
    BY <2>1 DEF OnItsWay
<1>6. CASE TermStart(t)
  <2>1. PICK r, h : r = (IF g.ring # 0 /\ rings[g.ring].wm THEN g.ring ELSE 0) /\ h = [g EXCEPT !.at = "init1", !.ring = r]
    OBVIOUS
  <2>2. terms' = [terms EXCEPT ![t] = h] /\ g.at = "start" /\ TermVars(t) /\ taken' = taken
    BY <1>1, <1>6, <2>1 DEF TermStart, TermAt
  <2>3. h.head = g.head /\ h.tail = g.tail /\ h.sig = g.sig /\ (h.ring # 0 => h.ring = g.ring)
    BY <1>2, <2>1 DEF TermRecs
  <2>4. ~ReadsUpTo(g, e)
    BY <2>2 DEF ReadsUpTo
  <2> QED
    BY <1>4, <1>5, <2>2, <2>3, <2>4
<1>7. CASE ReadSize(t)
  <2>1. PICK p, a : p = (IF g.at \in {"init1", "size1"} THEN 1 ELSE 2) /\ a = Then[g.at]
    OBVIOUS
  <2>2. PICK m : m = IF g.ring = 0 THEN g.geo[p] ELSE rings[g.ring].geo[p]
    OBVIOUS
  <2>3. PICK h : h = [g EXCEPT !.at = a, !.geo[p] = m]
    OBVIOUS
  <2>4. terms' = [terms EXCEPT ![t] = h] /\ TermVars(t) /\ taken' = taken /\ g.at \in {"init1", "init2", "size1", "size2"}
    BY <1>1, <1>7, <2>1, <2>2, <2>3, ZenonT(60) DEF ReadSize, Then
  <2>5. /\ h.head = g.head /\ h.tail = g.tail /\ h.sig = g.sig /\ h.ring = g.ring /\ h.at = a
        /\ h.geo = [g.geo EXCEPT ![p] = m] /\ g.geo \in [1 .. 2 -> Nat]
    BY <1>2, <2>3 DEF TermRecs
  <2>6. ASSUME g.ring # 0, ReadsUpTo(g, e)
        PROVE  ReadsUpTo(h, e)
    <3>1. e.geo \in [1 .. 2 -> Nat]
      BY <1>3, <2>6 DEF RingRecs
    <3>2. CASE g.at = "size1"
      <4>1. a = "size2" /\ p = 1 /\ m = e.geo[1]
        BY <1>1, <2>1, <2>2, <2>6, <3>2 DEF Then
      <4>2. h.geo[1] = e.geo[1]
        BY <2>5, <4>1
      <4> QED
        BY <2>5, <4>1, <4>2 DEF ReadsUpTo
    <3>3. CASE g.at = "size2"
      <4>1. a = "keys" /\ p = 2 /\ m = e.geo[2] /\ g.geo[1] = e.geo[1]
        BY <1>1, <2>1, <2>2, <2>6, <3>3 DEF Then, ReadsUpTo
      <4>2. h.geo = e.geo
        BY <2>5, <3>1, <4>1
      <4> QED
        BY <2>5, <4>1, <4>2 DEF ReadsUpTo
    <3> QED
      BY <2>4, <2>6, <3>2, <3>3 DEF ReadsUpTo
  <2> QED
    BY <1>4, <1>5, <2>4, <2>5, <2>6
<1>8. CASE ReadTail(t)
  <2>1. PICK h : h = [g EXCEPT !.at = "round", !.tail = e.tail]
    OBVIOUS
  <2>2. terms' = [terms EXCEPT ![t] = h] /\ TermVars(t) /\ taken' = taken /\ g.at = "keys"
    BY <1>1, <1>8, <2>1 DEF ReadTail, TermAt
  <2>3. /\ h.head = g.head /\ h.tail = e.tail /\ h.sig = g.sig /\ h.ring = g.ring /\ h.at = "round" /\ h.geo = g.geo
    BY <1>2, <2>1 DEF TermRecs
  <2>4. g.ring # 0
    BY <1>1, <2>2 DEF DeskInv, TermsInv
  <2>5. h \in TermRecs
    <3>1. "round" \in Places /\ e.tail \in Cells
      BY <1>3, <2>4 DEF Places, RingRecs
    <3> QED
      BY <1>2, <2>1, <3>1 DEF TermRecs
  <2>6. InStep(Pace(g, e), s, q) => InStep(Pace(h, e), s, q)
    <3>1. Pace(g, e) \in Steppers /\ Pace(h, e) \in Steppers
      BY <1>2, <1>3, <2>4, <2>5, PaceIs
    <3>2. /\ Pace(h, e).head = Pace(g, e).head /\ Pace(h, e).tail = Pace(g, e).end
          /\ Pace(h, e).end = Pace(g, e).end /\ Pace(h, e).keys = Pace(g, e).keys
      BY <2>3 DEF Pace
    <3> QED
      BY <3>1, <3>2, ReadInStep
  <2>7. ReadsUpTo(g, e) => ReadsUpTo(h, e)
    BY <2>2, <2>3 DEF ReadsUpTo
  <2>8. OnItsWay(t) => OnItsWay(t)'
    BY <1>5, <2>2, <2>3
  <2> QED
    BY <1>0, <1>1, <1>2, <2>2, <2>3, <2>6, <2>7, <2>8, OneTermMoves
<1>9. CASE TakeKey(t)
  <2>1. PICK x, h, k : x = NextCell(g.head) /\ h = [g EXCEPT !.head = x] /\ k = e.keys[g.head]
    OBVIOUS
  <2>2. terms' = [terms EXCEPT ![t] = h] /\ TermVars(t) /\ taken' = [taken EXCEPT ![t] = Append(q, k)] /\ g.at = "round"
        /\ g.head # g.tail
    BY <1>1, <1>2, <1>9, <2>1 DEF TakeKey, TermAt, NextCell
  <2>3. h.head = x /\ h.tail = g.tail /\ h.sig = g.sig /\ h.ring = g.ring /\ h.at = "round" /\ h.geo = g.geo
    BY <1>2, <2>1, <2>2 DEF TermRecs
  <2>4. h \in TermRecs
    <3>1. x \in Cells
      BY <1>2, <2>1, RingTurns DEF TermRecs
    <3> QED
      BY <1>2, <2>1, <3>1 DEF TermRecs
  <2>5. ASSUME g.ring # 0, InStep(Pace(g, e), s, q)
        PROVE  InStep(Pace(h, e), s, Append(q, k))
    <3>1. PICK a, b : a = Pace(g, e) /\ b = Pace(h, e)
      OBVIOUS
    <3>2. a \in Steppers /\ b \in Steppers /\ s \in Seq(Letters)
      BY <1>2, <1>3, <2>4, <2>5, <3>1, PaceIs
    <3>3. /\ b.head = NextCell(a.head) /\ b.tail = a.tail /\ b.end = a.end /\ b.keys = a.keys
          /\ k = a.keys[a.head] /\ a.head # a.tail
      BY <2>1, <2>2, <2>3, <3>1 DEF Pace
    <3>4. InStep(a, s, q)
      BY <2>5, <3>1
    <3>5. InStep(b, s, Append(q, a.keys[a.head]))
      BY <1>2, <3>2, <3>3, <3>4, TakeInStep
    <3> QED
      BY <3>1, <3>3, <3>5
  <2>6. ReadsUpTo(g, e) => ReadsUpTo(h, e)
    BY <2>2, <2>3 DEF ReadsUpTo
  <2>7. OnItsWay(t) => OnItsWay(t)'
    BY <1>5, <2>2, <2>3
  <2>8. PICK y : y = Append(q, k)
    OBVIOUS
  <2> QED
    BY <1>0, <1>1, <1>2, <2>2, <2>3, <2>5, <2>6, <2>7, <2>8, OneTermMoves
<1>10. CASE RoundDone(t)
  <2>1. PICK x, h : x = Len(q) + 1 /\ h = [g EXCEPT !.at = "wait", !.drawn = x]
    OBVIOUS
  <2>2. terms' = [terms EXCEPT ![t] = h] /\ TermVars(t) /\ taken' = taken /\ g.at = "round" /\ g.head = g.tail
    BY <1>1, <1>10, <2>1 DEF RoundDone, TermAt
  <2>3. h.head = g.head /\ h.tail = g.tail /\ h.sig = g.sig /\ h.ring = g.ring /\ h.at = "wait" /\ h.geo = g.geo
    BY <1>2, <2>1 DEF TermRecs
  <2>4. ReadsUpTo(g, e) => ReadsUpTo(h, e)
    BY <2>2, <2>3 DEF ReadsUpTo
  <2> QED
    BY <1>4, <1>5, <2>2, <2>3, <2>4
<1>11. CASE Woken(t)
  <2>1. PICK a, h : /\ a = (IF "close" \in g.sig THEN "gone" ELSE IF "key" \in g.sig /\ g.ring # 0 THEN "size1" ELSE "wait")
                    /\ h = [g EXCEPT !.sig = {}, !.at = a]
    OBVIOUS
  <2>2. terms' = [terms EXCEPT ![t] = h] /\ TermVars(t) /\ taken' = taken /\ g.at = "wait" /\ g.sig # {}
    BY <1>1, <1>11, <2>1 DEF Woken, TermAt
  <2>3. h.head = g.head /\ h.tail = g.tail /\ h.ring = g.ring /\ h.at = a
    BY <1>2, <2>1 DEF TermRecs
  <2>4. h.ring # 0 => a \in {"gone", "size1"}
    <3>1. g.sig \in SUBSET {"key", "close"}
      BY <1>2 DEF TermRecs, Sigs
    <3> QED
      BY <2>1, <2>2, <2>3, <3>1
  <2>5. h.ring # 0 => ReadsUpTo(h, e)
    BY <2>3, <2>4 DEF ReadsUpTo
  <2> QED
    BY <1>4, <2>2, <2>3, <2>5
<1>12. CASE TermKilled(t)
  <2>1. PICK h : h = [g EXCEPT !.at = "gone"]
    OBVIOUS
  <2>2. terms' = [terms EXCEPT ![t] = h] /\ TermVars(t) /\ taken' = taken
    BY <1>1, <1>12, <2>1 DEF TermKilled
  <2>3. h.head = g.head /\ h.tail = g.tail /\ h.ring = g.ring /\ h.at = "gone"
    BY <1>2, <2>1 DEF TermRecs
  <2>4. ReadsUpTo(h, e)
    BY <2>3 DEF ReadsUpTo
  <2> QED
    BY <1>4, <2>2, <2>3, <2>4
<1> QED
  BY <1>6, <1>7, <1>8, <1>9, <1>10, <1>11, <1>12 DEF TermStep

\* What is left of a sequence.
LEMMA TailIs ==
  ASSUME NEW S, NEW q \in Seq(S), q # <<>>
  PROVE  /\ Len(q) \in Nat \ {0} /\ DOMAIN q = 1 .. Len(q) /\ 1 \in DOMAIN q /\ Head(q) = q[1] /\ q[1] \in S
         /\ Tail(q) \in Seq(S) /\ DOMAIN Tail(q) = 1 .. Len(q) - 1
         /\ \A j \in DOMAIN Tail(q) : j + 1 \in DOMAIN q /\ Tail(q)[j] = q[j + 1]
         /\ \A j \in DOMAIN q : j > 1 => j - 1 \in DOMAIN Tail(q) /\ Tail(q)[j - 1] = q[j]
<1>1. Len(q) \in Nat \ {0}
  BY EmptySeq, Zenon
<1>2. /\ Tail(q) \in Seq(S) /\ Len(Tail(q)) = Len(q) - 1 /\ Head(q) = q[1]
      /\ \A j \in 1 .. Len(Tail(q)) : Tail(q)[j] = q[j + 1]
  BY <1>1, HeadTailProperties
<1> QED
  BY <1>1, <1>2

\* A signal that follows is still to come after the call that it follows.
LEMMA FollowsOn ==
  ASSUME NEW S, NEW q \in Seq(S), q # <<>>, NEW t
  PROVE  /\ \A j \in DOMAIN Tail(q) : Follows(q, j + 1, t) => Follows(Tail(q), j, t)
         /\ \A i \in DOMAIN q : q[i] = Signal(t, "key") /\ Head(q) # Signal(t, "key") =>
              \E j \in DOMAIN Tail(q) : Tail(q)[j] = Signal(t, "key")
         /\ Follows(q, 1, t) => \E j \in DOMAIN Tail(q) : Tail(q)[j] = Signal(t, "key")
<1>1. /\ Len(q) \in Nat \ {0} /\ DOMAIN q = 1 .. Len(q) /\ Head(q) = q[1] /\ DOMAIN Tail(q) = 1 .. Len(q) - 1
      /\ \A j \in DOMAIN q : j > 1 => j - 1 \in DOMAIN Tail(q) /\ Tail(q)[j - 1] = q[j]
  BY TailIs
<1>2. ASSUME NEW j \in DOMAIN Tail(q), Follows(q, j + 1, t)
      PROVE  Follows(Tail(q), j, t)
  <2>1. PICK l \in DOMAIN q : l > j + 1 /\ q[l] = Signal(t, "key")
    BY <1>2 DEF Follows
  <2>2. l - 1 \in DOMAIN Tail(q) /\ l - 1 > j /\ Tail(q)[l - 1] = Signal(t, "key")
    BY <1>1, <2>1
  <2> QED
    BY <2>2 DEF Follows
<1>3. ASSUME NEW i \in DOMAIN q, q[i] = Signal(t, "key"), i > 1
      PROVE  \E j \in DOMAIN Tail(q) : Tail(q)[j] = Signal(t, "key")
  BY <1>1, <1>3
<1>4. \A i \in DOMAIN q : q[i] = Signal(t, "key") /\ Head(q) # Signal(t, "key") => i > 1
  BY <1>1
<1>5. Follows(q, 1, t) => \E j \in DOMAIN Tail(q) : Tail(q)[j] = Signal(t, "key")
  BY <1>3 DEF Follows
<1> QED
  BY <1>2, <1>3, <1>4, <1>5

\* A call that is no signal to a terminal leaves its signals on their way.
LEMMA StillOnItsWay ==
  ASSUME NEW S, todo \in Seq(S), todo # <<>>, todo' = Tail(todo), NEW t,
         Head(todo) # Signal(t, "key"), "key" \in terms[t].sig => "key" \in terms'[t].sig
  PROVE  OnItsWay(t) => OnItsWay(t)'
<1>1. \A i \in DOMAIN todo : todo[i] = Signal(t, "key") => \E j \in DOMAIN Tail(todo) : Tail(todo)[j] = Signal(t, "key")
  BY FollowsOn
<1> QED
  BY <1>1 DEF OnItsWay

\* No two windows have a ring in common, and every window's is a page.
LEMMA RingsApart ==
  ASSUME DeskInv
  PROVE  /\ \A i \in DOMAIN windows : windows[i].ring # 0 =>
              windows[i].ring \in DOMAIN rings /\ windows[i].ring = terms[windows[i].term].ring
         /\ \A i, k \in DOMAIN windows : windows[i].ring = windows[k].ring /\ windows[i].ring # 0 => i = k
  BY WindowTypes DEF DeskInv, RingsAgree

\* Nothing is being published after a call that publishes nothing.
LEMMA QuietStays ==
  ASSUME DeskInv, Quiet, NEW S, todo \in Seq(S), todo # <<>>, todo' = Tail(todo), windows' = windows,
         \A r \in DOMAIN rings : rings'[r].tail = rings[r].tail
  PROVE  Quiet'
<1>1. EndsAgree({})'
  BY RingsApart DEF Quiet, EndsAgree
<1>2. ASSUME NEW j \in DOMAIN Tail(todo)
      PROVE  \/ Tail(todo)[j].op = "signal"
             \/ \E i \in DOMAIN windows, p \in 1 .. 2, n \in Nat :
                  /\ Tail(todo)[j] = WriteGeo(windows[i].ring, p, n) /\ windows[i].ring # 0
                  /\ Follows(Tail(todo), j, windows[i].term)
  <2>1. j + 1 \in DOMAIN todo /\ Tail(todo)[j] = todo[j + 1]
    BY TailIs
  <2>2. CASE todo[j + 1].op = "signal"
    BY <2>1, <2>2
  <2>3. CASE \E i \in DOMAIN windows, p \in 1 .. 2, n \in Nat :
               /\ todo[j + 1] = WriteGeo(windows[i].ring, p, n) /\ windows[i].ring # 0
               /\ Follows(todo, j + 1, windows[i].term)
    <3>1. PICK i \in DOMAIN windows, p \in 1 .. 2, n \in Nat :
               /\ todo[j + 1] = WriteGeo(windows[i].ring, p, n) /\ windows[i].ring # 0
               /\ Follows(todo, j + 1, windows[i].term)
      BY <2>3
    <3>2. Follows(Tail(todo), j, windows[i].term)
      BY <3>1, FollowsOn
    <3> QED
      BY <2>1, <3>1, <3>2
  <2> QED
    BY <2>1, <2>2, <2>3 DEF Quiet
<1> QED
  BY <1>1, <1>2 DEF Quiet

\* While a key is being published the next call is no other.
LEMMA QuietOrNot ==
  ASSUME TodoInv, Head(todo).op \in {"signal", "geo"}
  PROVE  Quiet
<1>1. ASSUME NEW i \in DOMAIN windows, Publishing(i)
      PROVE  FALSE
  BY <1>1 DEF Publishing, WriteTail, WriteKey
<1> QED
  BY <1>1 DEF TodoInv

\* Calls that write nothing a terminal with no signal pending looks at.
LEMMA SeenStays ==
  ASSUME DeskInv, SeenInv, windows' = windows,
         \A i \in DOMAIN windows :
           /\ windows[i].ring # 0
           /\ OnItsWay(windows[i].term) \/ ReadsUpTo(terms[windows[i].term], rings[windows[i].ring])
           => OnItsWay(windows[i].term)' \/ ReadsUpTo(terms'[windows[i].term], rings'[windows[i].ring])
  PROVE  SeenInv'
  BY DEF SeenInv

\* A signal: it is pending now, or the terminal is gone.
LEMMA SignalKeepsKeys ==
  ASSUME WmAssumption, DeskInv, KeysInv, DoCall, Head(todo).op = "signal"
  PROVE  KeysInv'
<1>1. PICK c : c = Head(todo)
  OBVIOUS
<1>2. /\ todo # <<>> /\ todo' = Tail(todo) /\ todo \in Seq(Calls(Len(rings)))
      /\ UNCHANGED <<g_spawn_queue, windows, rings, sent, lapped, taken>>
      /\ terms' = IF Alive(c.term) THEN [terms EXCEPT ![c.term].sig = @ \cup {c.sig}] ELSE terms
  BY <1>1 DEF DoCall, desk, DeskInv, WmTypes
<1>3. PICK t \in TermIds, s \in Sigs : c = Signal(t, s) /\ c.term = t /\ c.sig = s
  <2>1. c \in Calls(Len(rings)) /\ c.op = "signal"
    BY <1>1, <1>2, TailIs
  <2>2. PICK t \in TermIds, s \in Sigs : c = Signal(t, s)
    BY <2>1 DEF Calls, Signal, WriteKey, WriteTail, WriteGeo
  <2> QED
    BY <2>2 DEF Signal
<1>4. /\ \A u \in TermIds : /\ terms'[u].at = terms[u].at /\ terms'[u].ring = terms[u].ring /\ terms'[u].geo = terms[u].geo
                            /\ terms'[u].head = terms[u].head /\ terms'[u].tail = terms[u].tail
                            /\ "key" \in terms[u].sig => "key" \in terms'[u].sig
      /\ Alive(t) => s \in terms'[t].sig
  <2>1. terms \in [TermIds -> TermRecs] /\ \A u \in TermIds : terms[u] \in TermRecs
    BY DEF DeskInv, WmTypes
  <2>2. terms' = IF Alive(t) THEN [terms EXCEPT ![t].sig = @ \cup {s}] ELSE terms
    BY <1>2, <1>3
  <2> QED
    BY <2>1, <2>2 DEF TermRecs
<1>5. TodoInv'
  <2>1. Quiet
    BY QuietOrNot DEF KeysInv
  <2> QED
    BY <1>2, <2>1, QuietStays DEF TodoInv
<1>6. SentTypes' /\ UnusedInv'
  BY <1>2 DEF KeysInv, SentTypes, UnusedInv
<1>7. OrderInv'
  <2>1. \A u \in TermIds, r \in DOMAIN rings : Pace(terms'[u], rings[r]) = Pace(terms[u], rings[r])
    BY <1>4 DEF Pace
  <2>2. \A u \in TermIds : terms[u].ring # 0 => terms[u].ring \in DOMAIN rings
    BY RingTypes DEF KeysInv
  <2>3. OrderInv
    BY DEF KeysInv
  <2>4. ASSUME NEW u \in TermIds, terms'[u].ring # 0, terms'[u].ring \notin lapped'
        PROVE  InStep(Pace(terms'[u], rings'[terms'[u].ring]), sent'[terms'[u].ring], taken'[u])
    <3>1. PICK r : r = terms[u].ring /\ r # 0 /\ r \notin lapped /\ terms'[u].ring = r /\ r \in DOMAIN rings
      BY <1>2, <1>4, <2>2, <2>4
    <3>2. InStep(Pace(terms[u], rings[r]), sent[r], taken[u])
      BY <2>3, <3>1 DEF OrderInv
    <3> QED
      BY <1>2, <2>1, <3>1, <3>2
  <2> QED
    BY <2>4 DEF OrderInv
<1>8. SeenInv'
  <2>1. ASSUME NEW i \in DOMAIN windows, windows[i].ring # 0,
               OnItsWay(windows[i].term) \/ ReadsUpTo(terms[windows[i].term], rings[windows[i].ring])
        PROVE  OnItsWay(windows[i].term)' \/ ReadsUpTo(terms'[windows[i].term], rings'[windows[i].ring])
    <3>1. PICK u : u = windows[i].term
      OBVIOUS
    <3>2. u \in TermIds /\ windows' = windows /\ terms[u].ring = windows[i].ring
      BY <1>2, <2>1, <3>1, WindowTypes, RingsApart DEF DeskInv
    <3>3. ReadsUpTo(terms[u], rings[windows[i].ring]) => ReadsUpTo(terms'[u], rings'[windows[i].ring])
      BY <1>2, <1>4, <3>2 DEF ReadsUpTo
    <3>4. CASE c # Signal(u, "key")
      <4>1. OnItsWay(u) => OnItsWay(u)'
        BY <1>1, <1>2, <1>4, <3>2, <3>4, StillOnItsWay
      <4> QED
        BY <2>1, <3>1, <3>2, <3>3, <4>1 DEF OnItsWay
    <3>5. CASE c = Signal(u, "key")
      <4>1. t = u /\ s = "key"
        BY <1>3, <3>5 DEF Signal
      <4>2. CASE Alive(u)
        BY <1>4, <3>1, <3>2, <4>1, <4>2 DEF OnItsWay
      <4>3. CASE ~Alive(u)
        <5>1. terms[u].at # "none"
          BY <2>1, <3>1 DEF DeskInv, RingsAgree
        <5>2. terms'[u].at = "gone"
          BY <1>4, <3>2, <4>3, <5>1 DEF Alive
        <5>3. ReadsUpTo(terms'[u], rings'[windows[i].ring])
          BY <5>2 DEF ReadsUpTo
        <5> QED
          BY <3>1, <5>3
      <4> QED
        BY <4>2, <4>3
    <3> QED
      BY <3>4, <3>5
  <2> QED
    BY <1>2, <2>1, SeenStays DEF KeysInv
<1> QED
  BY <1>5, <1>6, <1>7, <1>8 DEF KeysInv

\* A call that writes into a page.
LEMMA PageWritten ==
  ASSUME DeskInv, DoCall, Head(todo).op # "signal"
  PROVE  /\ todo # <<>> /\ todo' = Tail(todo) /\ todo \in Seq(Calls(Len(rings))) /\ Head(todo) \in Calls(Len(rings))
         /\ UNCHANGED <<g_spawn_queue, windows, terms, taken>>
         /\ \A t \in TermIds : Head(todo) # Signal(t, "key")
         /\ \A t \in TermIds : OnItsWay(t) => OnItsWay(t)'
<1>1. todo # <<>> /\ todo' = Tail(todo) /\ todo \in Seq(Calls(Len(rings)))
  BY DEF DoCall, DeskInv, WmTypes
<1>2. UNCHANGED <<g_spawn_queue, windows, terms, taken>>
  BY DEF DoCall, desk
<1>3. \A t \in TermIds : Head(todo) # Signal(t, "key")
  BY DEF Signal
<1>4. Head(todo) \in Calls(Len(rings))
  BY <1>1, TailIs
<1>5. \A t \in TermIds : OnItsWay(t) => OnItsWay(t)'
  BY <1>1, <1>2, <1>3, StillOnItsWay
<1> QED
  BY <1>1, <1>2, <1>3, <1>4, <1>5

\* Only the ring that is written can be out of step.
LEMMA OneRingMoves ==
  ASSUME DeskInv, SentTypes, OrderInv, UNCHANGED <<terms, taken>>, lapped \subseteq lapped', NEW r,
         \A q \in DOMAIN rings \ {r} : rings'[q].tail = rings[q].tail /\ rings'[q].keys = rings[q].keys /\ sent'[q] = sent[q],
         \A t \in TermIds :
           /\ terms[t].ring = r /\ r # 0 /\ r \notin lapped' /\ InStep(Pace(terms[t], rings[r]), sent[r], taken[t])
           => InStep(Pace(terms[t], rings'[r]), sent'[r], taken[t])
  PROVE  OrderInv'
<1>1. ASSUME NEW t \in TermIds, terms[t].ring # 0, terms[t].ring \notin lapped'
      PROVE  InStep(Pace(terms[t], rings'[terms[t].ring]), sent'[terms[t].ring], taken[t])
  <2>1. PICK q : q = terms[t].ring /\ q # 0 /\ q \notin lapped /\ q \notin lapped' /\ q \in DOMAIN rings
    BY <1>1, RingTypes
  <2>2. InStep(Pace(terms[t], rings[q]), sent[q], taken[t])
    BY <2>1 DEF OrderInv
  <2>3. CASE q = r
    BY <2>1, <2>2, <2>3
  <2>4. CASE q # r
    <3>1. Pace(terms[t], rings'[q]) = Pace(terms[t], rings[q]) /\ sent'[q] = sent[q]
      BY <2>1, <2>4 DEF Pace
    <3> QED
      BY <2>1, <2>2, <3>1
  <2> QED
    BY <2>3, <2>4
<1> QED
  BY <1>1 DEF OrderInv

\* A size: the signal is still to come.
LEMMA SizeKeepsKeys ==
  ASSUME WmAssumption, DeskInv, KeysInv, DoCall, Head(todo).op = "geo"
  PROVE  KeysInv'
<1>1. /\ todo # <<>> /\ todo' = Tail(todo) /\ todo \in Seq(Calls(Len(rings)))
      /\ UNCHANGED <<g_spawn_queue, windows, terms, taken, sent, lapped>>
      /\ \A t \in TermIds : OnItsWay(t) => OnItsWay(t)'
  BY PageWritten DEF DoCall
<1>2. Quiet /\ SentTypes /\ OrderInv /\ SeenInv
  BY QuietOrNot DEF KeysInv
<1>3. PICK i \in DOMAIN windows, p \in 1 .. 2, n \in Nat :
        /\ Head(todo) = WriteGeo(windows[i].ring, p, n) /\ windows[i].ring # 0
        /\ Follows(todo, 1, windows[i].term)
  <2>1. 1 \in DOMAIN todo /\ Head(todo) = todo[1]
    BY <1>1, TailIs
  <2> QED
    BY <1>2, <2>1 DEF Quiet
<1>4. PICK r : r = windows[i].ring
  OBVIOUS
<1>5. rings' = [rings EXCEPT ![r].geo[p] = n]
  <2>1. Head(todo).ring = r /\ Head(todo).part = p /\ Head(todo).n = n
    BY <1>3, <1>4 DEF WriteGeo
  <2> QED
    BY <2>1 DEF DoCall
<1>6. /\ DOMAIN rings' = DOMAIN rings /\ \A q \in DOMAIN rings : rings'[q].tail = rings[q].tail /\ rings'[q].keys = rings[q].keys
      /\ \A q \in DOMAIN rings \ {r} : rings'[q] = rings[q]
  <2>1. \A q \in DOMAIN rings : rings[q] \in RingRecs
    BY WindowTypes DEF DeskInv
  <2> QED
    BY <1>5, <2>1 DEF RingRecs
<1>7. TodoInv'
  BY <1>1, <1>2, <1>6, QuietStays DEF TodoInv
<1>8. SentTypes'
  <2>1. Len(rings') = Len(rings)
    BY <1>5, WindowTypes DEF DeskInv
  <2> QED
    BY <1>1, <1>2, <2>1 DEF SentTypes
<1>9. UnusedInv'
  <2>1. g_spawn_queue # <<>> /\ Head(g_spawn_queue) # 0 => Head(g_spawn_queue) \in DOMAIN rings
    BY WindowTypes DEF DeskInv, SpawnInv
  <2> QED
    BY <1>1, <1>6, <2>1 DEF KeysInv, UnusedInv
<1>10. OrderInv'
  <2>1. \A t \in TermIds : terms[t].ring = r /\ r # 0 => Pace(terms[t], rings'[r]) = Pace(terms[t], rings[r])
    <3>1. r \in DOMAIN rings
      BY <1>3, <1>4, RingsApart
    <3> QED
      BY <1>6, <3>1 DEF Pace
  <2> QED
    BY <1>1, <1>2, <1>6, <2>1, OneRingMoves
<1>11. SeenInv'
  <2>1. ASSUME NEW k \in DOMAIN windows, windows[k].ring # 0,
               OnItsWay(windows[k].term) \/ ReadsUpTo(terms[windows[k].term], rings[windows[k].ring])
        PROVE  OnItsWay(windows[k].term)' \/ ReadsUpTo(terms'[windows[k].term], rings'[windows[k].ring])
    <3>1. windows[k].term \in TermIds
      BY WindowTypes DEF DeskInv
    <3>2. CASE k = i
      <4>1. \E j \in DOMAIN Tail(todo) : Tail(todo)[j] = Signal(windows[k].term, "key")
        BY <1>1, <1>3, <3>2, FollowsOn
      <4> QED
        BY <1>1, <4>1 DEF OnItsWay
    <3>3. CASE k # i
      <4>1. windows[k].ring # r /\ windows[k].ring \in DOMAIN rings
        BY <1>3, <1>4, <2>1, <3>3, RingsApart
      <4>2. rings'[windows[k].ring] = rings[windows[k].ring] /\ terms' = terms
        BY <1>1, <1>6, <4>1
      <4>3. CASE OnItsWay(windows[k].term)
        <5>1. PICK u \in TermIds : u = windows[k].term
          BY <3>1
        <5>2. OnItsWay(u)'
          BY <1>1, <4>3, <5>1
        <5> QED
          BY <1>1, <5>1, <5>2 DEF OnItsWay
      <4> QED
        BY <2>1, <4>2, <4>3
    <3> QED
      BY <3>2, <3>3
  <2> QED
    BY <1>1, <1>2, <2>1, SeenStays
<1> QED
  BY <1>7, <1>8, <1>9, <1>10, <1>11 DEF KeysInv

\* The cell of a key that is being published.
LEMMA KeyKeepsKeys ==
  ASSUME WmAssumption, DeskInv, KeysInv, DoCall, Head(todo).op = "key"
  PROVE  KeysInv'
<1>1. /\ todo # <<>> /\ todo' = Tail(todo) /\ todo \in Seq(Calls(Len(rings)))
      /\ UNCHANGED <<g_spawn_queue, windows, terms, taken, sent, lapped>>
      /\ \A t \in TermIds : OnItsWay(t) => OnItsWay(t)'
  BY PageWritten DEF DoCall
<1>2. SentTypes /\ OrderInv /\ SeenInv /\ TodoInv
  BY DEF KeysInv
<1>3. ~Quiet
  <2>1. 1 \in DOMAIN todo /\ Head(todo) = todo[1]
    BY <1>1, TailIs
  <2> QED
    BY <2>1 DEF Quiet, WriteGeo
<1>4. PICK i \in DOMAIN windows : Publishing(i)
  BY <1>2, <1>3 DEF TodoInv
<1>5. PICK r, c : r = windows[i].ring /\ c = windows[i].tail
  OBVIOUS
<1>6. PICK k \in Typed : todo = <<WriteKey(r, rings[r].tail, k), WriteTail(r, c), Signal(windows[i].term, "key")>>
  BY <1>4, <1>5 DEF Publishing, WriteTail
<1>7. todo' = <<WriteTail(r, c), Signal(windows[i].term, "key")>> /\ Head(todo) = WriteKey(r, rings[r].tail, k)
  BY <1>1, <1>6
<1>8. /\ r \in DOMAIN rings /\ r # 0 /\ \A q \in DOMAIN rings : rings[q] \in RingRecs
  BY <1>4, <1>5, RingsApart, WindowTypes DEF DeskInv, Publishing
<1>9. rings' = [rings EXCEPT ![r].keys[rings[r].tail] = k]
  <2>1. Head(todo).ring = r /\ Head(todo).cell = rings[r].tail /\ Head(todo).key = k
    BY <1>7 DEF WriteKey
  <2> QED
    BY <2>1 DEF DoCall
<1>10. /\ DOMAIN rings' = DOMAIN rings /\ \A q \in DOMAIN rings : rings'[q].tail = rings[q].tail /\ rings'[q].geo = rings[q].geo
       /\ \A q \in DOMAIN rings \ {r} : rings'[q] = rings[q]
       /\ rings'[r].keys = [rings[r].keys EXCEPT ![rings[r].tail] = k] /\ rings'[r] \in RingRecs
  <2>1. rings[r].tail \in Cells /\ k \in Letters
    BY <1>8 DEF RingRecs, Letters
  <2>2. rings' = [rings EXCEPT ![r] = [rings[r] EXCEPT !.keys[rings[r].tail] = k]]
    BY <1>9
  <2> QED
    BY <1>8, <2>1, <2>2 DEF RingRecs
<1>11. TodoInv'
  <2>1. Publishing(i)'
    <3>1. windows[i].tail = NextCell(rings'[r].tail) /\ rings'[r].tail = rings[r].tail
      BY <1>4, <1>5, <1>8, <1>10 DEF Publishing
    <3>2. EndsAgree({i})'
      BY <1>1, <1>4, <1>10, RingsApart DEF Publishing, EndsAgree
    <3> QED
      BY <1>1, <1>5, <1>7, <1>8, <3>1, <3>2 DEF Publishing
  <2> QED
    BY <1>1, <2>1 DEF TodoInv
<1>12. SentTypes'
  <2>1. Len(rings') = Len(rings)
    BY <1>9, WindowTypes DEF DeskInv
  <2> QED
    BY <1>1, <1>2, <2>1 DEF SentTypes
<1>13. UnusedInv'
  <2>1. g_spawn_queue # <<>> /\ Head(g_spawn_queue) # 0 => Head(g_spawn_queue) \in DOMAIN rings
    BY WindowTypes DEF DeskInv, SpawnInv
  <2> QED
    BY <1>1, <1>10, <2>1 DEF KeysInv, UnusedInv
<1>14. OrderInv'
  <2>1. ASSUME NEW t \in TermIds, terms[t].ring = r, InStep(Pace(terms[t], rings[r]), sent[r], taken[t])
        PROVE  InStep(Pace(terms[t], rings'[r]), sent'[r], taken[t])
    <3>1. PICK g, v : g = Pace(terms[t], rings[r]) /\ v = Pace(terms[t], rings'[r])
      OBVIOUS
    <3>2. terms[t] \in TermRecs
      BY WindowTypes DEF DeskInv
    <3>3. g \in Steppers /\ v \in Steppers
      BY <1>8, <1>10, <3>1, <3>2, PaceIs
    <3>4. v.head = g.head /\ v.tail = g.tail /\ v.end = g.end /\ v.keys = [g.keys EXCEPT ![g.end] = k]
      BY <1>8, <1>10, <3>1 DEF Pace
    <3>5. InStep(g, sent[r], taken[t])
      BY <2>1, <3>1
    <3>6. InStep(v, sent[r], taken[t])
      BY <3>3, <3>4, <3>5, WriteInStep
    <3> QED
      BY <1>1, <3>1, <3>6
  <2> QED
    BY <1>1, <1>2, <1>10, <2>1, OneRingMoves
<1>15. SeenInv'
  <2>1. ASSUME NEW j \in DOMAIN windows, windows[j].ring # 0,
               OnItsWay(windows[j].term) \/ ReadsUpTo(terms[windows[j].term], rings[windows[j].ring])
        PROVE  OnItsWay(windows[j].term)' \/ ReadsUpTo(terms'[windows[j].term], rings'[windows[j].ring])
    <3>1. PICK u \in TermIds : u = windows[j].term
      BY WindowTypes DEF DeskInv
    <3>2. OnItsWay(u) => OnItsWay(windows[j].term)'
      <4>1. OnItsWay(u) => OnItsWay(u)'
        BY <1>1
      <4> QED
        BY <1>1, <3>1, <4>1 DEF OnItsWay
    <3>3. windows[j].ring \in DOMAIN rings
      BY <2>1, RingsApart
    <3>4. ReadsUpTo(terms[u], rings[windows[j].ring]) => ReadsUpTo(terms'[u], rings'[windows[j].ring])
      BY <1>1, <1>10, <3>3 DEF ReadsUpTo
    <3> QED
      BY <2>1, <3>1, <3>2, <3>4
  <2> QED
    BY <1>1, <1>2, <2>1, SeenStays
<1> QED
  BY <1>11, <1>12, <1>13, <1>14, <1>15 DEF KeysInv

\* Who reads a ring.
LEMMA UnreadIs ==
  ASSUME DeskInv, SentTypes, NEW t \in TermIds, terms[t].ring # 0
  PROVE  Unread(terms[t].ring) = Len(sent[terms[t].ring]) - Len(taken[t])
<1>1. PICK r : r = terms[t].ring
  OBVIOUS
<1>2. {u \in TermIds : terms[u].ring = r /\ terms[u].at # "none"} = {t}
  BY <1>1, RingTypes DEF DeskInv, RingsAgree
<1>3. {t} # {} /\ (CHOOSE u \in {t} : TRUE) = t
  OBVIOUS
<1> DEFINE S == {u \in TermIds : terms[u].ring = r /\ terms[u].at # "none"}
<1>5. Unread(r) = Len(sent[r]) - (IF S = {} THEN 0 ELSE Len(taken[CHOOSE u \in S : TRUE]))
  BY DEF Unread
<1>4. Unread(r) = Len(sent[r]) - (IF {t} = {} THEN 0 ELSE Len(taken[CHOOSE u \in {t} : TRUE]))
  <2>1. S = {t}
    BY <1>2
  <2> HIDE DEF S
  <2> QED
    BY <1>5, <2>1
<1> QED
  BY <1>1, <1>3, <1>4

\* A key is published.
LEMMA TailKeepsKeys ==
  ASSUME WmAssumption, DeskInv, KeysInv, DoCall, Head(todo).op = "tail"
  PROVE  KeysInv'
<1>1. /\ todo # <<>> /\ todo' = Tail(todo) /\ todo \in Seq(Calls(Len(rings)))
      /\ UNCHANGED <<g_spawn_queue, windows, terms, taken>>
      /\ \A t \in TermIds : OnItsWay(t) => OnItsWay(t)'
  BY PageWritten
<1>2. SentTypes /\ OrderInv /\ SeenInv /\ TodoInv
  BY DEF KeysInv
<1>3. ~Quiet
  <2>1. 1 \in DOMAIN todo /\ Head(todo) = todo[1]
    BY <1>1, TailIs
  <2> QED
    BY <2>1 DEF Quiet, WriteGeo
<1>4. PICK i \in DOMAIN windows : Publishing(i)
  BY <1>2, <1>3 DEF TodoInv
<1>5. PICK r, c, t : r = windows[i].ring /\ c = windows[i].tail /\ t = windows[i].term
  OBVIOUS
<1>6. todo = <<WriteTail(r, c), Signal(t, "key")>>
  BY <1>4, <1>5 DEF Publishing, WriteKey
<1>7. todo' = <<Signal(t, "key")>> /\ Head(todo) = WriteTail(r, c)
  BY <1>1, <1>6
<1>8. /\ r \in DOMAIN rings /\ r # 0 /\ (\A q \in DOMAIN rings : rings[q] \in RingRecs)
      /\ t \in TermIds /\ terms[t].ring = r /\ DOMAIN rings = 1 .. Len(rings)
  BY <1>4, <1>5, RingsApart, WindowTypes DEF DeskInv, Publishing
<1>9. c = NextCell(rings[r].tail) /\ rings[r].tail \in Cells /\ c \in Cells
  <2>1. c = NextCell(rings[r].tail)
    BY <1>4, <1>5 DEF Publishing
  <2>2. rings[r].tail \in Cells
    BY <1>8 DEF RingRecs
  <2> QED
    BY <2>1, <2>2, RingTurns
<1>10. /\ rings' = [rings EXCEPT ![r] = [rings[r] EXCEPT !.tail = c]]
       /\ sent' = [sent EXCEPT ![r] = Append(sent[r], rings[r].keys[rings[r].tail])]
       /\ lapped' = IF Unread(r) + 1 = RingSize THEN lapped \cup {r} ELSE lapped
  <2>1. Head(todo).ring = r /\ Head(todo).cell = c /\ Head(todo).op = "tail"
    BY <1>7 DEF WriteTail
  <2> QED
    BY <2>1 DEF DoCall
<1>11. /\ DOMAIN rings' = DOMAIN rings /\ Len(rings') = Len(rings)
       /\ \A q \in DOMAIN rings \ {r} : rings'[q] = rings[q]
       /\ rings'[r].tail = c /\ rings'[r].keys = rings[r].keys /\ rings'[r] \in RingRecs
  <2>1. PICK v : v = [rings[r] EXCEPT !.tail = c]
    OBVIOUS
  <2>2. v \in RingRecs /\ v.tail = c /\ v.keys = rings[r].keys
    BY <1>8, <1>9, <2>1 DEF RingRecs
  <2>3. rings' = [rings EXCEPT ![r] = v] /\ rings \in Seq(RingRecs)
    BY <1>10, <2>1, WindowTypes DEF DeskInv
  <2> QED
    BY <1>8, <2>2, <2>3
<1>12. /\ sent' \in Seq(Seq(Letters)) /\ Len(sent') = Len(sent) /\ \A q \in DOMAIN rings \ {r} : sent'[q] = sent[q]
       /\ sent'[r] = Append(sent[r], rings[r].keys[rings[r].tail]) /\ sent[r] \in Seq(Letters)
  <2>1. sent \in Seq(Seq(Letters)) /\ DOMAIN sent = DOMAIN rings
    BY <1>2, WindowTypes DEF DeskInv, SentTypes
  <2>2. rings[r].keys[rings[r].tail] \in Letters
    BY <1>8, <1>9 DEF RingRecs
  <2>3. sent[r] \in Seq(Letters)
    BY <1>8, <2>1
  <2>4. Append(sent[r], rings[r].keys[rings[r].tail]) \in Seq(Letters)
    BY <2>2, <2>3
  <2> QED
    BY <1>8, <1>10, <2>1, <2>3, <2>4
<1>13. TodoInv'
  <2>1. EndsAgree({})'
    <3>1. ASSUME NEW j \in DOMAIN windows, windows[j].ring # 0
          PROVE  windows[j].tail = rings'[windows[j].ring].tail
      <4>1. CASE j = i
        BY <1>5, <1>11, <4>1
      <4>2. CASE j # i
        <5>1. windows[j].ring # r /\ windows[j].ring \in DOMAIN rings
          BY <1>5, <1>8, <3>1, <4>2, RingsApart
        <5>2. windows[j].tail = rings[windows[j].ring].tail
          BY <1>4, <3>1, <4>2 DEF Publishing, EndsAgree
        <5> QED
          BY <1>11, <5>1, <5>2
      <4> QED
        BY <4>1, <4>2
    <3> QED
      BY <1>1, <3>1 DEF EndsAgree
  <2>2. \A j \in DOMAIN todo' : todo'[j].op = "signal"
    BY <1>7 DEF Signal
  <2> QED
    BY <2>1, <2>2 DEF TodoInv, Quiet
<1>14. SentTypes'
  BY <1>2, <1>11, <1>12 DEF SentTypes
<1>15. UnusedInv'
  <2>1. ASSUME g_spawn_queue # <<>>, Head(g_spawn_queue) # 0
        PROVE  Head(g_spawn_queue) \in DOMAIN rings \ {r}
    <3>1. Head(g_spawn_queue) # terms[t].ring /\ Head(g_spawn_queue) \in 0 .. Len(rings)
      BY <1>8, <2>1 DEF DeskInv, SpawnInv
    <3> QED
      BY <1>8, <2>1, <3>1, WindowTypes DEF DeskInv
  <2> QED
    BY <1>1, <1>11, <1>12, <2>1 DEF KeysInv, UnusedInv
<1>16. OrderInv'
  <2>1. ASSUME NEW u \in TermIds, terms[u].ring = r, r \notin lapped', InStep(Pace(terms[u], rings[r]), sent[r], taken[u])
        PROVE  InStep(Pace(terms[u], rings'[r]), sent'[r], taken[u])
    <3>1. PICK g, v, s, h : g = Pace(terms[u], rings[r]) /\ v = Pace(terms[u], rings'[r]) /\ s = sent[r] /\ h = taken[u]
      OBVIOUS
    <3>2. terms[u] \in TermRecs /\ h \in Seq(Letters)
      BY <3>1, WindowTypes DEF DeskInv, WmTypes
    <3>3. g \in Steppers /\ v \in Steppers
      BY <1>8, <1>11, <3>1, <3>2, PaceIs
    <3>4. v.head = g.head /\ v.tail = g.tail /\ v.end = NextCell(g.end) /\ v.keys = g.keys /\ g.end = rings[r].tail
          /\ g.keys = rings[r].keys
      BY <1>9, <1>11, <3>1 DEF Pace
    <3>5. InStep(g, s, h)
      BY <2>1, <3>1
    <3>6. Len(s) - Len(h) + 1 # RingSize
      <4>1. Unread(r) = Len(s) - Len(h)
        BY <1>2, <1>8, <2>1, <3>1, UnreadIs
      <4>2. Unread(r) + 1 # RingSize
        BY <1>10, <2>1
      <4> QED
        BY <4>1, <4>2
    <3>7. s \in Seq(Letters)
      BY <1>12, <3>1
    <3>8. InStep(v, Append(s, g.keys[g.end]), h)
      BY ONLY WmAssumption, <3>2, <3>3, <3>4, <3>5, <3>6, <3>7, PublishInStep
    <3> QED
      BY <1>12, <3>1, <3>4, <3>8
  <2>2. lapped \subseteq lapped'
    BY <1>10
  <2>3. \A q \in DOMAIN rings \ {r} : rings'[q].tail = rings[q].tail /\ rings'[q].keys = rings[q].keys /\ sent'[q] = sent[q]
    BY <1>11, <1>12
  <2> QED
    BY <1>1, <1>2, <2>1, <2>2, <2>3, OneRingMoves
<1>17. SeenInv'
  <2>1. ASSUME NEW j \in DOMAIN windows, windows[j].ring # 0,
               OnItsWay(windows[j].term) \/ ReadsUpTo(terms[windows[j].term], rings[windows[j].ring])
        PROVE  OnItsWay(windows[j].term)' \/ ReadsUpTo(terms'[windows[j].term], rings'[windows[j].ring])
    <3>1. PICK u \in TermIds : u = windows[j].term
      BY WindowTypes DEF DeskInv
    <3>2. OnItsWay(u)' => OnItsWay(windows[j].term)'
      BY <1>1, <3>1 DEF OnItsWay
    <3>3. CASE j = i
      <4>1. u = t /\ 1 \in DOMAIN todo' /\ todo'[1] = Signal(t, "key")
        BY <1>5, <1>7, <3>1, <3>3
      <4> QED
        BY <3>2, <4>1 DEF OnItsWay
    <3>4. CASE j # i
      <4>1. windows[j].ring # r /\ windows[j].ring \in DOMAIN rings
        BY <1>5, <1>8, <2>1, <3>4, RingsApart
      <4>2. rings'[windows[j].ring] = rings[windows[j].ring] /\ terms' = terms
        BY <1>1, <1>11, <4>1
      <4>3. OnItsWay(u) => OnItsWay(u)'
        BY <1>1
      <4> QED
        BY <2>1, <3>1, <3>2, <4>2, <4>3
    <3> QED
      BY <3>3, <3>4
  <2> QED
    BY <1>1, <1>2, <2>1, SeenStays
<1> QED
  BY <1>13, <1>14, <1>15, <1>16, <1>17 DEF KeysInv

\* DoCall makes one of the four.
LEMMA CallKeepsKeys ==
  ASSUME WmAssumption, DeskInv, KeysInv, DoCall
  PROVE  KeysInv'
<1>1. Head(todo).op \in {"signal", "key", "tail", "geo"}
  BY DEF DoCall
<1> QED
  BY <1>1, SignalKeepsKeys, KeyKeepsKeys, TailKeepsKeys, SizeKeepsKeys

\* Between two decisions nothing is being published.
LEMMA NoneToDo ==
  ASSUME TodoInv, todo = <<>>
  PROVE  EndsAgree({}) /\ \A t : OnItsWay(t) => "key" \in terms[t].sig
<1>1. ASSUME NEW i \in DOMAIN windows, Publishing(i)
      PROVE  FALSE
  BY <1>1 DEF Publishing
<1>2. Quiet
  BY <1>1 DEF TodoInv
<1> QED
  BY <1>2 DEF Quiet, OnItsWay

\* Steps that leave the rings and the terminals as they are.
LEMMA OrderSame ==
  ASSUME OrderInv, UNCHANGED <<rings, terms, sent, taken, lapped>>
  PROVE  OrderInv'
  BY DEF OrderInv

\* Steps that only move the loop of the window manager on.
LEMMA LoopKeepsKeys ==
  ASSUME KeysInv, UNCHANGED <<shared, desk, todo>>
  PROVE  KeysInv'
<1>1. UNCHANGED <<g_spawn_queue, rings, terms, sent, taken, lapped, windows, todo>>
  BY DEF shared, desk
<1>2. SentTypes' /\ UnusedInv' /\ OrderInv'
  BY <1>1, OrderSame DEF KeysInv, SentTypes, UnusedInv
<1>3. TodoInv'
  BY <1>1 DEF KeysInv, TodoInv, Quiet, Publishing, EndsAgree
<1>4. SeenInv'
  BY <1>1 DEF KeysInv, SeenInv, OnItsWay
<1> QED
  BY <1>2, <1>3, <1>4 DEF KeysInv

\* A spawn that fails leaves its ring unused.
LEMMA SpawnFailsKeepsKeys ==
  ASSUME DeskInv, KeysInv, SpawnFails
  PROVE  KeysInv'
<1>1. UNCHANGED <<rings, terms, sent, taken, lapped, windows, todo>> /\ g_spawn_queue # <<>>
      /\ g_spawn_queue' = Tail(g_spawn_queue)
  BY DEF SpawnFails, desk
<1>2. g_spawn_queue' = <<>>
  <2>1. g_spawn_queue \in Seq(Nat) /\ Len(g_spawn_queue) <= 1
    BY DEF DeskInv, WmTypes, SpawnInv
  <2> QED
    BY <1>1, <2>1, OneLeft
<1>3. SentTypes' /\ UnusedInv' /\ OrderInv'
  BY <1>1, <1>2, OrderSame DEF KeysInv, SentTypes, UnusedInv
<1>4. TodoInv'
  BY <1>1 DEF KeysInv, TodoInv, Quiet, Publishing, EndsAgree
<1>5. SeenInv'
  BY <1>1 DEF KeysInv, SeenInv, OnItsWay
<1> QED
  BY <1>3, <1>4, <1>5 DEF KeysInv

\* The focus goes to another window.
LEMMA FocusKeepsKeys ==
  ASSUME WmAssumption, DeskInv, KeysInv, NEW j, Focus(j)
  PROVE  KeysInv'
<1>1. /\ todo = <<>> /\ todo' = <<>> /\ j \in DOMAIN windows
      /\ UNCHANGED <<g_spawn_queue, rings, terms, sent, taken, lapped>>
      /\ windows' = Focused(windows, focused_idx, j)
  BY DEF Focus, FocusWindow, Ready, shared
<1>2. windows \in Seq(WindowRecs) /\ focused_idx \in Nat /\ j \in Nat
  BY <1>1, WindowTypes DEF DeskInv, WmTypes
<1>3. /\ DOMAIN windows' = DOMAIN windows
      /\ \A k \in DOMAIN windows : /\ windows'[k].term = windows[k].term /\ windows'[k].ring = windows[k].ring
                                   /\ windows'[k].tail = windows[k].tail
  <2>1. FocusMoved(windows', windows, focused_idx, j)
    BY <1>1, <1>2, FocusedIs
  <2> QED
    BY <2>1 DEF FocusMoved
<1>4. SentTypes' /\ UnusedInv' /\ OrderInv'
  BY <1>1, OrderSame DEF KeysInv, SentTypes, UnusedInv
<1>5. TodoInv'
  <2>1. EndsAgree({})'
    BY <1>1, <1>3, NoneToDo DEF KeysInv, EndsAgree
  <2> QED
    BY <1>1, <2>1 DEF TodoInv, Quiet
<1>6. SeenInv'
  <2>1. \A k \in DOMAIN windows : OnItsWay(windows[k].term)' <=> OnItsWay(windows[k].term)
    BY <1>1, <1>3 DEF OnItsWay
  <2> QED
    BY <1>1, <1>3 DEF KeysInv, SeenInv, OnItsWay
<1> QED
  BY <1>4, <1>5, <1>6 DEF KeysInv

\* send_key_to_focused begins to publish where the ring ends.
LEMMA KeyToFocusedKeepsKeys ==
  ASSUME WmAssumption, DeskInv, KeysInv, NEW k \in Typed, KeyToFocused(k)
  PROVE  KeysInv'
<1>1. PICK i, w, r, t : i = focused_idx /\ w = windows[i] /\ r = w.ring /\ t = w.term
  OBVIOUS
<1>2. /\ todo = <<>> /\ i \in DOMAIN windows /\ windows \in Seq(WindowRecs)
      /\ UNCHANGED <<g_spawn_queue, rings, terms, sent, taken, lapped, focused_idx, pending_shm>>
  BY <1>1, WindowTypes DEF KeyToFocused, Ready, DeskInv, WmTypes, shared
<1>3. CASE r = 0
  <2>1. windows' = windows /\ todo' = todo
    BY <1>1, <1>3 DEF KeyToFocused
  <2> QED
    BY <1>2, <2>1, LoopKeepsKeys DEF shared, desk
<1>4. CASE r # 0
  <2>1. windows' = [windows EXCEPT ![i].tail = (@ + 1) % RingSize] /\ todo' = KeyCalls(w, k)
    BY <1>1, <1>4 DEF KeyToFocused
  <2>2. \A j \in DOMAIN windows : windows[j] \in WindowRecs
    BY WindowTypes DEF DeskInv
  <2>3. /\ DOMAIN windows' = DOMAIN windows /\ \A j \in DOMAIN windows \ {i} : windows'[j] = windows[j]
        /\ windows'[i].ring = r /\ windows'[i].term = t /\ windows'[i].tail = NextCell(w.tail)
    BY <1>1, <1>2, <2>1, <2>2 DEF NextCell, WindowRecs
  <2>4. EndsAgree({}) /\ \A u : OnItsWay(u) => "key" \in terms[u].sig
    BY <1>2, NoneToDo DEF KeysInv
  <2>5. w.tail = rings[r].tail
    BY <1>1, <1>2, <1>4, <2>4 DEF EndsAgree
  <2>6. todo' = <<WriteKey(r, rings[r].tail, k), WriteTail(r, NextCell(w.tail)), Signal(t, "key")>>
    BY <1>1, <2>1, <2>5 DEF KeyCalls, NextCell
  <2>7. TodoInv'
    <3>1. EndsAgree({i})'
      BY <1>2, <2>3, <2>4 DEF EndsAgree
    <3>2. Publishing(i)'
      BY <1>2, <1>4, <2>3, <2>5, <2>6, <3>1 DEF Publishing
    <3> QED
      BY <1>2, <2>3, <3>2 DEF TodoInv
  <2>8. SeenInv'
    <3>1. ASSUME NEW j \in DOMAIN windows', windows'[j].ring # 0
          PROVE  OnItsWay(windows[j].term)' \/ ReadsUpTo(terms'[windows'[j].term], rings'[windows'[j].ring])
      <4>1. CASE j = i
        <5>1. 3 \in DOMAIN todo' /\ todo'[3] = Signal(windows'[j].term, "key")
          BY <2>3, <2>6, <4>1
        <5> QED
          BY <5>1 DEF OnItsWay
      <4>2. CASE j # i
        <5>1. j \in DOMAIN windows /\ windows'[j] = windows[j]
          BY <2>3, <4>2
        <5>2. OnItsWay(windows[j].term) \/ ReadsUpTo(terms[windows[j].term], rings[windows[j].ring])
          BY <3>1, <5>1 DEF KeysInv, SeenInv
        <5>3. "key" \in terms[windows[j].term].sig => OnItsWay(windows[j].term)'
          BY <1>2, <5>1 DEF OnItsWay
        <5> QED
          BY <1>2, <2>4, <5>1, <5>2, <5>3
      <4> QED
        BY <4>1, <4>2
    <3> QED
      BY <3>1 DEF SeenInv
  <2>9. SentTypes' /\ UnusedInv' /\ OrderInv'
    BY <1>2, OrderSame DEF KeysInv, SentTypes, UnusedInv
  <2> QED
    BY <2>7, <2>8, <2>9 DEF KeysInv
<1> QED
  BY <1>3, <1>4

\* What the window manager had still to do when it ends is not done; what was
\* published is there.
LEMMA EndKeepsKeys ==
  ASSUME WmAssumption, DeskInv, KeysInv, WmEnds
  PROVE  KeysInv'
<1>1. /\ windows' = <<>> /\ todo' = <<>>
      /\ UNCHANGED <<g_spawn_queue, terms, taken, sent, lapped>>
      /\ rings' = [r \in DOMAIN rings |-> [rings[r] EXCEPT !.wm = FALSE]]
  BY DEF WmEnds
<1>2. \A r \in DOMAIN rings : rings[r] \in RingRecs
  BY WindowTypes DEF DeskInv
<1>3. /\ DOMAIN rings' = DOMAIN rings
      /\ \A r \in DOMAIN rings : rings'[r].tail = rings[r].tail /\ rings'[r].keys = rings[r].keys
  BY <1>1, <1>2 DEF RingRecs
<1>4. SentTypes'
  <2>1. PICK n : n = Len(rings) /\ n \in Nat /\ DOMAIN rings = 1 .. n
    BY WindowTypes DEF DeskInv
  <2>2. rings' \in [1 .. n -> RingRecs]
    BY <1>1, <1>2, <2>1, ZenonT(60) DEF RingRecs
  <2>3. Len(rings') = n
    BY <2>1, <2>2, FunIsSeq
  <2> QED
    BY <1>1, <2>1, <2>3 DEF KeysInv, SentTypes
<1>5. UnusedInv'
  <2>1. g_spawn_queue # <<>> /\ Head(g_spawn_queue) # 0 => Head(g_spawn_queue) \in DOMAIN rings
    BY WindowTypes DEF DeskInv, SpawnInv
  <2> QED
    BY <1>1, <1>3, <2>1 DEF KeysInv, UnusedInv
<1>6. OrderInv'
  <2>1. PICK r : r = 0
    OBVIOUS
  <2>2. SentTypes /\ OrderInv
    BY DEF KeysInv
  <2>3. lapped \subseteq lapped'
    BY <1>1
  <2>4. \A q \in DOMAIN rings \ {r} : rings'[q].tail = rings[q].tail /\ rings'[q].keys = rings[q].keys /\ sent'[q] = sent[q]
    BY <1>1, <1>3
  <2> QED
    BY <1>1, <2>1, <2>2, <2>3, <2>4, OneRingMoves
<1>7. TodoInv' /\ SeenInv'
  BY <1>1 DEF TodoInv, Quiet, EndsAgree, SeenInv
<1> QED
  BY <1>4, <1>5, <1>6, <1>7 DEF KeysInv

\* A new ring is not used yet.
LEMMA EnqueueKeepsKeys ==
  ASSUME WmAssumption, DeskInv, KeysInv, EnqueueSpawn
  PROVE  KeysInv'
<1>1. /\ todo = <<>> /\ todo' = todo /\ wm = "poll" /\ UNCHANGED <<terms, taken, windows, lapped>>
  BY DEF EnqueueSpawn, Ready
<1>2. g_spawn_queue = <<>>
  BY <1>1 DEF DeskInv, SpawnInv
<1>3. PICK r : /\ g_spawn_queue' = Append(g_spawn_queue, r)
               /\ \/ r = 0 /\ rings' = rings /\ sent' = sent
                  \/ r = Len(rings) + 1 /\ rings' = Append(rings, NewRing) /\ sent' = Append(sent, <<>>)
  BY DEF EnqueueSpawn
<1>4. /\ rings \in Seq(RingRecs) /\ Len(rings) \in Nat /\ DOMAIN rings = 1 .. Len(rings)
      /\ sent \in Seq(Seq(Letters)) /\ Len(sent) = Len(rings) /\ DOMAIN sent = 1 .. Len(rings)
  BY WindowTypes DEF DeskInv, KeysInv, SentTypes
<1>5. /\ sent' \in Seq(Seq(Letters)) /\ Len(sent') = Len(rings')
      /\ \A q \in DOMAIN rings : rings'[q] = rings[q] /\ sent'[q] = sent[q]
      /\ r # 0 => sent'[r] = <<>> /\ rings'[r].tail = 0
  <2>1. NewRing \in RingRecs /\ NewRing.tail = 0
    <3>1. 0 \in Cells /\ <<0, 0>> \in [1 .. 2 -> Nat]
      BY DEF WmAssumption, Cells
    <3> QED
      BY <3>1 DEF NewRing, RingRecs, Letters
  <2>2. <<>> \in Seq(Letters)
    OBVIOUS
  <2>3. CASE r = 0
    BY <1>3, <1>4, <2>3
  <2>4. CASE r # 0
    <3>1. r = Len(rings) + 1 /\ rings' = Append(rings, NewRing) /\ sent' = Append(sent, <<>>)
      BY <1>3, <2>4
    <3>2. /\ Len(rings') = Len(rings) + 1 /\ rings'[Len(rings) + 1] = NewRing
          /\ \A q \in 1 .. Len(rings) : rings'[q] = rings[q]
      BY <1>4, <2>1, <3>1
    <3>3. PICK z : z = <<>> /\ z \in Seq(Letters)
      BY <2>2
    <3>4. sent' = Append(sent, z)
      BY <3>1, <3>3
    <3>5. /\ sent' \in Seq(Seq(Letters)) /\ Len(sent') = Len(sent) + 1 /\ sent'[Len(sent) + 1] = z
          /\ \A q \in 1 .. Len(sent) : sent'[q] = sent[q]
      BY <1>4, <3>3, <3>4, AppendProperties
    <3> QED
      BY <1>4, <2>1, <3>1, <3>2, <3>3, <3>5
  <2> QED
    BY <2>3, <2>4
<1>6. UnusedInv'
  <2>1. Head(g_spawn_queue') = r
    BY <1>2, <1>3
  <2> QED
    BY <1>5, <2>1 DEF UnusedInv
<1>7. OrderInv'
  <2>1. PICK q : q = 0
    OBVIOUS
  <2>2. SentTypes /\ OrderInv
    BY DEF KeysInv
  <2>3. lapped \subseteq lapped'
    BY <1>1
  <2> QED
    BY <1>1, <1>5, <2>1, <2>2, <2>3, OneRingMoves
<1>8. TodoInv'
  <2>1. EndsAgree({})
    BY <1>1, NoneToDo DEF KeysInv
  <2>2. EndsAgree({})'
    BY <1>1, <1>5, <2>1, RingsApart DEF EndsAgree
  <2> QED
    BY <1>1, <2>2 DEF TodoInv, Quiet
<1>9. SeenInv'
  <2>1. \A i \in DOMAIN windows : windows[i].ring # 0 => rings'[windows[i].ring] = rings[windows[i].ring]
    BY <1>5, RingsApart
  <2> QED
    BY <1>1, <2>1 DEF KeysInv, SeenInv, OnItsWay
<1> QED
  BY <1>5, <1>6, <1>7, <1>8, <1>9 DEF KeysInv, SentTypes

\* The calls of tile_all, the signal to a closed window before them or not.
LEMMA TilingQuiet ==
  ASSUME NEW n \in Nat, NEW ws \in Seq(WindowRecs), \A i \in DOMAIN ws : ws[i].ring \in 0 .. n,
         NEW a \in Calls(n), a.op = "signal", NEW y, y = Tiling(ws) \/ y = <<a>> \o Tiling(ws)
  PROVE  /\ \A j \in DOMAIN y :
              \/ y[j].op = "signal"
              \/ \E i \in DOMAIN ws, p \in 1 .. 2, m \in Nat :
                   y[j] = WriteGeo(ws[i].ring, p, m) /\ ws[i].ring # 0 /\ Follows(y, j, ws[i].term)
         /\ \A i \in DOMAIN ws : ws[i].ring # 0 => Follows(y, 0, ws[i].term)
<1>1. PICK T : T = Tiling(ws)
  OBVIOUS
<1>2. T \in Seq(Calls(n))
  BY <1>1, TilingIs
<1>3. ASSUME NEW j \in DOMAIN T
      PROVE  \/ T[j].op = "signal"
             \/ \E i \in DOMAIN ws, p \in 1 .. 2, m \in Nat :
                   T[j] = WriteGeo(ws[i].ring, p, m) /\ ws[i].ring # 0 /\ Follows(T, j, ws[i].term)
  <2>1. PICK i \in DOMAIN ws :
              \/ T[j] = Signal(ws[i].term, "key")
              \/ \E p \in 1 .. 2 : T[j] = WriteGeo(ws[i].ring, p, Len(ws)) /\ ws[i].ring # 0 /\ Follows(T, j, ws[i].term)
    BY <1>1, TilingIs
  <2>2. CASE T[j] = Signal(ws[i].term, "key")
    BY <2>2 DEF Signal
  <2>3. CASE \E p \in 1 .. 2 : T[j] = WriteGeo(ws[i].ring, p, Len(ws)) /\ ws[i].ring # 0 /\ Follows(T, j, ws[i].term)
    <3>1. Len(ws) \in Nat
      OBVIOUS
    <3> QED
      BY <2>3, <3>1
  <2> QED
    BY <2>1, <2>2, <2>3
<1>4. \A i \in DOMAIN ws : ws[i].ring # 0 => Follows(T, 0, ws[i].term)
  BY <1>1, TilingIs
<1>5. CASE y = T
  BY <1>3, <1>4, <1>5
<1>6. CASE y = <<a>> \o T
  <2>1. /\ DOMAIN T = 1 .. Len(T) /\ Len(T) \in Nat /\ DOMAIN y = 1 .. Len(T) + 1 /\ y[1] = a
        /\ \A j \in DOMAIN T : y[j + 1] = T[j]
    BY <1>2, <1>6
  <2>2. ASSUME NEW j \in Nat, NEW t, Follows(T, j, t)
        PROVE  Follows(y, j + 1, t)
    <3>1. PICK l \in DOMAIN T : l > j /\ T[l] = Signal(t, "key")
      BY <2>2 DEF Follows
    <3>2. l + 1 \in DOMAIN y /\ l + 1 > j + 1 /\ y[l + 1] = Signal(t, "key")
      BY <2>1, <3>1
    <3> QED
      BY <3>2 DEF Follows
  <2>3. ASSUME NEW t, Follows(T, 0, t)
        PROVE  Follows(y, 0, t)
    <3>1. PICK l \in DOMAIN y : l > 0 + 1 /\ y[l] = Signal(t, "key")
      BY <2>2, <2>3 DEF Follows
    <3>2. l > 0
      BY <2>1, <3>1
    <3> QED
      BY <3>1, <3>2 DEF Follows
  <2>4. ASSUME NEW j \in DOMAIN y
        PROVE  \/ y[j].op = "signal"
               \/ \E i \in DOMAIN ws, p \in 1 .. 2, m \in Nat :
                   y[j] = WriteGeo(ws[i].ring, p, m) /\ ws[i].ring # 0 /\ Follows(y, j, ws[i].term)
    <3>1. CASE j = 1
      BY <2>1, <3>1
    <3>2. CASE j # 1
      <4>1. PICK l \in DOMAIN T : l \in Nat /\ j = l + 1 /\ y[j] = T[l]
        <5>1. j - 1 \in DOMAIN T /\ j - 1 \in Nat /\ j = (j - 1) + 1
          BY <2>1, <3>2
        <5> QED
          BY <2>1, <5>1
      <4>2. CASE T[l].op = "signal"
        BY <4>1, <4>2
      <4>3. CASE \E i \in DOMAIN ws, p \in 1 .. 2, m \in Nat :
                   T[l] = WriteGeo(ws[i].ring, p, m) /\ ws[i].ring # 0 /\ Follows(T, l, ws[i].term)
        <5>1. PICK i \in DOMAIN ws, p \in 1 .. 2, m \in Nat :
                   T[l] = WriteGeo(ws[i].ring, p, m) /\ ws[i].ring # 0 /\ Follows(T, l, ws[i].term)
          BY <4>3
        <5>2. Follows(y, j, ws[i].term)
          BY <2>2, <4>1, <5>1
        <5> QED
          BY <4>1, <5>1, <5>2
      <4> QED
        BY <1>3, <4>2, <4>3
    <3> QED
      BY <3>1, <3>2
  <2> QED
    BY <1>4, <2>3, <2>4
<1> QED
  BY <1>1, <1>5, <1>6

\* The windows are laid out anew: nothing is being published, and every
\* terminal is told.
LEMMA TiledAnew ==
  ASSUME NEW n \in Nat, NEW ws \in Seq(WindowRecs), \A i \in DOMAIN ws : ws[i].ring \in 0 .. n,
         NEW a \in Calls(n), a.op = "signal", todo' = Tiling(ws) \/ todo' = <<a>> \o Tiling(ws),
         DOMAIN windows' = DOMAIN ws,
         \A i \in DOMAIN ws : windows'[i].ring = ws[i].ring /\ windows'[i].term = ws[i].term /\ windows'[i].tail = ws[i].tail,
         \A i \in DOMAIN ws : ws[i].ring # 0 => ws[i].tail = rings'[ws[i].ring].tail
  PROVE  TodoInv' /\ SeenInv'
<1>1. PICK y : y = todo'
  OBVIOUS
<1>2. y = Tiling(ws) \/ y = <<a>> \o Tiling(ws)
  BY <1>1
<1>3. /\ \A j \in DOMAIN y :
           \/ y[j].op = "signal"
           \/ \E i \in DOMAIN ws, p \in 1 .. 2, m \in Nat :
                y[j] = WriteGeo(ws[i].ring, p, m) /\ ws[i].ring # 0 /\ Follows(y, j, ws[i].term)
      /\ \A i \in DOMAIN ws : ws[i].ring # 0 => Follows(y, 0, ws[i].term)
  BY <1>2, TilingQuiet
<1>4. EndsAgree({})'
  BY DEF EndsAgree
<1>5. Quiet'
  <2>1. ASSUME NEW j \in DOMAIN y
        PROVE  \/ y[j].op = "signal"
               \/ \E i \in DOMAIN windows', p \in 1 .. 2, m \in Nat :
                    y[j] = WriteGeo(windows'[i].ring, p, m) /\ windows'[i].ring # 0 /\ Follows(y, j, windows'[i].term)
    <3>1. CASE y[j].op = "signal"
      BY <3>1
    <3>2. CASE y[j].op # "signal"
      <4>1. PICK i \in DOMAIN ws, p \in 1 .. 2, m \in Nat :
                y[j] = WriteGeo(ws[i].ring, p, m) /\ ws[i].ring # 0 /\ Follows(y, j, ws[i].term)
        BY <1>3, <3>2
      <4>2. windows'[i].ring = ws[i].ring /\ windows'[i].term = ws[i].term /\ i \in DOMAIN windows'
        OBVIOUS
      <4> QED
        BY <4>1, <4>2
    <3> QED
      BY <3>1, <3>2
  <2> QED
    BY <1>1, <1>4, <2>1 DEF Quiet
<1>6. SeenInv'
  <2>1. ASSUME NEW i \in DOMAIN ws, ws[i].ring # 0
        PROVE  OnItsWay(windows[i].term)'
    <3>1. windows'[i].term = ws[i].term /\ Follows(y, 0, ws[i].term)
      BY <1>3, <2>1
    <3> QED
      BY <1>1, <3>1 DEF OnItsWay, Follows
  <2> QED
    BY <2>1 DEF SeenInv
<1> QED
  BY <1>5, <1>6 DEF TodoInv

\* A new terminal begins with an unused ring.
LEMMA SpawnedKeepsKeys ==
  ASSUME WmAssumption, DeskInv, KeysInv, Spawned
  PROVE  KeysInv'
<1>1. /\ todo = <<>> /\ g_spawn_queue # <<>> /\ g_spawn_queue' = Tail(g_spawn_queue)
      /\ UNCHANGED <<rings, sent, taken, lapped>>
  BY DEF Spawned
<1>2. PICK t \in TermIds : 
        /\ t \in Fresh
        /\ terms' = [terms EXCEPT ![t] = [NoTerm EXCEPT !.at = "start", !.ring = Head(g_spawn_queue)]]
        /\ LET ws == Append(windows, [term |-> t, focused |-> FALSE, ring |-> pending_shm, tail |-> 0])
               n == Len(ws)
           IN /\ windows' = Focused(ws, focused_idx, n) /\ focused_idx' = n
              /\ todo' = Tiling(ws)
  BY DEF Spawned, Fresh
<1>20. PICK x, q, v, ws : /\ x = pending_shm /\ q = Head(g_spawn_queue)
                       /\ v = [term |-> t, focused |-> FALSE, ring |-> x, tail |-> 0]
                       /\ ws = Append(windows, v)
  OBVIOUS
<1>21. PICK n, m : n = Len(windows) /\ m = Len(rings)
  OBVIOUS
<1>3. /\ n \in Nat /\ m \in Nat /\ DOMAIN windows = 1 .. n /\ DOMAIN rings = 1 .. m
      /\ windows \in Seq(WindowRecs) /\ focused_idx \in 0 .. n /\ x \in Nat /\ 0 \in Cells
      /\ terms \in [TermIds -> TermRecs]
  BY <1>20, <1>21, WindowTypes DEF DeskInv, WmTypes, WmAssumption, Cells
<1>4. /\ q \in 0 .. m /\ (q # 0 => \A u \in TermIds : terms[u].ring # q)
      /\ (x # 0 => x = q)
  BY <1>1, <1>20, <1>21 DEF DeskInv, SpawnInv
<1>22. g_spawn_queue' = <<>>
  <2>1. g_spawn_queue \in Seq(Nat) /\ Len(g_spawn_queue) <= 1
    BY DEF DeskInv, SpawnInv, WmTypes
  <2> QED
    BY <1>1, <2>1, OneLeft
<1>5. v \in WindowRecs /\ v.term = t /\ v.ring = x /\ v.tail = 0
  BY <1>3, <1>20 DEF WindowRecs
<1>6. /\ ws \in Seq(WindowRecs) /\ Len(ws) = n + 1 /\ DOMAIN ws = 1 .. n + 1 /\ ws[n + 1] = v
      /\ \A k \in 1 .. n : ws[k] = windows[k]
  BY <1>3, <1>5, <1>20, <1>21
<1>7. /\ windows' = Focused(ws, focused_idx, n + 1) /\ todo' = Tiling(ws)
      /\ terms' = [terms EXCEPT ![t] = [NoTerm EXCEPT !.at = "start", !.ring = q]]
  BY <1>2, <1>6, <1>20
<1>8. /\ DOMAIN windows' = DOMAIN ws
      /\ \A k \in DOMAIN ws : windows'[k].term = ws[k].term /\ windows'[k].ring = ws[k].ring /\ windows'[k].tail = ws[k].tail
  <2>1. focused_idx \in Nat /\ n + 1 \in Nat /\ ws \in Seq(WindowRecs)
    BY <1>3, <1>6
  <2>2. FocusMoved(windows', ws, focused_idx, n + 1)
    BY <1>7, <2>1, FocusedIs
  <2> QED
    BY <2>2 DEF FocusMoved
<1>9. PICK g : g = [NoTerm EXCEPT !.at = "start", !.ring = q]
  OBVIOUS
<1>10. g.ring = q /\ g.head = 0 /\ g.tail = 0
  BY <1>9 DEF NoTerm
<1>11. terms'[t] = g /\ \A u \in TermIds \ {t} : terms'[u] = terms[u]
  BY <1>3, <1>7, <1>9
<1>12. \A k \in 1 .. n + 1 : k = n + 1 \/ k \in 1 .. n
  BY <1>3
<1>13. \A k \in DOMAIN ws : ws[k].ring \in 0 .. m
  <2>1. \A k \in 1 .. n : windows[k].ring \in 0 .. m
    BY <1>3, <1>21, WindowTypes DEF DeskInv, RingsAgree
  <2>2. x \in 0 .. m
    BY <1>3, <1>4
  <2> QED
    BY <1>5, <1>6, <1>12, <2>1, <2>2
<1>14. q # 0 => sent[q] = <<>> /\ rings[q].tail = 0
  BY <1>1, <1>20 DEF KeysInv, UnusedInv
<1>15. TodoInv' /\ SeenInv'
  <2>1. \A k \in DOMAIN ws : ws[k].ring # 0 => ws[k].tail = rings[ws[k].ring].tail
    <3>1. \A k \in 1 .. n : windows[k].ring # 0 => windows[k].tail = rings[windows[k].ring].tail
      BY <1>1, <1>3, NoneToDo DEF KeysInv, EndsAgree
    <3> QED
      BY <1>4, <1>5, <1>6, <1>12, <1>14, <3>1
  <2>2. PICK a \in Calls(m) : a.op = "signal"
    <3>1. Signal(t, "key") \in Calls(m) /\ Signal(t, "key").op = "signal"
      BY DEF Calls, Signal, Sigs
    <3> QED
      BY <3>1
  <2>3. m \in Nat /\ ws \in Seq(WindowRecs) /\ (todo' = Tiling(ws) \/ todo' = <<a>> \o Tiling(ws))
    BY <1>3, <1>6, <1>7
  <2>4. \A k \in DOMAIN ws : ws[k].ring # 0 => ws[k].tail = rings'[ws[k].ring].tail
    BY <1>1, <2>1
  <2> QED
    BY ONLY <1>8, <1>13, <2>2, <2>3, <2>4, TiledAnew
<1>16. SentTypes' /\ UnusedInv'
  BY <1>1, <1>22 DEF KeysInv, SentTypes, UnusedInv
<1>17. OrderInv'
  <2>1. ASSUME NEW u \in TermIds, terms'[u].ring # 0, terms'[u].ring \notin lapped
        PROVE  InStep(Pace(terms'[u], rings[terms'[u].ring]), sent[terms'[u].ring], taken[u])
    <3>1. CASE u = t
      <4>1. terms'[u] = g /\ q # 0 /\ q \in DOMAIN rings
        BY <1>3, <1>4, <1>10, <1>11, <2>1, <3>1
      <4>2. taken[t] = <<>>
        BY <1>2 DEF DeskInv, TermsInv, Fresh
      <4>3. PICK p : p = Pace(g, rings[q])
        OBVIOUS
      <4>4. p.head = 0 /\ p.tail = 0 /\ p.end = 0 /\ p.keys = rings[q].keys
        BY <1>10, <1>14, <4>1, <4>3 DEF Pace
      <4>5. p \in Steppers
        <5>1. rings[q].keys \in [Cells -> Letters]
          <6>1. rings[q] \in RingRecs
            BY <4>1, WindowTypes DEF DeskInv
          <6> QED
            BY <6>1 DEF RingRecs
        <5> QED
          BY <1>3, <4>3, <4>4, <5>1 DEF Pace, Steppers
      <4>6. InStep(p, <<>>, <<>>)
        BY <4>4, <4>5, FreshInStep
      <4> QED
        BY <1>10, <1>14, <3>1, <4>1, <4>2, <4>3, <4>6
    <3>2. CASE u # t
      <4>1. terms'[u] = terms[u]
        BY <1>11, <3>2
      <4> QED
        BY <2>1, <4>1 DEF KeysInv, OrderInv
    <3> QED
      BY <3>1, <3>2
  <2> QED
    BY <1>1, <2>1 DEF OrderInv
<1> QED
  BY <1>15, <1>16, <1>17 DEF KeysInv

\* close_window lays out the windows that are left.
LEMMA CloseKeepsKeys ==
  ASSUME WmAssumption, DeskInv, KeysInv, CloseWindow
  PROVE  KeysInv'
<1>0. PICK i, ws, f : i = focused_idx /\ ws = RemoveAt(windows, i) /\ f = AfterClosing(i, Len(ws))
  OBVIOUS
<1>1. /\ todo = <<>> /\ i # 0 /\ windows' = Focused(ws, 0, f)
      /\ todo' = <<Signal(windows[i].term, "close")>> \o Tiling(ws)
      /\ UNCHANGED <<g_spawn_queue, rings, terms, sent, taken, lapped>>
  BY <1>0 DEF CloseWindow, Ready, shared
<1>2. PICK n, m : n = Len(windows) /\ m = Len(rings)
  OBVIOUS
<1>3. /\ n \in Nat /\ m \in Nat /\ DOMAIN windows = 1 .. n /\ DOMAIN rings = 1 .. m
      /\ windows \in Seq(WindowRecs) /\ i \in 1 .. n
  BY <1>0, <1>1, <1>2, WindowTypes DEF DeskInv, WmTypes
<1>4. /\ ws \in Seq(WindowRecs) /\ Len(ws) = n - 1 /\ DOMAIN ws = 1 .. n - 1
      /\ \A k \in DOMAIN ws : Was(i, k) \in 1 .. n /\ ws[k] = windows[Was(i, k)]
  <2>1. PICK q, k : q = windows /\ k = i
    OBVIOUS
  <2>2. q \in Seq(WindowRecs) /\ k \in DOMAIN q /\ ws = RemoveAt(q, k) /\ Len(q) = n
    BY <1>0, <1>2, <1>3, <2>1
  <2>3. /\ RemoveAt(q, k) \in Seq(WindowRecs) /\ Len(RemoveAt(q, k)) = Len(q) - 1
        /\ \A j \in DOMAIN RemoveAt(q, k) : Was(k, j) \in DOMAIN q \ {k} /\ RemoveAt(q, k)[j] = q[Was(k, j)]
    BY <2>2, RemovedIs, ZenonT(60)
  <2> QED
    BY <1>3, <2>1, <2>2, <2>3
<1>5. f \in Nat
  BY <1>0, <1>3, <1>4 DEF AfterClosing
<1>6. /\ DOMAIN windows' = DOMAIN ws
      /\ \A k \in DOMAIN ws : windows'[k].term = ws[k].term /\ windows'[k].ring = ws[k].ring /\ windows'[k].tail = ws[k].tail
  <2>1. 0 \in Nat
    OBVIOUS
  <2>2. FocusMoved(windows', ws, 0, f)
    BY <1>1, <1>4, <1>5, <2>1, FocusedIs
  <2> QED
    BY <2>2 DEF FocusMoved
<1>7. TodoInv' /\ SeenInv'
  <2>1. /\ \A k \in DOMAIN ws : ws[k].ring \in 0 .. m
        /\ \A k \in DOMAIN ws : ws[k].ring # 0 => ws[k].tail = rings'[ws[k].ring].tail
    <3>1. \A k \in 1 .. n : /\ windows[k].ring \in 0 .. m
                            /\ windows[k].ring # 0 => windows[k].tail = rings[windows[k].ring].tail
      <4>1. \A k \in 1 .. n : windows[k].ring # 0 => windows[k].tail = rings[windows[k].ring].tail
        BY <1>1, <1>3, NoneToDo DEF KeysInv, EndsAgree
      <4>2. \A k \in 1 .. n : windows[k].ring \in 0 .. m
        BY <1>2, <1>3, WindowTypes DEF DeskInv, RingsAgree
      <4> QED
        BY <4>1, <4>2
    <3> QED
      BY <1>1, <1>4, <3>1, ZenonT(60)
  <2>2. PICK a \in Calls(m) : a = Signal(windows[i].term, "close") /\ a.op = "signal"
    <3>1. windows[i].term \in TermIds
      BY <1>3, WindowTypes DEF DeskInv
    <3>2. Signal(windows[i].term, "close") \in Calls(m) /\ Signal(windows[i].term, "close").op = "signal"
      BY <3>1 DEF Calls, Signal, Sigs
    <3> QED
      BY <3>2
  <2>3. m \in Nat /\ ws \in Seq(WindowRecs) /\ (todo' = Tiling(ws) \/ todo' = <<a>> \o Tiling(ws))
    BY <1>1, <1>3, <1>4, <2>2
  <2> QED
    BY ONLY <1>6, <2>1, <2>2, <2>3, TiledAnew
<1>8. SentTypes' /\ UnusedInv' /\ OrderInv'
  BY <1>1, OrderSame DEF KeysInv, SentTypes, UnusedInv
<1> QED
  BY <1>7, <1>8 DEF KeysInv

\* Every step keeps the invariant.
LEMMA KeysInvStep == ASSUME WmAssumption PROVE DeskInv /\ KeysInv /\ [WmNext]_wmVars => KeysInv'
<1> SUFFICES ASSUME DeskInv, KeysInv, [WmNext]_wmVars PROVE KeysInv'
  OBVIOUS
<1>1. CASE DoCall
  BY <1>1, CallKeepsKeys
<1>2. CASE Spawned
  BY <1>2, SpawnedKeepsKeys
<1>3. CASE SpawnFails
  BY <1>3, SpawnFailsKeepsKeys
<1>4. CASE Dequeued \/ Composite \/ LoopAgain \/ SessionShown
  <2>1. UNCHANGED <<shared, desk, todo>>
    BY <1>4, Zenon DEF Dequeued, Composite, LoopAgain, SessionShown, Ready, frame
  <2> QED
    BY <2>1, LoopKeepsKeys
<1>5. ASSUME NEW k \in Typed, KeyToFocused(k)
      PROVE  KeysInv'
  BY <1>5, KeyToFocusedKeepsKeys
<1>6. CASE EnqueueSpawn
  BY <1>6, EnqueueKeepsKeys
<1>7. CASE CloseWindow
  BY <1>7, CloseKeepsKeys
<1>8. ASSUME NEW j \in 1 .. MaxWindows, Focus(j)
      PROVE  KeysInv'
  BY <1>8, FocusKeepsKeys
<1>9. CASE WmEnds
  BY <1>9, EndKeepsKeys
<1>10. ASSUME NEW t \in TermIds, TermStep(t) \/ TermKilled(t)
       PROVE  KeysInv'
  BY <1>10, TermKeepsKeys
<1>11. CASE UNCHANGED wmVars
  <2>1. UNCHANGED <<shared, desk, todo>>
    BY <1>11 DEF wmVars, shared, desk
  <2> QED
    BY <2>1, LoopKeepsKeys
<1> QED
  BY <1>1, <1>2, <1>3, <1>4, <1>5, <1>6, <1>7, <1>8, <1>9, <1>10, <1>11 DEF WmNext, WmStep

\* A key pressed in a window reaches its terminal, in order and at once, and so
\* does the size of its cell (wm.c 219-232, term.c 500-535), for every size of
\* the ring and any number of keys, terminals and windows.
THEOREM KeysArrived == WmSpec => []KeysArrive
<1>1. WmInit => DeskInv /\ KeysInv
  BY WmAssumption, WmInitDesk, WmInitKeys
<1>2. (DeskInv /\ KeysInv) /\ [WmNext]_wmVars => (DeskInv /\ KeysInv)'
  BY WmAssumption, DeskInvStep, KeysInvStep
<1>3. DeskInv /\ KeysInv => KeysArrive
  BY WmAssumption, KeysDoArrive
<1> QED
  BY <1>1, <1>2, <1>3, PTL DEF WmSpec
==============================================================================
