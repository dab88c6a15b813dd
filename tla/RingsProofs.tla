---------------------------- MODULE RingsProofs ----------------------------
(***************************************************************************)
(* The two rings of a fragment manager stay whole, for a pool of any       *)
(* number of blocks, when the engine runs one request at a time.           *)
(*                                                                         *)
(* A ring is given by its head and its set of blocks: the set is closed    *)
(* under both links, and no smaller set with the head is closed under      *)
(* Flink.  Detaching the head and appending a node keep this, and leave    *)
(* another ring alone.  Blocks on no ring, a ring in two parts or a head   *)
(* outside its ring are what it excludes.                                  *)
(*                                                                         *)
(* That the rings are the queues of Fifos needs their order too: OrderInv  *)
(* says of each that some sequence lists it, and a move takes the front of *)
(* the one sequence and puts it at the end of the other.                   *)
(***************************************************************************)
EXTENDS Rings, FiniteSetTheorems, LeastNumber, TLAPS

Links == [Blocks -> Blocks]

\* Each of the two links undoes the other.
Paired(f, b) == \A n \in Blocks : b[f[n]] = n /\ f[b[n]] = n

\* S is the set of the blocks of the ring with this head.
IsRing(f, b, S, head) ==
    /\ S \subseteq Blocks
    /\ head = NULL => S = {}
    /\ head # NULL =>
           /\ head \in S
           /\ ClosedUnder(f, S) /\ ClosedUnder(b, S)
           /\ \A T \in SUBSET S : (head \in T /\ ClosedUnder(f, T)) => T = S

-----------------------------------------------------------------------------
\* The blocks RingOf collects are those of the ring.
LEMMA RingOfIs ==
    ASSUME NEW b, NEW S, NEW head, IsRing(Flink, b, S, head)
    PROVE  RingOf(head) = S
<1>1. CASE head = NULL
  BY <1>1 DEF IsRing, RingOf
<1>2. CASE head # NULL
  <2>1. /\ S \in SUBSET Blocks /\ head \in S /\ ClosedUnder(Flink, S)
        /\ \A T \in SUBSET S : (head \in T /\ ClosedUnder(Flink, T)) => T = S
    BY <1>2 DEF IsRing
  <2>2. ASSUME NEW n \in S, NEW T \in SUBSET Blocks, head \in T, ClosedUnder(Flink, T)
        PROVE  n \in T
    <3>1. T \cap S \in SUBSET S /\ head \in T \cap S
      BY <2>1, <2>2
    <3>2. ClosedUnder(Flink, T \cap S)
      BY <2>1, <2>2 DEF ClosedUnder
    <3>3. T \cap S = S
      BY <2>1, <3>1, <3>2
    <3> QED
      BY <3>3, <2>2
  <2>3. S \subseteq RingOf(head)
    BY <1>2, <2>1, <2>2 DEF RingOf
  <2>4. RingOf(head) \subseteq S
    BY <1>2, <2>1 DEF RingOf
  <2> QED
    BY <2>3, <2>4
<1> QED
  BY <1>1, <1>2

\* detach_list takes the head off its ring and leaves the rest a ring.
LEMMA Detached ==
    ASSUME NEW f \in Links, NEW b \in Links, Paired(f, b),
           NEW S, NEW h \in Blocks, h # NULL, IsRing(f, b, S, h),
           NEW f1, NEW b1, <<f1, b1>> = detach_list(f, b, h)
    PROVE  /\ f1 \in Links /\ b1 \in Links /\ Paired(f1, b1)
           /\ f1[h] = h /\ b1[h] = h
           /\ IsRing(f1, b1, S \ {h}, IF f[h] = h THEN NULL ELSE f[h])
<1>1. /\ f1 = [f EXCEPT ![b[h]] = f[h], ![h] = h]
      /\ b1 = [b EXCEPT ![f[h]] = b[h], ![h] = h]
  BY DEF detach_list
<1>2. f[h] \in Blocks /\ b[h] \in Blocks
  BY DEF Links
<1>3. f1 \in Links /\ b1 \in Links /\ f1[h] = h /\ b1[h] = h
  BY <1>1, <1>2 DEF Links
<1>4. /\ \A n \in Blocks : n # h /\ n # b[h] => f1[n] = f[n]
      /\ \A n \in Blocks : n # h /\ n # f[h] => b1[n] = b[n]
      /\ b[h] # h => f1[b[h]] = f[h]
      /\ f[h] # h => b1[f[h]] = b[h]
  BY <1>1, <1>2 DEF Links
<1>5. Paired(f1, b1)
  <2> SUFFICES ASSUME NEW n \in Blocks PROVE b1[f1[n]] = n /\ f1[b1[n]] = n
    BY DEF Paired
  <2>1. CASE n = h
    BY <2>1, <1>3
  <2>2. CASE n # h
    <3>1. b1[f1[n]] = n
      BY <2>2, <1>2, <1>3, <1>4 DEF Paired, Links
    <3>2. f1[b1[n]] = n
      BY <2>2, <1>2, <1>3, <1>4 DEF Paired, Links
    <3> QED
      BY <3>1, <3>2
  <2> QED
    BY <2>1, <2>2
<1>6. /\ S \in SUBSET Blocks /\ h \in S /\ ClosedUnder(f, S) /\ ClosedUnder(b, S)
      /\ \A T \in SUBSET S : (h \in T /\ ClosedUnder(f, T)) => T = S
  BY DEF IsRing
<1>7. CASE f[h] = h
  <2>1. {h} \in SUBSET S /\ ClosedUnder(f, {h})
    BY <1>6, <1>7 DEF ClosedUnder
  <2>2. S \ {h} = {}
    BY <1>6, <2>1
  <2> QED
    BY <1>3, <1>5, <1>7, <2>2 DEF IsRing
<1>8. CASE f[h] # h
  <2>1. f[h] \in S \ {h}
    BY <1>6, <1>8 DEF ClosedUnder
  <2>2. ClosedUnder(f1, S \ {h}) /\ ClosedUnder(b1, S \ {h})
    <3>1. ASSUME NEW n \in S \ {h} PROVE f1[n] \in S \ {h}
      BY <1>2, <1>4, <1>6, <2>1 DEF ClosedUnder, Paired
    <3>2. ASSUME NEW n \in S \ {h} PROVE b1[n] \in S \ {h}
      BY <1>2, <1>4, <1>6, <1>8 DEF ClosedUnder, Paired
    <3> QED
      BY <3>1, <3>2 DEF ClosedUnder
  <2>3. ASSUME NEW T \in SUBSET (S \ {h}), f[h] \in T, ClosedUnder(f1, T)
        PROVE  T = S \ {h}
    <3>1. ASSUME NEW n \in T \cup {h} PROVE f[n] \in T \cup {h}
      BY <1>2, <1>4, <1>6, <2>3 DEF ClosedUnder, Paired
    <3>2. T \cup {h} \in SUBSET S /\ h \in T \cup {h}
      BY <1>6
    <3>3. ClosedUnder(f, T \cup {h})
      BY <3>1 DEF ClosedUnder
    <3>4. T \cup {h} = S
      BY <1>6, <3>2, <3>3
    <3> QED
      BY <3>4
  <2>4. f[h] # NULL
    BY <1>2, RingsAssumption DEF Blocks
  <2> QED
    BY <1>3, <1>5, <1>6, <1>8, <2>1, <2>2, <2>3, <2>4 DEF IsRing
<1> QED
  BY <1>7, <1>8

\* Detaching the head of one ring does not touch another.
LEMMA DetachedAside ==
    ASSUME NEW f \in Links, NEW b \in Links, Paired(f, b),
           NEW h \in Blocks,
           NEW U, NEW g, IsRing(f, b, U, g), h \notin U,
           NEW f1, NEW b1, <<f1, b1>> = detach_list(f, b, h)
    PROVE  IsRing(f1, b1, U, g)
<1>1. CASE g = NULL
  BY <1>1 DEF IsRing
<1>2. CASE g # NULL
  <2>1. /\ f1 = [f EXCEPT ![b[h]] = f[h], ![h] = h]
        /\ b1 = [b EXCEPT ![f[h]] = b[h], ![h] = h]
    BY DEF detach_list
  <2>2. ClosedUnder(f, U) /\ ClosedUnder(b, U) /\ U \subseteq Blocks
    BY <1>2 DEF IsRing
  <2>3. \A n \in U : f1[n] = f[n] /\ b1[n] = b[n]
    BY <2>1, <2>2 DEF ClosedUnder, Paired, Links
  <2> QED
    BY <1>2, <2>2, <2>3 DEF IsRing, ClosedUnder
<1> QED
  BY <1>1, <1>2

\* add_list appends a node that is by itself to a ring.
LEMMA Added ==
    ASSUME NEW f \in Links, NEW b \in Links, Paired(f, b),
           NEW S, NEW h \in Blocks, h # NULL, IsRing(f, b, S, h),
           NEW t \in Blocks, t \notin S, f[t] = t, b[t] = t,
           NEW f1, NEW b1, <<f1, b1>> = add_list(f, b, h, t)
    PROVE  /\ f1 \in Links /\ b1 \in Links /\ Paired(f1, b1)
           /\ IsRing(f1, b1, S \cup {t}, h)
<1>1. /\ f1 = [f EXCEPT ![t] = h, ![b[h]] = t]
      /\ b1 = [b EXCEPT ![h] = t, ![t] = b[h]]
  BY DEF add_list
<1>2. /\ S \in SUBSET Blocks /\ h \in S /\ ClosedUnder(f, S) /\ ClosedUnder(b, S)
      /\ \A T \in SUBSET S : (h \in T /\ ClosedUnder(f, T)) => T = S
  BY DEF IsRing
<1>3. b[h] \in S /\ b[h] \in Blocks /\ b[h] # t /\ h # t
  BY <1>2 DEF ClosedUnder
<1>4. f1 \in Links /\ b1 \in Links
  BY <1>1, <1>3 DEF Links
<1>5. /\ f1[t] = h /\ f1[b[h]] = t /\ b1[h] = t /\ b1[t] = b[h]
      /\ \A n \in Blocks : n # t /\ n # b[h] => f1[n] = f[n]
      /\ \A n \in Blocks : n # t /\ n # h => b1[n] = b[n]
  BY <1>1, <1>3 DEF Links
<1>6. Paired(f1, b1)
  <2> SUFFICES ASSUME NEW n \in Blocks PROVE b1[f1[n]] = n /\ f1[b1[n]] = n
    BY DEF Paired
  <2>1. CASE n = t
    BY <2>1, <1>5
  <2>2. CASE n # t
    <3>1. b1[f1[n]] = n
      BY <2>2, <1>3, <1>5 DEF Paired, Links
    <3>2. f1[b1[n]] = n
      BY <2>2, <1>3, <1>5 DEF Paired, Links
    <3> QED
      BY <3>1, <3>2
  <2> QED
    BY <2>1, <2>2
<1>7. ClosedUnder(f1, S \cup {t}) /\ ClosedUnder(b1, S \cup {t})
  BY <1>2, <1>3, <1>5 DEF ClosedUnder
<1>8. ASSUME NEW T \in SUBSET (S \cup {t}), h \in T, ClosedUnder(f1, T)
      PROVE  T = S \cup {t}
  <2>1. ASSUME NEW n \in T \ {t} PROVE f[n] \in T \ {t}
    <3>1. n \in S /\ f[n] \in S /\ f[n] # t
      BY <1>2 DEF ClosedUnder
    <3>2. CASE n = b[h]
      BY <3>2, <1>3, <1>8 DEF Paired
    <3>3. CASE n # b[h]
      BY <3>1, <3>3, <1>2, <1>5, <1>8 DEF ClosedUnder
    <3> QED
      BY <3>2, <3>3
  <2>2. T \ {t} = S
    <3>1. T \ {t} \in SUBSET S /\ h \in T \ {t} /\ ClosedUnder(f, T \ {t})
      BY <1>3, <1>8, <2>1 DEF ClosedUnder
    <3> QED
      BY <1>2, <3>1
  <2>3. t \in T
    BY <1>3, <1>5, <1>8, <2>2 DEF ClosedUnder
  <2> QED
    BY <2>2, <2>3
<1> QED
  BY <1>2, <1>4, <1>6, <1>7, <1>8 DEF IsRing

\* Appending to one ring does not touch another.
LEMMA AddedAside ==
    ASSUME NEW f \in Links, NEW b \in Links,
           NEW S, NEW h \in Blocks, h # NULL, IsRing(f, b, S, h),
           NEW t \in Blocks,
           NEW U, NEW g, IsRing(f, b, U, g), t \notin U, U \cap S = {},
           NEW f1, NEW b1, <<f1, b1>> = add_list(f, b, h, t)
    PROVE  IsRing(f1, b1, U, g)
<1>1. CASE g = NULL
  BY <1>1 DEF IsRing
<1>2. CASE g # NULL
  <2>1. /\ f1 = [f EXCEPT ![t] = h, ![b[h]] = t]
        /\ b1 = [b EXCEPT ![h] = t, ![t] = b[h]]
    BY DEF add_list
  <2>2. ClosedUnder(f, U) /\ ClosedUnder(b, U) /\ U \subseteq Blocks
    BY <1>2 DEF IsRing
  <2>3. h \in S /\ b[h] \in S
    BY DEF IsRing, ClosedUnder
  <2>4. \A n \in U : f1[n] = f[n] /\ b1[n] = b[n]
    BY <2>1, <2>2, <2>3 DEF Links
  <2> QED
    BY <1>2, <2>2, <2>4 DEF IsRing, ClosedUnder
<1> QED
  BY <1>1, <1>2

-----------------------------------------------------------------------------
(* The invariant *)

\* The free blocks are S, the busy ones the others.
TwoRings(S) ==
    /\ S \in SUBSET Blocks
    /\ IsRing(Flink, Blink, S, idle_list)
    /\ IsRing(Flink, Blink, Blocks \ S, busy_list)
    /\ idle_block = Cardinality(S) /\ busy_block = Cardinality(Blocks \ S)

RingsInv ==
    /\ Flink \in Links /\ Blink \in Links /\ Paired(Flink, Blink)
    /\ idle_list \in Blocks \cup {NULL} /\ busy_list \in Blocks \cup {NULL}
    /\ \E S : TwoRings(S)

\* A thread that has found what it came for still finds it when it moves it:
\* this is what the locks, and here the order of the requests, are for.
FoundInv ==
    /\ pc \in [Threads -> {"idle", "test", "set", "find", "frag_test", "frag_set",
                           "move", "frag_unlock", "unlock"}]
    /\ op \in [Threads -> {"aplly", "release"}]
    /\ \A t, u \in Threads : t # u => pc[t] = "idle" \/ pc[u] = "idle"
    /\ \A t \in Threads : pc[t] \in {"frag_test", "frag_set", "move"} =>
           /\ op[t] = "aplly" => idle_list # NULL
           /\ op[t] = "release" => busy_list # NULL

LEMMA BlocksFinite == IsFiniteSet(Blocks) /\ Cardinality(Blocks) = NB
<1>1. 0 \in Int /\ NB - 1 \in Int
  BY RingsAssumption
<1> QED
  BY <1>1, FS_Interval, RingsAssumption DEF Blocks

\* One block more, one block less.
LEMMA CountMove ==
    ASSUME NEW S \in SUBSET Blocks, NEW n \in S
    PROVE  /\ Cardinality(S \ {n}) = Cardinality(S) - 1
           /\ Cardinality((Blocks \ S) \cup {n}) = Cardinality(Blocks \ S) + 1
<1>1. IsFiniteSet(S) /\ IsFiniteSet(Blocks \ S)
  BY BlocksFinite, FS_Subset
<1> QED
  BY <1>1, FS_AddElement, FS_RemoveElement

\* init_idle_list makes one ring of all blocks: from block 0 the links reach
\* every block, because the least one they did not reach would be reached
\* from the one before it.
LEMMA RingAtStart ==
    ASSUME Init PROVE IsRing(Flink, Blink, Blocks, 0) /\ Paired(Flink, Blink)
<1>1. NB \in Nat /\ NB > 0 /\ Blocks = 0 .. NB - 1 /\ 0 \in Blocks
  BY RingsAssumption DEF Blocks
<1>2. \A n \in Blocks : Flink[n] = IF n = NB - 1 THEN 0 ELSE n + 1
  BY DEF Init, NextNode
<1>3. \A n \in Blocks : Blink[n] = IF n = 0 THEN NB - 1 ELSE n - 1
  BY DEF Init, NextNode
<1>4. ASSUME NEW T \in SUBSET Blocks, 0 \in T, ClosedUnder(Flink, T) PROVE T = Blocks
  <2> SUFFICES ASSUME Blocks \ T # {} PROVE FALSE
    BY <1>4
  <2>1. PICK m \in Blocks \ T : \A j \in Blocks \ T : m <= j
    <3>1. Blocks \ T \in SUBSET Nat
      BY <1>1
    <3> QED
      BY <3>1, LeastExists
  <2>2. m - 1 \in Blocks /\ m - 1 \in T /\ Flink[m - 1] = m
    BY <1>1, <1>2, <1>4, <2>1
  <2> QED
    BY <1>4, <2>1, <2>2 DEF ClosedUnder
<1>5. \A n \in Blocks : Flink[n] \in Blocks /\ Blink[n] \in Blocks
  BY <1>1, <1>2, <1>3
<1>6. Paired(Flink, Blink)
  BY <1>1, <1>2, <1>3, <1>5, SMTT(30) DEF Paired
<1>7. ClosedUnder(Flink, Blocks) /\ ClosedUnder(Blink, Blocks)
  BY <1>5 DEF ClosedUnder
<1>8. 0 # NULL
  BY <1>1, RingsAssumption
<1> QED
  BY <1>1, <1>4, <1>6, <1>7, <1>8 DEF IsRing

LEMMA RingsInit == Init => RingsInv /\ FoundInv
<1> SUFFICES ASSUME Init PROVE RingsInv /\ FoundInv
  OBVIOUS
<1>1. IsRing(Flink, Blink, Blocks, 0) /\ Paired(Flink, Blink)
  BY RingAtStart
<1>2. Blocks \ Blocks = {} /\ Cardinality({}) = 0
  BY FS_EmptySet
<1>3. TwoRings(Blocks)
  BY <1>1, <1>2, BlocksFinite DEF TwoRings, Init, NextNode, IsRing
<1>4. Flink \in Links /\ Blink \in Links
  <2>1. NB \in Nat /\ NB > 0 /\ Blocks = 0 .. NB - 1
    BY RingsAssumption DEF Blocks
  <2>2. \A n \in Blocks : /\ (IF n = NB - 1 THEN 0 ELSE n + 1) \in Blocks
                          /\ (IF n = 0 THEN NB - 1 ELSE n - 1) \in Blocks
    BY <2>1
  <2> QED
    BY <2>2 DEF Init, NextNode, Links
<1>5. idle_list \in Blocks /\ busy_list = NULL
  BY RingsAssumption DEF Init, NextNode, Blocks
<1>6. FoundInv
  BY DEF Init, FoundInv
<1> QED
  BY <1>1, <1>3, <1>4, <1>5, <1>6 DEF RingsInv

-----------------------------------------------------------------------------
\* The head of the ring of S goes to the end of the ring of the others.
LEMMA MoveKeeps ==
    ASSUME NEW f \in Links, NEW b \in Links, Paired(f, b),
           NEW S \in SUBSET Blocks, NEW h \in Blocks, NEW g,
           g \in Blocks \cup {NULL},
           IsRing(f, b, S, h), IsRing(f, b, Blocks \ S, g),
           NEW links, links = detach_list(f, b, h),
           NEW f1, NEW b1,
           <<f1, b1>> = IF g = NULL THEN links ELSE add_list(links[1], links[2], g, h)
    PROVE  /\ f1 \in Links /\ b1 \in Links /\ Paired(f1, b1)
           /\ IsRing(f1, b1, S \ {h}, IF f[h] = h THEN NULL ELSE f[h])
           /\ IsRing(f1, b1, (Blocks \ S) \cup {h}, IF g = NULL THEN h ELSE g)
           /\ h \in S
<1> DEFINE f0 == links[1]
           b0 == links[2]
           next == IF f[h] = h THEN NULL ELSE f[h]
<1>1. NULL \notin Blocks /\ h # NULL
  BY RingsAssumption DEF Blocks
<1>2. h \in S
  BY <1>1 DEF IsRing
<1>3. <<f0, b0>> = detach_list(f, b, h)
  BY DEF detach_list
<1>4. /\ f0 \in Links /\ b0 \in Links /\ Paired(f0, b0)
      /\ f0[h] = h /\ b0[h] = h
      /\ IsRing(f0, b0, S \ {h}, next)
  BY <1>1, <1>3, Detached
<1>5. IsRing(f0, b0, Blocks \ S, g)
  BY <1>2, <1>3, DetachedAside
<1>6. CASE g = NULL
  <2>1. f1 = f0 /\ b1 = b0
    BY <1>6 DEF detach_list
  <2>2. Blocks \ S = {}
    BY <1>6 DEF IsRing
  <2> HIDE DEF f0, b0
  <2>3. IsRing(f0, b0, {h}, h)
    <3>1. ClosedUnder(f0, {h}) /\ ClosedUnder(b0, {h})
      BY <1>4 DEF ClosedUnder
    <3>2. \A T \in SUBSET {h} : h \in T => T = {h}
      OBVIOUS
    <3> QED
      BY <1>1, <3>1, <3>2 DEF IsRing
  <2> QED
    BY <1>2, <1>4, <1>6, <2>1, <2>2, <2>3
<1>7. CASE g # NULL
  <2>1. g \in Blocks /\ <<f1, b1>> = add_list(f0, b0, g, h)
    BY <1>7
  <2> HIDE DEF f0, b0, next
  <2>2. h \notin Blocks \ S
    BY <1>2
  <2>3. /\ f1 \in Links /\ b1 \in Links /\ Paired(f1, b1)
        /\ IsRing(f1, b1, (Blocks \ S) \cup {h}, g)
    BY <1>4, <1>5, <1>7, <2>1, <2>2, Added
  <2>4. IsRing(f1, b1, S \ {h}, next)
    <3>1. h \notin S \ {h} /\ (S \ {h}) \cap (Blocks \ S) = {}
      OBVIOUS
    <3> QED
      BY <1>4, <1>5, <1>7, <2>1, <3>1, AddedAside
  <2> QED
    BY <1>2, <1>7, <2>3, <2>4 DEF next
<1> QED
  BY <1>6, <1>7

LEMMA NextHeadIn ==
    ASSUME Flink \in Links, NEW h \in Blocks
    PROVE  NextHead(h) \in Blocks \cup {NULL}
  BY DEF NextHead, Links

\* A move makes one new function of either kind of link.
LEMMA MovedPair ==
    ASSUME NEW from, NEW to
    PROVE  Moved(from, to) = <<Moved(from, to)[1], Moved(from, to)[2]>>
<1>1. CASE to = NULL
  BY <1>1 DEF Moved, detach_list
<1>2. CASE to # NULL
  BY <1>2 DEF Moved, add_list
<1> QED
  BY <1>1, <1>2

LEMMA BusyMoveKeeps ==
    ASSUME RingsInv, FoundInv, NEW t \in Threads, move_to_busy_list(t)
    PROVE  RingsInv'
<1>1. idle_list \in Blocks /\ busy_list \in Blocks \cup {NULL}
  BY DEF RingsInv, FoundInv, move_to_busy_list
<1>2. PICK S : TwoRings(S)
  BY DEF RingsInv
<1>3. /\ Flink \in Links /\ Blink \in Links /\ Paired(Flink, Blink)
      /\ S \in SUBSET Blocks
      /\ IsRing(Flink, Blink, S, idle_list)
      /\ IsRing(Flink, Blink, Blocks \ S, busy_list)
      /\ idle_block = Cardinality(S) /\ busy_block = Cardinality(Blocks \ S)
  BY <1>2 DEF RingsInv, TwoRings
<1>4. <<Flink', Blink'>> =
          IF busy_list = NULL THEN detach_list(Flink, Blink, idle_list)
          ELSE add_list(detach_list(Flink, Blink, idle_list)[1],
                        detach_list(Flink, Blink, idle_list)[2],
                        busy_list, idle_list)
  <2>1. <<Flink', Blink'>> = Moved(idle_list, busy_list)
    BY MovedPair DEF move_to_busy_list
  <2> QED
    BY <2>1 DEF Moved
<1>5. /\ Flink' \in Links /\ Blink' \in Links /\ Paired(Flink', Blink')
      /\ IsRing(Flink', Blink', S \ {idle_list}, NextHead(idle_list))
      /\ IsRing(Flink', Blink', (Blocks \ S) \cup {idle_list},
                IF busy_list = NULL THEN idle_list ELSE busy_list)
      /\ idle_list \in S
  BY <1>1, <1>3, <1>4, MoveKeeps DEF NextHead
<1>6. (Blocks \ S) \cup {idle_list} = Blocks \ (S \ {idle_list})
  BY <1>1, <1>5
<1>7. /\ Cardinality(S \ {idle_list}) = Cardinality(S) - 1
      /\ Cardinality((Blocks \ S) \cup {idle_list}) = Cardinality(Blocks \ S) + 1
  BY <1>3, <1>5, CountMove
<1>8. /\ idle_list' = NextHead(idle_list)
      /\ busy_list' = IF busy_list = NULL THEN idle_list ELSE busy_list
      /\ idle_block' = idle_block - 1 /\ busy_block' = busy_block + 1
  BY DEF move_to_busy_list
<1>9. \E N : TwoRings(N)'
  <2>0. PICK S1 : S1 = S \ {idle_list}
    OBVIOUS
  <2>1. S1 \in SUBSET Blocks /\ IsRing(Flink', Blink', S1, idle_list')
    BY <2>0, <1>3, <1>5, <1>8
  <2>2. IsRing(Flink', Blink', Blocks \ S1, busy_list')
    BY <2>0, <1>5, <1>6, <1>8
  <2>3. idle_block' = Cardinality(S1) /\ busy_block' = Cardinality(Blocks \ S1)
    BY <2>0, <1>3, <1>6, <1>7, <1>8
  <2> QED
    BY <2>1, <2>2, <2>3 DEF TwoRings
<1> QED
  BY <1>1, <1>3, <1>5, <1>8, <1>9, NextHeadIn DEF RingsInv, Links, Paired, Blocks

LEMMA IdleMoveKeeps ==
    ASSUME RingsInv, FoundInv, NEW t \in Threads, move_to_idle_list(t)
    PROVE  RingsInv'
<1>1. busy_list \in Blocks /\ idle_list \in Blocks \cup {NULL}
  BY DEF RingsInv, FoundInv, move_to_idle_list
<1>2. PICK S : TwoRings(S)
  BY DEF RingsInv
<1> DEFINE B == Blocks \ S
<1>3. /\ Flink \in Links /\ Blink \in Links /\ Paired(Flink, Blink)
      /\ B \in SUBSET Blocks /\ S = Blocks \ B
      /\ IsRing(Flink, Blink, B, busy_list)
      /\ IsRing(Flink, Blink, Blocks \ B, idle_list)
      /\ busy_block = Cardinality(B) /\ idle_block = Cardinality(Blocks \ B)
  <2>1. S \in SUBSET Blocks
    BY <1>2 DEF TwoRings
  <2>2. S = Blocks \ B
    BY <2>1
  <2> QED
    BY <1>2, <2>1, <2>2 DEF RingsInv, TwoRings
<1> HIDE DEF B
<1>4. <<Flink', Blink'>> =
          IF idle_list = NULL THEN detach_list(Flink, Blink, busy_list)
          ELSE add_list(detach_list(Flink, Blink, busy_list)[1],
                        detach_list(Flink, Blink, busy_list)[2],
                        idle_list, busy_list)
  <2>1. <<Flink', Blink'>> = Moved(busy_list, idle_list)
    BY MovedPair DEF move_to_idle_list
  <2> QED
    BY <2>1 DEF Moved
<1>5. /\ Flink' \in Links /\ Blink' \in Links /\ Paired(Flink', Blink')
      /\ IsRing(Flink', Blink', B \ {busy_list}, NextHead(busy_list))
      /\ IsRing(Flink', Blink', (Blocks \ B) \cup {busy_list},
                IF idle_list = NULL THEN busy_list ELSE idle_list)
      /\ busy_list \in B
  BY <1>1, <1>3, <1>4, MoveKeeps DEF NextHead
<1>6. Blocks \ ((Blocks \ B) \cup {busy_list}) = B \ {busy_list}
  BY <1>1, <1>3, <1>5
<1>7. /\ Cardinality(B \ {busy_list}) = Cardinality(B) - 1
      /\ Cardinality((Blocks \ B) \cup {busy_list}) = Cardinality(Blocks \ B) + 1
  BY <1>3, <1>5, CountMove
<1>8. /\ busy_list' = NextHead(busy_list)
      /\ idle_list' = IF idle_list = NULL THEN busy_list ELSE idle_list
      /\ idle_block' = idle_block + 1 /\ busy_block' = busy_block - 1
  BY DEF move_to_idle_list
<1>9. \E N : TwoRings(N)'
  <2>0. PICK S1 : S1 = (Blocks \ B) \cup {busy_list}
    OBVIOUS
  <2>1. S1 \in SUBSET Blocks /\ IsRing(Flink', Blink', S1, idle_list')
    BY <2>0, <1>1, <1>3, <1>5, <1>8
  <2>2. IsRing(Flink', Blink', Blocks \ S1, busy_list')
    BY <2>0, <1>5, <1>6, <1>8
  <2>3. idle_block' = Cardinality(S1) /\ busy_block' = Cardinality(Blocks \ S1)
    BY <2>0, <1>3, <1>6, <1>7, <1>8
  <2> QED
    BY <2>1, <2>2, <2>3 DEF TwoRings
<1> QED
  BY <1>1, <1>3, <1>5, <1>8, <1>9, NextHeadIn DEF RingsInv, Links, Paired, Blocks

-----------------------------------------------------------------------------
(* Every other step leaves the rings alone and finds what is there *)

\* An idle block counted is an idle block in the ring.
LEMMA CountedIsThere ==
    ASSUME RingsInv, idle_block # 0
    PROVE  idle_list # NULL
<1>1. PICK S : TwoRings(S)
  BY DEF RingsInv
<1>2. idle_list = NULL => S = {}
  BY <1>1 DEF TwoRings, IsRing
<1> QED
  BY <1>1, <1>2, FS_EmptySet DEF TwoRings

LEMMA FoundCall ==
    ASSUME Serialized, RingsInv, FoundInv, NEW t \in Threads, Call(t) \/ Step(t)
    PROVE  FoundInv'
<1>1. \A u \in Threads \ {t} : pc[u] = "idle"
  BY DEF FoundInv, Call, Step, aplly_memory, release_memory, MayStart,
         try_locked_memory_pool, find, lock_fragment_manager, move_to_busy_list,
         move_to_idle_list, unlock_fragment_manager, unlocked_memory_pool
<1>2. /\ pc' \in [Threads -> {"idle", "test", "set", "find", "frag_test", "frag_set",
                              "move", "frag_unlock", "unlock"}]
      /\ \A u \in Threads \ {t} : pc'[u] = pc[u]
  BY DEF FoundInv, Goto, Call, Step, aplly_memory, release_memory,
         try_locked_memory_pool, find, lock_fragment_manager, move_to_busy_list,
         move_to_idle_list, unlock_fragment_manager, unlocked_memory_pool
<1>3. op' \in [Threads -> {"aplly", "release"}]
  BY DEF FoundInv, Call, Step, aplly_memory, release_memory,
         try_locked_memory_pool, find, lock_fragment_manager, move_to_busy_list,
         move_to_idle_list, unlock_fragment_manager, unlocked_memory_pool
<1>4. ASSUME pc'[t] \in {"frag_test", "frag_set", "move"}
      PROVE  /\ op'[t] = "aplly" => idle_list' # NULL
             /\ op'[t] = "release" => busy_list' # NULL
  <2>1. CASE find(t)
    <3>1. op[t] = "aplly" => idle_list # NULL
      BY <1>4, <2>1, CountedIsThere DEF find, Goto, FoundInv
    <3>2. op[t] = "release" => busy_list # NULL
      BY <1>4, <2>1 DEF find, Goto, FoundInv, RingOf
    <3> QED
      BY <2>1, <3>1, <3>2 DEF find, ringVars
  <2>2. CASE lock_fragment_manager(t)
    BY <2>2 DEF lock_fragment_manager, FoundInv, ringVars
  <2>3. CASE ~find(t) /\ ~lock_fragment_manager(t)
    BY <1>4, <2>3
    DEF FoundInv, Goto, Call, Step, aplly_memory, release_memory,
        try_locked_memory_pool, move_to_busy_list, move_to_idle_list,
        unlock_fragment_manager, unlocked_memory_pool
  <2> QED
    BY <2>1, <2>2, <2>3
<1> QED
  BY <1>1, <1>2, <1>3, <1>4 DEF FoundInv

LEMMA RingsStep ==
    ASSUME RingsInv, FoundInv, NEW t \in Threads, Call(t) \/ Step(t)
    PROVE  RingsInv'
<1>1. CASE move_to_busy_list(t)
  BY <1>1, BusyMoveKeeps
<1>2. CASE move_to_idle_list(t)
  BY <1>2, IdleMoveKeeps
<1>3. CASE UNCHANGED ringVars
  BY <1>3 DEF ringVars, linkVars, RingsInv, TwoRings
<1> QED
  BY <1>1, <1>2, <1>3
  DEF Call, Step, aplly_memory, release_memory, try_locked_memory_pool, find,
      lock_fragment_manager, unlock_fragment_manager, unlocked_memory_pool

\* What the invariant says in the words of the model.
LEMMA RingsShown == RingsInv => RingsWhole
<1> SUFFICES ASSUME RingsInv PROVE RingsWhole
  OBVIOUS
<1>1. PICK S : TwoRings(S)
  BY DEF RingsInv
<1>2. RingOf(idle_list) = S /\ RingOf(busy_list) = Blocks \ S
  BY <1>1, RingOfIs DEF TwoRings
<1> QED
  BY <1>1, <1>2 DEF RingsInv, RingsWhole, TwoRings, Paired

\* With one request at a time, the free and the busy blocks form two doubly
\* linked rings that together hold every block once, and the counters count
\* them: after any sequence of allocations and releases, in whichever order
\* blocks are released, for a pool of any number of blocks and any number of
\* handler threads.
THEOREM RingsSafe ==
    ASSUME Serialized
    PROVE  Spec => []RingsWhole
<1>1. Init => RingsInv /\ FoundInv
  BY RingsInit
<1>2. RingsInv /\ FoundInv /\ [Next]_vars => (RingsInv /\ FoundInv)'
  <2>1. ASSUME RingsInv, FoundInv, NEW t \in Threads, Call(t) \/ Step(t)
        PROVE  (RingsInv /\ FoundInv)'
    BY <2>1, FoundCall, RingsStep
  <2>2. ASSUME RingsInv, FoundInv, UNCHANGED vars
        PROVE  (RingsInv /\ FoundInv)'
    BY <2>2 DEF vars, ringVars, linkVars, lockVars, RingsInv, TwoRings, FoundInv
  <2> QED
    BY <2>1, <2>2 DEF Next
<1> QED
  BY <1>1, <1>2, RingsShown, PTL DEF Spec

-----------------------------------------------------------------------------
RestTypes ==
    /\ locked \in BOOLEAN /\ frag_locked \in BOOLEAN
    /\ st \in [Threads -> Blocks] /\ held \subseteq Blocks

LEMMA RestTypesStep ==
    ASSUME RingsInv, FoundInv, RestTypes, NEW t \in Threads, Call(t) \/ Step(t)
    PROVE  RestTypes'
<1> USE DEF RestTypes
<1>1. CASE Call(t)
  BY <1>1 DEF Call, aplly_memory, release_memory, lockVars
<1>2. CASE move_to_busy_list(t)
  <2>1. idle_list \in Blocks
    BY <1>2 DEF move_to_busy_list, FoundInv, RingsInv
  <2> QED
    BY <1>2, <2>1 DEF move_to_busy_list, lockVars
<1>3. CASE try_locked_memory_pool(t) \/ find(t) \/ lock_fragment_manager(t)
           \/ move_to_idle_list(t) \/ unlock_fragment_manager(t) \/ unlocked_memory_pool(t)
  BY <1>3 DEF try_locked_memory_pool, find, lock_fragment_manager, move_to_idle_list,
              unlock_fragment_manager, unlocked_memory_pool, Unlocked, lockVars
<1> QED
  BY <1>1, <1>2, <1>3 DEF Step

\* With one request at a time every link, head, lock and counter keeps its type, for
\* a pool of any number of blocks: NULL is never followed and never handed out.
THEOREM RingsTyped ==
    ASSUME Serialized
    PROVE  Spec => []TypeOK
<1>1. Init => RingsInv /\ FoundInv /\ RestTypes
  <2>1. 0 \in Blocks
    BY RingsAssumption DEF Blocks
  <2> QED
    BY <2>1, RingsInit DEF Init, RestTypes
<1>2. RingsInv /\ FoundInv /\ RestTypes /\ [Next]_vars => (RingsInv /\ FoundInv /\ RestTypes)'
  <2>1. ASSUME RingsInv, FoundInv, RestTypes, NEW t \in Threads, Call(t) \/ Step(t)
        PROVE  (RingsInv /\ FoundInv /\ RestTypes)'
    BY <2>1, FoundCall, RingsStep, RestTypesStep
  <2>2. ASSUME RingsInv, FoundInv, RestTypes, UNCHANGED vars
        PROVE  (RingsInv /\ FoundInv /\ RestTypes)'
    BY <2>2 DEF vars, ringVars, linkVars, lockVars, RingsInv, TwoRings, FoundInv, RestTypes
  <2> QED
    BY <2>1, <2>2 DEF Next
<1>3. RingsInv /\ RestTypes => TypeOK
  <2> SUFFICES ASSUME RingsInv, RestTypes PROVE TypeOK
    OBVIOUS
  <2>1. PICK S : TwoRings(S)
    BY DEF RingsInv
  <2>2. \A T \in SUBSET Blocks : Cardinality(T) \in 0 .. NB
    BY BlocksFinite, FS_Subset, FS_CardinalityType
  <2>3. idle_block \in 0 .. NB /\ busy_block \in 0 .. NB
    BY <2>1, <2>2 DEF TwoRings
  <2> QED
    BY <2>3 DEF RingsInv, RestTypes, Links, TypeOK
<1> QED
  BY <1>1, <1>2, <1>3, PTL DEF Spec

-----------------------------------------------------------------------------
(* The rings as queues *)

\* w lists the blocks of the ring with this head in the order of its links.
Ordered(f, head, w) ==
    /\ w \in Seq(Blocks)
    /\ head = IF w = <<>> THEN NULL ELSE w[1]
    /\ \A j, k \in DOMAIN w : w[j] = w[k] => j = k
    /\ \A k \in DOMAIN w : f[w[k]] = IF k = Len(w) THEN w[1] ELSE w[k + 1]

Apart(w, v) == \A j \in DOMAIN w, k \in DOMAIN v : w[j] # v[k]

Orders(w, v) ==
    /\ Ordered(Flink, idle_list, w) /\ Len(w) = idle_block
    /\ Ordered(Flink, busy_list, v) /\ Len(v) = busy_block
    /\ Apart(w, v)

OrderInv == \E w, v : Orders(w, v)

\* Two walks of one length from one head are the same: they would have to
\* differ somewhere first.
LEMMA WalkIs ==
    ASSUME NEW f, NEW head, NEW w, Ordered(f, head, w), NEW n, n = Len(w)
    PROVE  Walk(f, head, n) = w
<1>1. w \in [1 .. n -> Blocks] /\ n \in Nat /\ DOMAIN w = 1 .. n
  BY DEF Ordered
<1>2. Follows(f, head, w)
  <2> SUFFICES ASSUME NEW k \in 1 .. n
               PROVE  w[k] = IF k = 1 THEN head ELSE f[w[k - 1]]
    BY <1>1 DEF Follows
  <2>1. CASE k = 1
    <3>1. w # <<>>
      BY <1>1, <2>1
    <3> QED
      BY <2>1, <3>1 DEF Ordered
  <2>2. CASE k # 1
    <3>1. k - 1 \in DOMAIN w /\ k - 1 # Len(w) /\ (k - 1) + 1 = k
      BY <1>1, <2>2
    <3> QED
      BY <2>2, <3>1 DEF Ordered
  <2> QED
    BY <2>1, <2>2
<1>3. ASSUME NEW c \in [1 .. n -> Blocks], Follows(f, head, c)
      PROVE  c = w
  <2> DEFINE S == {k \in 1 .. n : c[k] # w[k]}
  <2> SUFFICES ASSUME S # {} PROVE FALSE
    BY <1>1, <1>3
  <2>1. PICK least \in S : \A k \in S : least <= k
    <3>1. S \in SUBSET Nat
      BY <1>1
    <3> QED
      BY <3>1, LeastExists
  <2>2. least \in 1 .. n /\ c[least] # w[least]
    OBVIOUS
  <2>3. CASE least = 1
    BY <1>1, <1>2, <1>3, <2>2, <2>3 DEF Follows
  <2>4. CASE least # 1
    <3>1. least - 1 \in 1 .. n /\ least - 1 \notin S
      BY <1>1, <2>1, <2>2, <2>4
    <3>2. c[least - 1] = w[least - 1]
      BY <3>1
    <3> QED
      BY <1>1, <1>2, <1>3, <2>2, <2>4, <3>2 DEF Follows
  <2> QED
    BY <2>3, <2>4
<1> QED
  BY <1>1, <1>2, <1>3 DEF Walk

\* Taking the first block of one order and putting it at the end of the other.
LEMMA OrderMoves ==
    ASSUME NEW f \in Links, NEW b \in Links, Paired(f, b),
           NEW h \in Blocks, NEW g, NEW w, NEW v,
           Ordered(f, h, w), Ordered(f, g, v), Apart(w, v),
           NEW links, links = detach_list(f, b, h),
           NEW f1, NEW b1,
           <<f1, b1>> = IF g = NULL THEN links ELSE add_list(links[1], links[2], g, h)
    PROVE  /\ w # <<>> /\ h = Head(w)
           /\ Ordered(f1, IF f[h] = h THEN NULL ELSE f[h], Tail(w))
           /\ Ordered(f1, IF g = NULL THEN h ELSE g, Append(v, h))
           /\ Apart(Tail(w), Append(v, h))
<1> DEFINE n == Len(w)
           m == Len(v)
<1>0. h # NULL /\ NULL \notin Blocks
  BY RingsAssumption DEF Blocks
<1>1. /\ w \in Seq(Blocks) /\ v \in Seq(Blocks) /\ w # <<>> /\ w[1] = h
      /\ n \in Nat /\ m \in Nat /\ n > 0 /\ DOMAIN w = 1 .. n /\ DOMAIN v = 1 .. m
  BY <1>0 DEF Ordered
<1>2. /\ \A j, k \in 1 .. n : w[j] = w[k] => j = k
      /\ \A j, k \in 1 .. m : v[j] = v[k] => j = k
      /\ \A j \in 1 .. n, k \in 1 .. m : w[j] # v[k]
      /\ \A k \in 1 .. n : w[k] \in Blocks /\ f[w[k]] = IF k = n THEN w[1] ELSE w[k + 1]
      /\ \A k \in 1 .. m : v[k] \in Blocks /\ f[v[k]] = IF k = m THEN v[1] ELSE v[k + 1]
  <2>1. \A k \in 1 .. n : w[k] \in Blocks
    BY <1>1
  <2>2. \A k \in 1 .. m : v[k] \in Blocks
    BY <1>1
  <2>3. \A j \in 1 .. n, k \in 1 .. m : w[j] # v[k]
    BY <1>1, Zenon DEF Apart
  <2>4. /\ \A j, k \in 1 .. n : w[j] = w[k] => j = k
        /\ \A k \in 1 .. n : f[w[k]] = IF k = n THEN w[1] ELSE w[k + 1]
    BY <1>1, Zenon DEF Ordered
  <2>5. /\ \A j, k \in 1 .. m : v[j] = v[k] => j = k
        /\ \A k \in 1 .. m : f[v[k]] = IF k = m THEN v[1] ELSE v[k + 1]
    BY <1>1, Zenon DEF Ordered
  <2> QED
    BY <2>1, <2>2, <2>3, <2>4, <2>5
<1> HIDE DEF n, m
<1>3. b[h] = w[n] /\ f[h] = (IF n = 1 THEN h ELSE w[2]) /\ (n > 1 => w[2] # h)
  <2>1. n \in 1 .. n /\ 1 \in 1 .. n /\ (n > 1 => 2 \in 1 .. n)
    BY <1>1
  <2>2. f[w[n]] = h /\ w[n] \in Blocks
    BY <1>1, <1>2, <2>1
  <2> QED
    BY <1>1, <1>2, <2>1, <2>2 DEF Paired
<1>4. (g = NULL <=> m = 0) /\ (m > 0 => g = v[1] /\ b[g] = v[m])
  <2>1. CASE v = <<>>
    BY <1>0, <1>1, <2>1 DEF Ordered, m
  <2>2. CASE v # <<>>
    <3>1. m > 0 /\ g = v[1] /\ m \in 1 .. m /\ 1 \in 1 .. m
      BY <1>1, <2>2 DEF Ordered, m
    <3>2. f[v[m]] = v[1] /\ v[m] \in Blocks /\ v[1] \in Blocks
      BY <1>2, <3>1
    <3> QED
      BY <1>0, <3>1, <3>2 DEF Paired
  <2> QED
    BY <2>1, <2>2
<1>5. /\ links[1] = [f EXCEPT ![b[h]] = f[h], ![h] = h]
      /\ links[2] = [b EXCEPT ![f[h]] = b[h], ![h] = h]
  BY DEF detach_list
<1>6. f1 = IF m = 0 THEN links[1] ELSE [links[1] EXCEPT ![h] = g, ![v[m]] = h]
  <2>1. CASE m = 0
    BY <1>4, <2>1 DEF detach_list
  <2>2. CASE m # 0
    <3>1. 1 \in 1 .. m /\ g = v[1] /\ b[g] = v[m] /\ g \in Blocks
      BY <1>1, <1>2, <1>4, <2>2
    <3>2. g # h /\ g # f[h]
      <4>1. 1 \in 1 .. n /\ (n # 1 => 2 \in 1 .. n)
        BY <1>1
      <4> QED
        BY <1>1, <1>2, <1>3, <3>1, <4>1
    <3>3. links[2][g] = v[m]
      BY <1>5, <3>1, <3>2 DEF Links
    <3> QED
      BY <1>4, <2>2, <3>3 DEF add_list
  <2> QED
    BY <2>1, <2>2
<1>7. /\ f1[h] = IF m = 0 THEN h ELSE v[1]
      /\ m > 0 => f1[v[m]] = h
      /\ n > 1 => f1[w[n]] = w[2]
      /\ \A x \in Blocks : (x # h /\ x # w[n] /\ (m > 0 => x # v[m])) => f1[x] = f[x]
  <2>1. n \in 1 .. n /\ 1 \in 1 .. n /\ w[n] \in Blocks /\ (n > 1 => w[n] # h)
    BY <1>1, <1>2
  <2>2. m > 0 => m \in 1 .. m /\ v[m] \in Blocks /\ v[m] # h /\ v[m] # w[n]
    BY <1>1, <1>2, <2>1
  <2>3. CASE m = 0
    BY <1>1, <1>3, <1>5, <1>6, <2>1, <2>3 DEF Links
  <2>4. CASE m > 0
    BY <1>1, <1>3, <1>4, <1>5, <1>6, <2>1, <2>2, <2>4 DEF Links
  <2> QED
    BY <1>1, <2>3, <2>4
<1>8. Ordered(f1, IF f[h] = h THEN NULL ELSE f[h], Tail(w))
  <2> DEFINE r == Tail(w)
  <2>1. /\ r \in Seq(Blocks) /\ Len(r) = n - 1 /\ DOMAIN r = 1 .. n - 1
        /\ \A k \in 1 .. n - 1 : r[k] = w[k + 1]
    BY <1>1 DEF n
  <2> HIDE DEF r
  <2>2. r = <<>> <=> n = 1
    <3>1. r = <<>> => Len(r) = 0
      OBVIOUS
    <3>2. Len(r) = 0 => r = <<>>
      BY <2>1
    <3> QED
      BY <1>1, <2>1, <3>1, <3>2
  <2>3. (IF f[h] = h THEN NULL ELSE f[h]) = IF r = <<>> THEN NULL ELSE r[1]
    <3>1. n > 1 => r[1] = w[2]
      <4>1. n > 1 => 1 \in 1 .. n - 1 /\ 1 + 1 = 2
        BY <1>1
      <4> QED
        BY <2>1, <4>1
    <3>2. n = 1 \/ n > 1
      BY <1>1
    <3> QED
      BY <1>3, <2>2, <3>1, <3>2
  <2>4. ASSUME NEW j \in 1 .. n - 1, NEW k \in 1 .. n - 1, r[j] = r[k]
        PROVE  j = k
    <3>1. j + 1 \in 1 .. n /\ k + 1 \in 1 .. n
      BY <1>1
    <3> QED
      BY <1>2, <2>1, <2>4, <3>1
  <2>5. ASSUME NEW k \in 1 .. n - 1
        PROVE  f1[r[k]] = IF k = n - 1 THEN r[1] ELSE r[k + 1]
    <3>1. k + 1 \in 1 .. n /\ 1 \in 1 .. n /\ n \in 1 .. n /\ n > 1 /\ 1 \in 1 .. n - 1
      BY <1>1
    <3>2. CASE k = n - 1
      BY <1>1, <1>7, <2>1, <3>1, <3>2
    <3>3. CASE k # n - 1
      <4>1. k + 1 # n /\ k + 1 # 1 /\ k + 1 \in 1 .. n - 1
        BY <1>1, <3>3
      <4>2. w[k + 1] \in Blocks /\ w[k + 1] # h /\ w[k + 1] # w[n]
        BY <1>1, <1>2, <3>1, <4>1
      <4>3. m > 0 => w[k + 1] # v[m]
        BY <1>1, <1>2, <3>1
      <4>4. f1[w[k + 1]] = w[(k + 1) + 1]
        BY <1>2, <1>7, <3>1, <4>1, <4>2, <4>3
      <4> QED
        BY <2>1, <3>3, <4>1, <4>4
    <3> QED
      BY <3>2, <3>3
  <2>6. Ordered(f1, IF f[h] = h THEN NULL ELSE f[h], r)
    BY <2>1, <2>3, <2>4, <2>5 DEF Ordered
  <2> QED
    BY <2>6 DEF r
<1>9. /\ Append(v, h) \in Seq(Blocks) /\ Len(Append(v, h)) = m + 1
      /\ DOMAIN Append(v, h) = 1 .. m + 1
      /\ Append(v, h)[m + 1] = h
      /\ \A k \in 1 .. m : Append(v, h)[k] = v[k]
  BY <1>1 DEF m
<1>10. Ordered(f1, IF g = NULL THEN h ELSE g, Append(v, h))
  <2> DEFINE r == Append(v, h)
  <2>1. /\ r \in Seq(Blocks) /\ Len(r) = m + 1 /\ DOMAIN r = 1 .. m + 1 /\ r[m + 1] = h
        /\ \A k \in 1 .. m : r[k] = v[k]
    BY <1>9
  <2>2. r # <<>>
    BY <1>1, <2>1
  <2> HIDE DEF r
  <2>3. (IF g = NULL THEN h ELSE g) = r[1]
    BY <1>1, <1>4, <2>1
  <2>4. ASSUME NEW j \in 1 .. m + 1, NEW k \in 1 .. m + 1, r[j] = r[k]
        PROVE  j = k
    <3>1. \A l \in 1 .. m : v[l] # h
      <4>1. 1 \in 1 .. n
        BY <1>1
      <4> QED
        BY <1>1, <1>2, <4>1
    <3>2. CASE j = m + 1 \/ k = m + 1
      BY <1>1, <2>1, <2>4, <3>1, <3>2
    <3>3. CASE j # m + 1 /\ k # m + 1
      <4>1. j \in 1 .. m /\ k \in 1 .. m
        BY <1>1, <3>3
      <4> QED
        BY <1>2, <2>1, <2>4, <4>1
    <3> QED
      BY <3>2, <3>3
  <2>5. ASSUME NEW k \in 1 .. m + 1
        PROVE  f1[r[k]] = IF k = m + 1 THEN r[1] ELSE r[k + 1]
    <3>1. CASE k = m + 1
      BY <1>1, <1>7, <2>1, <3>1
    <3>2. CASE k = m
      BY <1>1, <1>7, <2>1, <3>2
    <3>3. CASE k # m + 1 /\ k # m
      <4>1. k \in 1 .. m /\ k + 1 \in 1 .. m /\ m \in 1 .. m /\ 1 \in 1 .. n /\ n \in 1 .. n
        BY <1>1, <3>3
      <4>2. v[k] \in Blocks /\ v[k] # h /\ v[k] # w[n] /\ v[k] # v[m]
        BY <1>1, <1>2, <3>3, <4>1
      <4>3. f1[v[k]] = v[k + 1]
        BY <1>2, <1>7, <3>3, <4>1, <4>2
      <4> QED
        BY <2>1, <3>3, <4>1, <4>3
    <3> QED
      BY <3>1, <3>2, <3>3
  <2>6. Ordered(f1, IF g = NULL THEN h ELSE g, r)
    BY <2>1, <2>2, <2>3, <2>4, <2>5 DEF Ordered
  <2> QED
    BY <2>6 DEF r
<1>11. Apart(Tail(w), Append(v, h))
  <2>1. /\ DOMAIN Tail(w) = 1 .. n - 1
        /\ \A k \in 1 .. n - 1 : Tail(w)[k] = w[k + 1]
    BY <1>1 DEF n
  <2> SUFFICES ASSUME NEW j \in 1 .. n - 1, NEW k \in 1 .. m + 1
               PROVE  Tail(w)[j] # Append(v, h)[k]
    BY <1>9, <2>1 DEF Apart
  <2>2. j + 1 \in 1 .. n /\ 1 \in 1 .. n /\ j + 1 # 1 /\ Tail(w)[j] = w[j + 1]
    BY <1>1, <2>1
  <2>3. CASE k = m + 1
    BY <1>1, <1>2, <1>9, <2>2, <2>3
  <2>4. CASE k # m + 1
    <3>1. k \in 1 .. m
      BY <1>1, <2>4
    <3>2. w[j + 1] # v[k]
      BY <1>2, <2>2, <3>1, Zenon
    <3>3. Append(v, h)[k] = v[k]
      BY <1>9, <3>1
    <3> QED
      BY <2>2, <3>2, <3>3, Zenon
  <2> QED
    BY <2>3, <2>4
<1>12. Head(w) = w[1]
  BY <1>1
<1> QED
  BY <1>1, <1>8, <1>10, <1>11, <1>12

\* The two orders are what the two queues are told.
Shown(w, v) ==
    /\ Walk(Flink, idle_list, idle_block) = w
    /\ Walk(Flink, busy_list, busy_block) = v
OrdersShown == \A w, v : Orders(w, v) => Shown(w, v)

LEMMA Queued == OrdersShown /\ OrdersShown'
<1>1. OrdersShown
  BY WalkIs DEF OrdersShown, Orders, Shown
<1> QED
  BY <1>1, PTL

LEMMA OrderInit == Init => OrderInv /\ Queues!Init
<1> SUFFICES ASSUME Init PROVE OrderInv /\ Queues!Init
  OBVIOUS
<1>1. NB \in Nat /\ NB > 0 /\ Blocks = 0 .. NB - 1
  BY RingsAssumption DEF Blocks
<1> DEFINE w == [k \in 1 .. NB |-> k - 1]
<1>2. /\ w \in Seq(Blocks) /\ Len(w) = NB /\ DOMAIN w = 1 .. NB
      /\ \A k \in 1 .. NB : w[k] = k - 1
  <2>1. \A k \in 1 .. NB : k - 1 \in Blocks
    BY <1>1
  <2> QED
    BY <1>1, <2>1
<1>3. w # <<>>
  BY <1>1, <1>2
<1> HIDE DEF w
<1>4. Ordered(Flink, idle_list, w)
  <2>1. idle_list = w[1]
    BY <1>1, <1>2 DEF Init
  <2>2. ASSUME NEW k \in 1 .. NB
        PROVE  Flink[w[k]] = IF k = NB THEN w[1] ELSE w[k + 1]
    <3>1. w[k] = k - 1 /\ w[k] \in Blocks
      BY <1>1, <1>2
    <3>2. Flink[w[k]] = IF k - 1 = NB - 1 THEN 0 ELSE (k - 1) + 1
      BY <3>1 DEF Init, NextNode
    <3> QED
      BY <1>1, <1>2, <3>2
  <2>3. \A j, k \in 1 .. NB : w[j] = w[k] => j = k
    BY <1>1, <1>2
  <2> QED
    BY <1>2, <1>3, <2>1, <2>2, <2>3 DEF Ordered
<1>5. /\ Ordered(Flink, busy_list, <<>>) /\ Len(<<>>) = 0
      /\ Apart(w, <<>>)
  BY DEF Ordered, Apart, Init
<1>6. idle_block = NB /\ busy_block = 0
  BY DEF Init
<1>7. Orders(w, <<>>)
  BY <1>2, <1>4, <1>5, <1>6 DEF Orders
<1>8. Walk(Flink, busy_list, busy_block) = <<>>
  BY <1>5, <1>6, WalkIs
<1> QED
  BY <1>7, <1>8 DEF OrderInv, Queues!Init

\* A block handed out is taken from the front of the one queue and goes to the
\* back of the other.
LEMMA BusyMoveTakes ==
    ASSUME RingsInv, FoundInv, OrderInv, NEW t \in Threads, move_to_busy_list(t)
    PROVE  OrderInv' /\ Queues!Take
<1>1. idle_list \in Blocks /\ Flink \in Links /\ Blink \in Links /\ Paired(Flink, Blink)
  BY DEF RingsInv, FoundInv, move_to_busy_list
<1>2. PICK w, v : Orders(w, v)
  BY DEF OrderInv
<1>3. /\ Ordered(Flink, idle_list, w) /\ Len(w) = idle_block
      /\ Ordered(Flink, busy_list, v) /\ Len(v) = busy_block
      /\ Apart(w, v)
  BY <1>2 DEF Orders
<1>4. <<Flink', Blink'>> =
          IF busy_list = NULL THEN detach_list(Flink, Blink, idle_list)
          ELSE add_list(detach_list(Flink, Blink, idle_list)[1],
                        detach_list(Flink, Blink, idle_list)[2],
                        busy_list, idle_list)
  <2>1. <<Flink', Blink'>> = Moved(idle_list, busy_list)
    BY MovedPair DEF move_to_busy_list
  <2> QED
    BY <2>1 DEF Moved
<1>5. /\ w # <<>> /\ idle_list = Head(w)
      /\ Ordered(Flink', NextHead(idle_list), Tail(w))
      /\ Ordered(Flink', IF busy_list = NULL THEN idle_list ELSE busy_list,
                 Append(v, idle_list))
      /\ Apart(Tail(w), Append(v, idle_list))
  BY <1>1, <1>3, <1>4, OrderMoves, SMTT(40), ZenonT(40) DEF NextHead
<1>6. /\ idle_list' = NextHead(idle_list)
      /\ busy_list' = IF busy_list = NULL THEN idle_list ELSE busy_list
      /\ idle_block' = idle_block - 1 /\ busy_block' = busy_block + 1
  BY DEF move_to_busy_list
<1>7. Len(Tail(w)) = idle_block' /\ Len(Append(v, idle_list)) = busy_block'
  BY <1>1, <1>3, <1>5, <1>6 DEF Ordered
<1>8. PICK w1, v1 : w1 = Tail(w) /\ v1 = Append(v, idle_list)
  OBVIOUS
<1>9. Orders(w1, v1)'
  BY <1>5, <1>6, <1>7, <1>8 DEF Orders
<1>10. Shown(w, v) /\ Shown(w1, v1)'
  BY <1>2, <1>9, Queued DEF OrdersShown
<1> QED
  BY <1>5, <1>8, <1>9, <1>10, Zenon DEF OrderInv, Shown, Queues!Take

\* And so does a block that is released.
LEMMA IdleMoveGives ==
    ASSUME RingsInv, FoundInv, OrderInv, NEW t \in Threads, move_to_idle_list(t)
    PROVE  OrderInv' /\ Queues!Give
<1>1. busy_list \in Blocks /\ Flink \in Links /\ Blink \in Links /\ Paired(Flink, Blink)
  BY DEF RingsInv, FoundInv, move_to_idle_list
<1>2. PICK w, v : Orders(v, w)
  BY DEF OrderInv
<1>3. /\ Ordered(Flink, busy_list, w) /\ Len(w) = busy_block
      /\ Ordered(Flink, idle_list, v) /\ Len(v) = idle_block
      /\ Apart(w, v)
  BY <1>2 DEF Orders, Apart
<1>4. <<Flink', Blink'>> =
          IF idle_list = NULL THEN detach_list(Flink, Blink, busy_list)
          ELSE add_list(detach_list(Flink, Blink, busy_list)[1],
                        detach_list(Flink, Blink, busy_list)[2],
                        idle_list, busy_list)
  <2>1. <<Flink', Blink'>> = Moved(busy_list, idle_list)
    BY MovedPair DEF move_to_idle_list
  <2> QED
    BY <2>1 DEF Moved
<1>5. /\ w # <<>> /\ busy_list = Head(w)
      /\ Ordered(Flink', NextHead(busy_list), Tail(w))
      /\ Ordered(Flink', IF idle_list = NULL THEN busy_list ELSE idle_list,
                 Append(v, busy_list))
      /\ Apart(Tail(w), Append(v, busy_list))
  BY <1>1, <1>3, <1>4, OrderMoves, SMTT(40), ZenonT(40) DEF NextHead
<1>6. /\ busy_list' = NextHead(busy_list)
      /\ idle_list' = IF idle_list = NULL THEN busy_list ELSE idle_list
      /\ busy_block' = busy_block - 1 /\ idle_block' = idle_block + 1
  BY DEF move_to_idle_list
<1>7. Len(Tail(w)) = busy_block' /\ Len(Append(v, busy_list)) = idle_block'
  BY <1>1, <1>3, <1>5, <1>6 DEF Ordered
<1>8. PICK w1, v1 : w1 = Tail(w) /\ v1 = Append(v, busy_list)
  OBVIOUS
<1>9. Orders(v1, w1)'
  BY <1>5, <1>6, <1>7, <1>8 DEF Orders, Apart
<1>10. Shown(v, w) /\ Shown(v1, w1)'
  BY <1>2, <1>9, Queued DEF OrdersShown
<1> QED
  BY <1>5, <1>8, <1>9, <1>10, Zenon DEF OrderInv, Shown, Queues!Give

LEMMA OrderStep ==
    ASSUME RingsInv, FoundInv, OrderInv, NEW t \in Threads, Call(t) \/ Step(t)
    PROVE  /\ OrderInv'
           /\ [Queues!Take \/ Queues!Give]_<<Walk(Flink, idle_list, idle_block),
                                             Walk(Flink, busy_list, busy_block)>>
<1>1. CASE move_to_busy_list(t)
  BY <1>1, BusyMoveTakes
<1>2. CASE move_to_idle_list(t)
  BY <1>2, IdleMoveGives
<1>3. CASE UNCHANGED ringVars
  BY <1>3 DEF ringVars, linkVars, OrderInv, Orders
<1> QED
  BY <1>1, <1>2, <1>3
  DEF Call, Step, aplly_memory, release_memory, try_locked_memory_pool, find,
      lock_fragment_manager, unlock_fragment_manager, unlocked_memory_pool

\* With one request at a time the two rings implement two queues, for a pool of any
\* number of blocks: blocks are handed out in the order in which they came back, and a
\* release puts the block that has been out longest at the back.
THEOREM RingsImplement ==
    ASSUME Serialized
    PROVE  Spec => ImplementsFifos
<1>1. Init => RingsInv /\ FoundInv /\ OrderInv /\ Queues!Init
  BY RingsInit, OrderInit
<1>2. RingsInv /\ FoundInv /\ OrderInv /\ [Next]_vars =>
          /\ RingsInv' /\ FoundInv' /\ OrderInv'
          /\ [Queues!Take \/ Queues!Give]_<<Walk(Flink, idle_list, idle_block),
                                            Walk(Flink, busy_list, busy_block)>>
  <2>1. ASSUME RingsInv, FoundInv, OrderInv, NEW t \in Threads, Call(t) \/ Step(t)
        PROVE  /\ RingsInv' /\ FoundInv' /\ OrderInv'
               /\ [Queues!Take \/ Queues!Give]_<<Walk(Flink, idle_list, idle_block),
                                                 Walk(Flink, busy_list, busy_block)>>
    BY <2>1, FoundCall, RingsStep, OrderStep
  <2>2. ASSUME RingsInv, FoundInv, OrderInv, UNCHANGED vars
        PROVE  /\ RingsInv' /\ FoundInv' /\ OrderInv'
               /\ UNCHANGED <<Walk(Flink, idle_list, idle_block),
                              Walk(Flink, busy_list, busy_block)>>
    BY <2>2 DEF vars, ringVars, linkVars, lockVars, RingsInv, TwoRings, FoundInv, OrderInv,
                Orders
  <2> QED
    BY <2>1, <2>2 DEF Next
<1> QED
  BY <1>1, <1>2, PTL DEF Spec, ImplementsFifos, Queues!Spec
=============================================================================
