---------------------------- MODULE SplitProofs ----------------------------
(***************************************************************************)
(* What block_send leaves out, and how it frames what it sends, for every  *)
(* length: theorems of module Split.                                       *)
(*                                                                         *)
(* left_to_copy is a function of the length and of the packages made; that *)
(* is LoopInv, and it is inductive.  The two facts about the alignment are *)
(* arithmetic of the literal 4096.  That the receiver's rule works rests on*)
(* one fact: the first package of every call, completed or not, carries the*)
(* first symbol of its total (FrameInv).                                   *)
(***************************************************************************)
EXTENDS Split, LeastNumber, TLAPS

\* What is left of n bytes after k packages.
LeftAfter(n, k) == IF Block * k <= n THEN n - Block * k ELSE 0

LoopInv ==
    /\ pc \in {"idle", "loop", "allocate", "commit"}
    /\ size \in Nat /\ loop_times \in Nat /\ i \in Nat /\ left_to_copy \in Nat
    /\ pc # "idle" =>
           /\ size > 0
           /\ loop_times = align_size(size) \div Block
           /\ i <= loop_times
           /\ left_to_copy = LeftAfter(size, i)
    /\ pc \in {"allocate", "commit"} => i < loop_times

-----------------------------------------------------------------------------
\* The number of packages block_send makes of n bytes: one for each whole
\* block and one more for a rest of half a block or more.
LEMMA LoopTimes ==
    ASSUME NEW n \in Nat, n > 0
    PROVE  align_size(n) \div Block =
               IF n < Block THEN 1
               ELSE IF n % Block < Block \div 2 THEN n \div Block
               ELSE (n \div Block) + 1
<1> DEFINE q == n \div 4096
           r == n % 4096
<1>1. q \in Nat /\ r \in 0 .. 4095 /\ n = 4096 * q + r
  OBVIOUS
<1>2. CASE n < 4096
  BY <1>2 DEF align_size, Block
<1>3. CASE n >= 4096 /\ r < 2048
  <2>1. n + r = 4096 * q + 2 * r /\ 2 * r \in 0 .. 4095
    BY <1>1, <1>3
  <2>2. (n + r) \div 4096 = q
    BY <1>1, <2>1
  <2> QED
    BY <1>1, <1>3, <2>2 DEF align_size, Block
<1>4. CASE n >= 4096 /\ r >= 2048
  <2>1. n + r = 4096 * (q + 1) + (2 * r - 4096) /\ 2 * r - 4096 \in 0 .. 4095
    BY <1>1, <1>4
  <2>2. (n + r) \div 4096 = q + 1
    BY <1>1, <2>1
  <2> QED
    BY <1>1, <1>4, <2>2 DEF align_size, Block
<1> QED
  BY <1>1, <1>2, <1>3, <1>4

\* After the last package exactly Unsent(n) bytes are left.
LEMMA LeftAtEnd ==
    ASSUME NEW n \in Nat, n > 0
    PROVE  LeftAfter(n, align_size(n) \div Block) = Unsent(n)
<1> DEFINE q == n \div 4096
           r == n % 4096
<1>1. q \in Nat /\ r \in 0 .. 4095 /\ n = 4096 * q + r
  OBVIOUS
<1>2. CASE n < 4096
  BY <1>2, LoopTimes DEF LeftAfter, Unsent, Block
<1>3. CASE n >= 4096 /\ r < 2048
  BY <1>1, <1>3, LoopTimes DEF LeftAfter, Unsent, Block
<1>4. CASE n >= 4096 /\ r >= 2048
  BY <1>1, <1>4, LoopTimes DEF LeftAfter, Unsent, Block
<1> QED
  BY <1>1, <1>2, <1>3, <1>4

\* Before the last package something is left.
LEMMA LeftBefore ==
    ASSUME NEW n \in Nat, n > 0, NEW k \in Nat, k < align_size(n) \div Block
    PROVE  LeftAfter(n, k) > 0
<1> DEFINE q == n \div 4096
           r == n % 4096
<1>1. q \in Nat /\ r \in 0 .. 4095 /\ n = 4096 * q + r
  OBVIOUS
<1>2. CASE n < 4096
  BY <1>2, LoopTimes DEF LeftAfter, Block
<1>3. CASE n >= 4096 /\ r < 2048
  BY <1>1, <1>3, LoopTimes DEF LeftAfter, Block
<1>4. CASE n >= 4096 /\ r >= 2048
  BY <1>1, <1>4, LoopTimes DEF LeftAfter, Block
<1> QED
  BY <1>1, <1>2, <1>3, <1>4

\* One package more takes a block, or what is left of it.
LEMMA LeftAfterOne ==
    ASSUME NEW n \in Nat, NEW k \in Nat
    PROVE  /\ LeftAfter(n, k) \in Nat
           /\ LeftAfter(n, k + 1) = LeftAfter(n, k) - Least(LeftAfter(n, k), Block)
  BY DEF LeftAfter, Least, Block

-----------------------------------------------------------------------------
LEMMA LoopInit == Init => LoopInv
  BY DEF Init, LoopInv

LEMMA LoopStep == LoopInv /\ [Next]_vars => LoopInv'
<1> SUFFICES ASSUME LoopInv, [Next]_vars
             PROVE  LoopInv'
  OBVIOUS
<1> USE DEF LoopInv
<1>1. ASSUME NEW n \in Sizes, Send(n)
      PROVE  LoopInv'
  <2>1. n \in Nat
    BY SplitAssumption DEF SplitAssumption
  <2>2. CASE n = 0
    BY <1>1, <2>2 DEF Send, Return, loopVars
  <2>3. CASE n > 0
    <3>1. align_size(n) \div Block \in Nat
      BY <2>1, <2>3, LoopTimes DEF Block
    <3>2. LeftAfter(n, 0) = n
      BY <2>1 DEF LeftAfter, Block
    <3> QED
      BY <1>1, <2>1, <2>3, <3>1, <3>2 DEF Send
  <2> QED
    BY <2>1, <2>2, <2>3
<1>2. CASE symbol
  BY <1>2 DEF symbol, Return, loopVars
<1>3. CASE allocate
  BY <1>3 DEF allocate, Return, loopVars
<1>4. CASE commit
  <2>1. pc = "commit" /\ size' = size /\ loop_times' = loop_times
    BY <1>4 DEF commit
  <2>2. CASE UNCHANGED <<log, left_to_copy, i>> /\ Return(-1)
    BY <2>1, <2>2 DEF Return
  <2>3. CASE /\ left_to_copy' = left_to_copy - Package.size
             /\ i' = i + 1
             /\ pc' = "loop"
    <3>1. Package.size = Least(left_to_copy, Block)
      BY DEF Package
    <3>2. left_to_copy' = LeftAfter(size, i') /\ left_to_copy' \in Nat
      BY <2>1, <2>3, <3>1, LeftAfterOne
    <3> QED
      BY <2>1, <2>3, <3>2
  <2> QED
    BY <1>4, <2>2, <2>3 DEF commit
<1>5. CASE sent
  BY <1>5 DEF sent, Return, loopVars
<1>6. CASE UNCHANGED vars
  BY <1>6 DEF vars, loopVars
<1> QED
  BY <1>1, <1>2, <1>3, <1>4, <1>5, <1>6 DEF Next

\* The loop of block_send keeps left_to_copy equal to what the packages made
\* so far have not taken, whatever calls of the engine fail.
THEOREM LoopSafe == Spec => []LoopInv
  BY LoopInit, LoopStep, PTL DEF Spec

\* For every length, a send that makes all its packages leaves out exactly
\* the odd bytes that fill less than half a block, and nothing else.
THEOREM RemainderSafe == Spec => []RemainderLost
<1>1. LoopInv => RemainderLost
  BY LeftAtEnd DEF LoopInv, RemainderLost
<1> QED
  BY <1>1, LoopSafe, PTL

\* For every length, block_send asks for a block only while something is left.
THEOREM NoEmptySafe == Spec => []NoEmptyPackage
<1>1. LoopInv => NoEmptyPackage
  BY LeftBefore DEF LoopInv, NoEmptyPackage
<1> QED
  BY <1>1, LoopSafe, PTL

-----------------------------------------------------------------------------
Symbols == AnyChar \cup {msg_t_body + msg_t_tail}
Packages == [call : Nat, of : Nat, symbol : Symbols, from : Nat, size : Nat]

SendTypes ==
    /\ calls \in Nat /\ data_type \in Symbols /\ ret \in Int
    /\ log \in Seq(Packages)

LEMMA SendTypesStep == LoopInv /\ SendTypes /\ [Next]_vars => SendTypes'
<1> SUFFICES ASSUME LoopInv, SendTypes, [Next]_vars
             PROVE  SendTypes'
  OBVIOUS
<1> USE DEF SendTypes
<1>1. ASSUME NEW n \in Sizes, Send(n)
      PROVE  SendTypes'
  BY <1>1 DEF Send, Return
<1>2. CASE symbol
  <2>0. loop_times \in Nat \ {0}
    BY <1>2 DEF symbol, LoopInv
  <2>1. figure_package_symbol(loop_times, i) \subseteq Symbols
    BY <2>0 DEF figure_package_symbol, Symbols, AnyChar
  <2>2. UNCHANGED <<calls, log>> /\ data_type' \in Symbols /\ ret' \in Int
    BY <1>2, <2>1 DEF symbol, Return
  <2> QED
    BY <2>2
<1>3. CASE allocate
  BY <1>3 DEF allocate, Return
<1>4. CASE commit
  <2>1. Package \in Packages
    BY DEF Package, Packages, LoopInv, Least, Block
  <2>2. Append(log, Package) \in Seq(Packages)
    BY <2>1
  <2> HIDE DEF Package
  <2> QED
    BY <1>4, <2>2 DEF commit, Return
<1>5. CASE sent
  BY <1>5 DEF sent, Return, LoopInv
<1>6. CASE UNCHANGED vars
  BY <1>6 DEF vars
<1> QED
  BY <1>1, <1>2, <1>3, <1>4, <1>5, <1>6 DEF Next

\* The types, for every length: what is left to copy never goes below zero, and no
\* package is larger than what is left.
THEOREM SplitTyped == Spec => []TypeOK
<1>1. Init => LoopInv /\ SendTypes
  BY LoopInit DEF Init, SendTypes, Symbols, AnyChar
<1>2. LoopInv /\ SendTypes /\ [Next]_vars => LoopInv' /\ SendTypes'
  BY LoopStep, SendTypesStep
<1>3. LoopInv /\ SendTypes => TypeOK
  BY DEF LoopInv, SendTypes, Symbols, Packages, TypeOK
<1> QED
  BY <1>1, <1>2, <1>3, PTL DEF Spec

-----------------------------------------------------------------------------
\* The package at k is the first that its call of send committed.
Starts(k) == k = 1 \/ log[k - 1].call # log[k].call

\* The first package of a call carries the first symbol of its total, whether or not the
\* call was completed, and the packages of the call under way stand at the end.
FrameInv ==
    /\ \A k \in DOMAIN log :
           /\ log[k].call <= calls /\ log[k].of > 0
           /\ Starts(k) => log[k].symbol \in figure_package_symbol(log[k].of, 0)
    /\ pc # "idle" =>
           /\ loop_times > 0 /\ i <= Len(log)
           /\ \A k \in DOMAIN log : k <= Len(log) - i => log[k].call < calls
           /\ \A k \in DOMAIN log : k > Len(log) - i =>
                  /\ log[k].call = calls /\ log[k].of = loop_times
                  /\ log[k].symbol \in figure_package_symbol(loop_times, k - (Len(log) - i) - 1)
    /\ pc \in {"allocate", "commit"} => data_type \in figure_package_symbol(loop_times, i)

\* Of any total but three, the first symbol is a head and the last a tail.
LEMMA EndsOfMessage ==
    ASSUME NEW total \in Nat \ {0, 3}, NEW s
    PROVE  /\ s \in figure_package_symbol(total, 0) => IsHead(s)
           /\ s \in figure_package_symbol(total, total - 1) => IsTail(s)
<1>1. CASE total = 1
  BY <1>1 DEF figure_package_symbol, IsHead, IsTail
<1>2. CASE total = 2
  BY <1>2 DEF figure_package_symbol, IsHead, IsTail
<1>3. CASE total > 3
  BY <1>3 DEF figure_package_symbol, IsHead, IsTail
<1> QED
  BY <1>1, <1>2, <1>3

Types == LoopInv /\ SendTypes

\* Committing a package keeps the frames.
LEMMA CommitFrames ==
    ASSUME Types, FrameInv, pc = "commit", log' = Append(log, Package), i' = i + 1,
           pc' = "loop", UNCHANGED <<calls, loop_times>>
    PROVE  FrameInv'
<1> DEFINE n == Len(log)
<1>1. /\ log \in Seq(Packages) /\ Package \in Packages /\ n \in Nat /\ i \in Nat
      /\ calls \in Nat /\ loop_times \in Nat
  <2>1. Package \in Packages
    BY DEF Types, SendTypes, Package, Packages, LoopInv, Least, Block
  <2> QED
    BY <2>1 DEF Types, SendTypes, LoopInv
<1>2. /\ DOMAIN log' = 1 .. n + 1 /\ Len(log') = n + 1 /\ DOMAIN log = 1 .. n
      /\ log'[n + 1] = Package
      /\ \A k \in 1 .. n : log'[k] = log[k]
  BY <1>1
<1>3. Package.call = calls /\ Package.of = loop_times /\ Package.symbol = data_type
  BY DEF Package
<1>4. loop_times > 0 /\ i <= n /\ data_type \in figure_package_symbol(loop_times, i)
  BY DEF FrameInv
<1> HIDE DEF n
<1>5. ASSUME NEW k \in DOMAIN log'
      PROVE  /\ log'[k].call <= calls /\ log'[k].of > 0
             /\ Starts(k)' => log'[k].symbol \in figure_package_symbol(log'[k].of, 0)
  <2>1. CASE k \in 1 .. n
    <3>1. log'[k] = log[k] /\ (Starts(k)' <=> Starts(k))
      <4>1. CASE k = 1
        BY <1>2, <2>1, <4>1 DEF Starts
      <4>2. CASE k # 1
        <5>1. k - 1 \in 1 .. n
          BY <1>1, <2>1, <4>2
        <5> QED
          BY <1>2, <2>1, <4>2, <5>1 DEF Starts
      <4> QED
        BY <4>1, <4>2
    <3>2. k \in DOMAIN log
      BY <1>2, <2>1
    <3> QED
      BY <3>1, <3>2 DEF FrameInv
  <2>2. CASE k = n + 1
    <3>1. log'[k] = Package
      BY <1>2, <2>2
    <3>2. CASE i = 0
      BY <1>1, <1>3, <1>4, <3>1, <3>2
    <3>3. CASE i # 0
      <4>1. n \in DOMAIN log /\ n > Len(log) - i
        BY <1>1, <1>2, <1>4, <3>3 DEF n
      <4>2. log[n].call = calls
        BY <4>1 DEF FrameInv
      <4>3. k - 1 = n /\ k # 1 /\ log'[k - 1] = log[n]
        BY <1>1, <1>2, <1>4, <2>2, <4>1
      <4>4. ~Starts(k)'
        BY <1>3, <3>1, <4>2, <4>3 DEF Starts
      <4> QED
        BY <1>1, <1>3, <1>4, <3>1, <4>4
    <3> QED
      BY <3>2, <3>3
  <2> QED
    BY <1>1, <1>2, <2>1, <2>2
<1>6. Len(log') - i' = Len(log) - i
  BY <1>1, <1>2 DEF n
<1>7. ASSUME NEW k \in DOMAIN log', k <= Len(log') - i'
      PROVE  log'[k].call < calls
  <2>1. k \in DOMAIN log /\ k <= Len(log) - i
    BY <1>1, <1>2, <1>6, <1>7 DEF n
  <2> QED
    BY <1>2, <2>1 DEF FrameInv
<1>8. ASSUME NEW k \in DOMAIN log', k > Len(log') - i'
      PROVE  /\ log'[k].call = calls /\ log'[k].of = loop_times
             /\ log'[k].symbol \in
                    figure_package_symbol(loop_times, k - (Len(log') - i') - 1)
  <2>1. CASE k \in 1 .. n
    <3>1. k \in DOMAIN log /\ k > Len(log) - i /\ log'[k] = log[k]
      BY <1>2, <1>6, <1>8, <2>1
    <3> QED
      BY <1>6, <3>1 DEF FrameInv
  <2>2. CASE k = n + 1
    <3>1. k - (Len(log') - i') - 1 = i
      BY <1>1, <1>6, <2>2 DEF n
    <3> QED
      BY <1>2, <1>3, <1>4, <2>2, <3>1
  <2> QED
    BY <1>1, <1>2, <2>1, <2>2
<1>9. i' <= Len(log')
  BY <1>1, <1>2, <1>4
<1> QED
  BY <1>4, <1>5, <1>7, <1>8, <1>9 DEF FrameInv

\* A step that commits nothing and starts no call keeps the frames.
LEMMA SameFrames ==
    ASSUME Types, FrameInv, UNCHANGED <<calls, loop_times, i, log>>,
           pc' # "idle" => pc # "idle",
           pc' \in {"allocate", "commit"} => data_type' \in figure_package_symbol(loop_times, i)
    PROVE  FrameInv'
  BY Zenon DEF FrameInv, Starts

LEMMA FrameStep == Types /\ FrameInv /\ [Next]_vars => FrameInv'
<1> SUFFICES ASSUME Types, FrameInv, [Next]_vars
             PROVE  FrameInv'
  OBVIOUS
<1>1. ASSUME NEW n \in Sizes, Send(n)
      PROVE  FrameInv'
  <2>1. n \in Nat /\ calls \in Nat /\ calls' = calls + 1 /\ log' = log /\ pc = "idle"
    BY <1>1, SplitAssumption DEF SplitAssumption, Send, Types, SendTypes
  <2>2. log \in Seq(Packages)
    BY DEF Types, SendTypes
  <2>3. \A k \in DOMAIN log : log[k].call \in Nat /\ log[k].call < calls'
    <3> SUFFICES ASSUME NEW k \in DOMAIN log
                 PROVE  log[k].call \in Nat /\ log[k].call < calls'
      OBVIOUS
    <3>1. log[k] \in Packages
      BY <2>2
    <3>2. log[k].call \in Nat /\ log[k].call <= calls
      BY <3>1 DEF FrameInv, Packages
    <3> QED
      BY <2>1, <3>2
  <2>4. \A k \in DOMAIN log' :
            /\ log'[k].call <= calls' /\ log'[k].of > 0
            /\ Starts(k)' => log'[k].symbol \in figure_package_symbol(log'[k].of, 0)
    <3> SUFFICES ASSUME NEW k \in DOMAIN log
                 PROVE  /\ log[k].call <= calls' /\ log[k].of > 0
                        /\ Starts(k) => log[k].symbol \in figure_package_symbol(log[k].of, 0)
      BY <2>1 DEF Starts
    <3> QED
      BY <2>1, <2>3 DEF FrameInv
  <2>5. CASE n = 0
    <3>1. pc' = "idle"
      BY <1>1, <2>5 DEF Send, Return
    <3> QED
      BY <2>4, <3>1 DEF FrameInv
  <2>6. CASE n > 0
    <3>1. pc' = "loop" /\ i' = 0 /\ loop_times' = align_size(n) \div Block
      BY <1>1, <2>6 DEF Send
    <3>2. loop_times' > 0
      BY <2>1, <2>6, <3>1, LoopTimes DEF Block
    <3>3. Len(log') \in Nat /\ DOMAIN log' = 1 .. Len(log') /\ i' <= Len(log')
      BY <2>1, <2>2, <3>1
    <3>4. ~\E k \in DOMAIN log' : k > Len(log') - i'
      BY <3>1, <3>3
    <3> QED
      BY <2>1, <2>3, <2>4, <3>1, <3>2, <3>3, <3>4 DEF FrameInv
  <2> QED
    BY <2>1, <2>5, <2>6
<1>2. CASE symbol
  BY <1>2, SameFrames DEF symbol, Return, loopVars
<1>3. CASE allocate
  BY <1>3, SameFrames DEF allocate, Return, loopVars, FrameInv
<1>4. CASE commit
  <2>1. CASE UNCHANGED <<log, left_to_copy, i>> /\ Return(-1)
    BY <1>4, <2>1, SameFrames DEF commit, Return
  <2>2. CASE log' = Append(log, Package) /\ i' = i + 1 /\ pc' = "loop"
    BY <1>4, <2>2, CommitFrames DEF commit
  <2> QED
    BY <1>4, <2>1, <2>2 DEF commit
<1>5. CASE sent
  BY <1>5, SameFrames DEF sent, Return, loopVars
<1>6. CASE UNCHANGED vars
  BY <1>6, SameFrames DEF vars, loopVars, FrameInv
<1> QED
  BY <1>1, <1>2, <1>3, <1>4, <1>5, <1>6 DEF Next

\* From a head on, the first package of another call would be a head itself, unless it
\* was one of three.
LEMMA NoOtherCall ==
    ASSUME Types, FrameInv, NEW j \in DOMAIN log, NEW k \in DOMAIN log, j < k,
           \A l \in j + 1 .. k : ~IsHead(log[l].symbol),
           \A l \in j .. k : log[l].of # 3
    PROVE  log[j].call = log[k].call
<1> SUFFICES ASSUME log[j].call # log[k].call PROVE FALSE
  OBVIOUS
<1>1. log \in Seq(Packages) /\ Len(log) \in Nat /\ DOMAIN log = 1 .. Len(log)
  BY DEF Types, SendTypes
<1> DEFINE S == {l \in j .. k : log[l].call # log[j].call}
<1>2. S \in SUBSET Nat /\ k \in S
  BY <1>1
<1>3. PICK least \in S : \A l \in S : least <= l
  BY <1>2, LeastExists
<1>4. least \in Nat /\ least # j /\ least \in j + 1 .. k /\ least \in DOMAIN log
  BY <1>1, <1>3
<1>5. least - 1 \in j .. k /\ least - 1 \notin S
  BY <1>1, <1>2, <1>3, <1>4
<1>6. log[least - 1].call = log[j].call
  BY <1>5
<1>7. Starts(least)
  BY <1>3, <1>6 DEF Starts
<1>8. log[least].of \in Nat \ {0, 3}
  <2>1. log[least] \in Packages /\ least \in j .. k
    BY <1>1, <1>4
  <2>2. log[least].of > 0
    BY <1>4 DEF FrameInv
  <2> QED
    BY <2>1, <2>2 DEF Packages
<1>9. log[least].symbol \in figure_package_symbol(log[least].of, 0)
  BY <1>4, <1>7 DEF FrameInv
<1> QED
  BY <1>4, <1>8, <1>9, EndsOfMessage

\* The packages of a completed send begin with a head and end with a tail.
LEMMA Complete ==
    ASSUME Types, FrameInv, pc = "loop", i = loop_times, loop_times # 3
    PROVE  /\ IsTail(log[Len(log)].symbol)
           /\ IsHead(log[Len(log) - loop_times + 1].symbol)
<1>1. /\ loop_times \in Nat \ {0, 3} /\ i <= Len(log)
      /\ Len(log) \in Nat /\ DOMAIN log = 1 .. Len(log)
  BY DEF Types, SendTypes, LoopInv, FrameInv
<1> DEFINE first == Len(log) - loop_times + 1
<1>2. /\ first \in DOMAIN log /\ first > Len(log) - i
      /\ first - (Len(log) - i) - 1 = 0
  BY <1>1
<1>3. log[first].symbol \in figure_package_symbol(loop_times, 0)
  BY <1>2, Zenon DEF FrameInv
<1>4. /\ Len(log) \in DOMAIN log /\ Len(log) > Len(log) - i
      /\ Len(log) - (Len(log) - i) - 1 = loop_times - 1
  BY <1>1
<1>5. log[Len(log)].symbol \in figure_package_symbol(loop_times, loop_times - 1)
  <2>1. log[Len(log)].symbol \in
            figure_package_symbol(loop_times, Len(log) - (Len(log) - i) - 1)
    BY <1>4 DEF FrameInv
  <2> QED
    BY <1>4, <2>1
<1> QED
  BY <1>1, <1>3, <1>5, EndsOfMessage

\* For every length and every call that fails on the way: the receiver's rule never
\* joins packages of two sends and finds every send that was completed, where no
\* send of exactly three packages is involved.
THEOREM FramedSafe == Spec => []Framed
<1>1. Init => Types /\ FrameInv
  <2>1. Init => Types
    BY LoopInit DEF Init, Types, SendTypes, Symbols, AnyChar
  <2>2. Init => FrameInv
    BY DEF Init, FrameInv
  <2> QED
    BY <2>1, <2>2
<1>2. Types /\ FrameInv /\ [Next]_vars => Types' /\ FrameInv'
  BY LoopStep, SendTypesStep, FrameStep DEF Types
<1>3. Types /\ FrameInv => Framed
  <2> SUFFICES ASSUME Types, FrameInv PROVE Framed
    OBVIOUS
  <2> QED
    BY NoOtherCall, Complete, Zenon DEF Framed
<1> QED
  BY <1>1, <1>2, <1>3, PTL DEF Spec
=============================================================================
