------------------------------- MODULE Split -------------------------------
(***************************************************************************)
(* How block_send cuts a buffer into packages of at most one block, and    *)
(* the symbol (message_type) each package is given, so that the receiver   *)
(* can tell where a message begins and ends.                               *)
(*                                                                         *)
(* The numbers are those of the code.  The wait for space and what         *)
(* Allocate and Committ do are in Channel; here each of them succeeds or   *)
(* fails.  Sizes stay below 2^30: align_size is an int.                    *)
(***************************************************************************)
EXTENDS Integers, Sequences

CONSTANTS Sizes,         \* lengths send is called with
          MaxSends       \* bound: calls of send

ASSUME SplitAssumption ==
    /\ \A n \in Sizes : n \in Nat /\ n < 1073741824
    /\ MaxSends \in Nat

Block == 4096

\* message_type; a package that is all of a message is all three.
msg_t_head == 2
msg_t_body == 4
msg_t_tail == 8
msg_t_whole == 14
\* What figure_package_symbol can leave in its result without a return.
AnyChar == {-1, 0, msg_t_head, msg_t_body, msg_t_tail, msg_t_whole}
IsHead(symbol) == symbol \in {msg_t_head, msg_t_whole}
IsTail(symbol) == symbol \in {msg_t_tail, msg_t_body + msg_t_tail, msg_t_whole}

VARIABLES
    pc,              \* step of block_send
    calls,           \* calls of send so far
    size,            \* __n
    loop_times, i,   \* packages to make, and made
    left_to_copy,
    data_type,       \* the symbol of this package
    ret,             \* what the last call returned
    log              \* the packages committed, in order

loopVars == <<size, loop_times, i, left_to_copy>>
vars == <<pc, calls, loopVars, data_type, ret, log>>

-----------------------------------------------------------------------------
\* mutant: a whole number of blocks is aligned to one more
AlignPastEnd(n) == IF n >= Block THEN n + (Block - (n % Block)) ELSE Block
\* mutant: the alignment the comment announces
AlignUp(n) == IF n % Block = 0 /\ n > 0 THEN n ELSE n + (Block - (n % Block))
\* 4096 - (n % 4096) ? (n % 4096) : 0 is (4096 - n % 4096) ? ..., never zero.
align_size(n) == IF n >= Block THEN n + (n % Block) ELSE Block

\* mutant: bodies up to and including the last package
SymbolsNoTail(total, cur) ==
    CASE total = 1 -> {msg_t_whole}
      [] total > 1 /\ cur = 0 -> {msg_t_head}
      [] OTHER -> {msg_t_body}
\* A total of three is in no case: the function ends without a return.
figure_package_symbol(total, cur) ==
    CASE total = 1 -> {msg_t_whole}
      [] total = 2 -> {IF cur = 0 THEN msg_t_head ELSE msg_t_body + msg_t_tail}
      [] total = 3 -> AnyChar
      [] total > 3 -> {IF cur = 0 THEN msg_t_head
                       ELSE IF cur < total - 1 THEN msg_t_body ELSE msg_t_tail}

Return(value) == ret' = value /\ pc' = "idle"

\* An empty buffer is answered at once.
Send(n) ==
    /\ pc = "idle" /\ calls < MaxSends
    /\ calls' = calls + 1
    /\ \/ n = 0 /\ Return(0) /\ UNCHANGED loopVars
       \/ /\ n > 0
          /\ pc' = "loop"
          /\ size' = n /\ i' = 0 /\ left_to_copy' = n
          /\ loop_times' = align_size(n) \div Block
          /\ UNCHANGED ret
    /\ UNCHANGED <<data_type, log>>

symbol ==
    /\ pc = "loop" /\ i < loop_times
    /\ \E s \in figure_package_symbol(loop_times, i) :
           /\ data_type' = s
           /\ \/ s < 0 /\ Return(-1)
              \/ s >= 0 /\ pc' = "allocate" /\ UNCHANGED ret
    /\ UNCHANGED <<calls, loopVars, log>>

allocate ==
    /\ pc = "allocate"
    /\ \/ pc' = "commit" /\ UNCHANGED ret
       \/ Return(-1)
    /\ UNCHANGED <<calls, loopVars, data_type, log>>

Least(a, b) == IF a <= b THEN a ELSE b

\* temp is never advanced: every package is copied from the buffer's start.
Package == [call |-> calls, of |-> loop_times, symbol |-> data_type,
            from |-> 0, size |-> Least(left_to_copy, Block)]

commit ==
    /\ pc = "commit"
    /\ \/ /\ log' = Append(log, Package)
          /\ left_to_copy' = left_to_copy - Package.size
          /\ i' = i + 1
          /\ pc' = "loop"
          /\ UNCHANGED ret
       \/ Return(-1) /\ UNCHANGED <<log, left_to_copy, i>>
    /\ UNCHANGED <<calls, size, loop_times, data_type>>

sent ==
    /\ pc = "loop" /\ i >= loop_times
    /\ Return(size)
    /\ UNCHANGED <<calls, loopVars, data_type, log>>

Init ==
    /\ pc = "idle" /\ calls = 0
    /\ size = 0 /\ loop_times = 0 /\ i = 0 /\ left_to_copy = 0
    /\ data_type = -1
    /\ ret = 0
    /\ log = <<>>

Next == (\E n \in Sizes : Send(n)) \/ symbol \/ allocate \/ commit \/ sent

Spec == Init /\ [][Next]_vars

-----------------------------------------------------------------------------
(* Properties *)

\* The type invariant: in particular what is left to copy never goes below zero.
TypeOK ==
    /\ pc \in {"idle", "loop", "allocate", "commit"}
    /\ calls \in Nat /\ size \in Nat /\ loop_times \in Nat /\ i \in Nat
    /\ left_to_copy \in Nat
    /\ data_type \in AnyChar \cup {msg_t_body + msg_t_tail}
    /\ ret \in Int
    /\ log \in Seq([call : Nat, of : Nat, symbol : AnyChar \cup {msg_t_body + msg_t_tail},
                   from : Nat, size : Nat])

\* A send that has made all its packages has left exactly this much of the
\* buffer out: the odd bytes of a buffer of a block or more, when they fill
\* less than half a block.  All others are sent to the last byte.
Unsent(n) == IF n >= Block /\ n % Block < Block \div 2 THEN n % Block ELSE 0
RemainderLost ==
    pc = "loop" /\ i = loop_times => left_to_copy = Unsent(size)

\* No package is empty: the loop never asks the engine for a block it has
\* nothing left to put in.
NoEmptyPackage == pc # "idle" /\ i < loop_times => left_to_copy > 0

\* The receiver's rule: from a head, packages belong together up to the first
\* tail.  Applied to everything committed, failed sends included, the rule
\* finds every send that was completed and never joins packages of two sends,
\* where no send of exactly three packages is involved.
Framed ==
    /\ \A j, k \in DOMAIN log :
           (/\ j < k
            /\ IsHead(log[j].symbol) /\ IsTail(log[k].symbol)
            /\ \A l \in j + 1 .. k : ~IsHead(log[l].symbol)
            /\ \A l \in j .. k : log[l].of # 3)
           => log[j].call = log[k].call
    /\ pc = "loop" /\ i = loop_times /\ loop_times # 3 =>
           /\ IsTail(log[Len(log)].symbol)
           /\ IsHead(log[Len(log) - loop_times + 1].symbol)

\* A buffer longer than a block is sent as several packages (engine.h): when
\* send answers n, its packages carry the n bytes of the buffer in order.
SplitIsWhole ==
    pc = "loop" /\ i = loop_times =>
        /\ left_to_copy = 0
        /\ \A j \in 1 .. loop_times :
               log[Len(log) - loop_times + j].from = Block * (j - 1)
=============================================================================
