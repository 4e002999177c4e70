--------------------------- MODULE MCCfgCollection ---------------------------
(* Lines of two words, one word of each region and one of none.            *)
EXTENDS CfgCollection

Ins(op, target) == [op |-> op, target |-> target]
Plain(op) == Ins(op, 0)

\* Routines of five instructions with these in the middle: branches forward, back and
\* over each other, and code nothing leads to.
Shapes == {[code |-> <<Plain("nop"), a, b, c, Plain("ret")>>, calls |-> 0] :
             a, b, c \in {Plain("nop"), Plain("ijmp"), Ins("jcc", 2), Ins("jcc", 5), Ins("jmp", 1), Ins("jmp", 3), Ins("jmp", 5)}}

\* A loop that stores and flushes, one whose branch is indirect, and two fences.
Accesses ==
  {[code |-> <<Plain("nop"), Plain("store"), Plain("store"), Plain("clwb"), Plain("fence"), Ins("jcc", 3), Plain("ret")>>, calls |-> 1],
   [code |-> <<Plain("store"), Plain("clwb"), Plain("call"), Plain("load"), Plain("ijmp"), Plain("ret")>>, calls |-> 1],
   [code |-> <<Plain("store"), Plain("clwb"), Plain("fence"), Plain("store"), Plain("fence"), Plain("ret")>>, calls |-> 1]}

\* One access after the calls of two threads.
AfterCalls == {[code |-> <<Plain("nop"), Plain("store"), Plain("ret")>>, calls |-> 4]}

MCCases   == Shapes \cup Accesses \cup AfterCalls
MCRegions == {[start |-> 2, size |-> 3], [start |-> 5, size |-> 1]}
=============================================================================
