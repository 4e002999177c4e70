-------------------------- MODULE MCStaticAnalysis --------------------------
EXTENDS PatchedFunction

Op(o)        == [op |-> o]
Mov(d, s)    == [op |-> "mov", dst |-> d, src |-> s]
Mov32(d, s)  == [op |-> "mov32", dst |-> d, src |-> s]
Ld(d, b, k)  == [op |-> "load", dst |-> d, base |-> b, disp |-> k]
St(b, k, s)  == [op |-> "store", base |-> b, disp |-> k, src |-> s]
Alu(d)       == [op |-> "alu", dst |-> d]
Jmp(t)       == [op |-> "jmp", target |-> t]
Jcc(t)       == [op |-> "jcc", target |-> t]

Slots == {Mov(2, 1), Ld(2, 1, 0), Ld(2, 2, 0), Alu(2), Op("call"), Op("acquire"), Op("release"), Op("flush"), Mov32(2, 1)}
         \cup {St(1, 0, 2), St(1, 0, 0)}
Marks == {Ld(2, 2, 0), Alu(2), Op("release")}
Heads == {Mov(2, 1), Ld(2, 1, 0), Alu(2), St(1, 0, 2), Op("acquire")}
A == St(2, 1, 0)
R == Op("ret")

Straight   == {<<s, t, A, u, R>> : s, t \in Slots, u \in Marks \cup {Op("flush"), St(1, 0, 2)}}
Diamond    == {<<Jcc(4), s, Jmp(5), t, A, u, R>> : s, t \in Slots, u \in Marks}
WhileLoop  == {<<s, Jcc(6), t, A, Jmp(2), u, R>> : s, t \in Slots, u \in Marks}
AfterLoop  == {<<s, t, Jcc(2), u, A, R>> : s, t \in Slots, u \in Marks}
EntryLoop  == {<<s, Jcc(5), t, Jmp(1), A, R>> : s, t \in Slots}
SelfLoop   == {<<s, t, A, u, Jcc(2), R>> : s, t \in Slots, u \in Marks}
Forever    == {<<s, t, A, Jmp(2)>> : s, t \in Slots} \cup {<<s, Jcc(5), A, Jmp(2), t, Jmp(2)>> : s, t \in Slots}
Nested     == {<<s, t, A, Jcc(3), u, Jcc(2), R>> : s \in Heads, t \in Slots, u \in Marks}
              \cup {<<s, u, t, Jcc(3), A, Jcc(2), R>> : s \in Heads, t \in Slots, u \in Marks}
Branch     == {<<s, A, u, Jcc(6), t, R>> : s, t \in Slots, u \in {Op("flush"), Op("release")}}
TailCall   == {<<s, Jcc(9), A, t, R>> : s, t \in Slots}
Dead       == {<<s, Jmp(4), t, A, Op("exit"), Jmp(4)>> : s, t \in Slots}

\* Functions for each thing the walks leave out (PatchedFunction).
F == Op("flush")
SurvivorShortened == {<<F, Jcc(13), F, Jcc(7), F, Jmp(16), F, Jmp(9), F, Jmp(11), Mov(2, 1), Jmp(16), F, Jmp(15), F, A, R>>}
StartPassed       == {<<F, Jcc(7), F, Jcc(9), F, Jmp(10), F, Jmp(10), Mov(2, 1), A, R>>,
                      <<Ld(2, 1, 0), F, Jcc(6), Alu(2), Jcc(7), Mov(2, 1), A, R>>,
                      <<F, Mov(1, 2), Jcc(5), Op("call"), St(1, 1, 2), Jcc(2), R>>}
LoopPassed        == {<<Op("acquire"), Jmp(4), Alu(2), Jcc(3), A, R>>,
                      <<Op("acquire"), Jcc(5), Alu(2), Jmp(2), A, R>>,
                      <<F, F, Ld(2, 1, 0), St(1, 0, 1), A, Jcc(2), R>>}
TwoEntries        == {<<F, Jcc(4), F, A, Alu(2), Jcc(3), R>>}
Aliased           == {<<Mov(1, 2), St(1, 0, 0), Ld(1, 2, 0), St(1, 1, 0), R>>}
MCPrograms == SurvivorShortened \cup StartPassed \cup LoopPassed \cup TwoEntries \cup Aliased \cup Straight \cup Diamond \cup WhileLoop \cup AfterLoop \cup EntryLoop \cup SelfLoop \cup Nested \cup Branch \cup Forever \cup TailCall \cup Dead
Two == {1, 2}
=============================================================================
