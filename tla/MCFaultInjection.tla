--------------------------- MODULE MCFaultInjection ---------------------------
(* Sets of backtraces: none a prefix of another and no recursion; one with *)
(* a recursive call.                                                       *)
EXTENDS FailurePoints
CONSTANTS a, b, c, d
ProperStacks    == {<<a, b>>, <<a, c, d>>, <<a, d>>, <<b>>}
RecursiveStacks == {<<a, b>>, <<a, a, c>>, <<a, d>>}
WholeCampaign   == {-1}
AnyTarget       == -1 .. 3
=============================================================================
