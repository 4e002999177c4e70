------------------------- MODULE FailurePointCampaign -------------------------
(***************************************************************************)
(* What a fault injection campaign promises: it finds the failure points   *)
(* of the target, then gives each one turn: a turn crashes the target at   *)
(* the next failure point, in the order of the execution, and recovers     *)
(* from that crash, or it is lost to a timeout.                            *)
(***************************************************************************)
EXTENDS Naturals, Sequences

CONSTANT FailurePoints

VARIABLES
  untested,   \* the failure points found and not crashed at, in order
  tested,     \* those crashed at and recovered from, in order
  turns,      \* turns left
  started     \* the search is over

campaign == <<untested, tested, turns, started>>

Init ==
  /\ untested = <<>>
  /\ tested = <<>>
  /\ turns = 0
  /\ started = FALSE

Find(fp) ==
  /\ ~started
  /\ \A i \in DOMAIN untested : untested[i] # fp
  /\ untested' = Append(untested, fp)
  /\ turns' = turns + 1
  /\ UNCHANGED <<tested, started>>

Start == ~started /\ started' = TRUE /\ UNCHANGED <<untested, tested, turns>>

\* The failure points do not fit in the memory set apart for them.
GiveUp == ~started /\ started' = TRUE /\ turns' = 0 /\ UNCHANGED <<untested, tested>>

Turn == started /\ turns > 0 /\ turns' = turns - 1 /\ UNCHANGED started

Test ==
  /\ Turn
  /\ untested # <<>>
  /\ tested' = Append(tested, Head(untested))
  /\ untested' = Tail(untested)

\* The timeout may strike before or after the failure point is ticked off.
TimeOut ==
  /\ Turn
  /\ untested' \in {untested} \cup (IF untested = <<>> THEN {} ELSE {Tail(untested)})
  /\ UNCHANGED tested

Next == (\E fp \in FailurePoints : Find(fp)) \/ Start \/ GiveUp \/ Test \/ TimeOut

Spec == Init /\ [][Next]_campaign
=============================================================================
