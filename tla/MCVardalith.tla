----------------------------- MODULE MCVardalith -----------------------------
EXTENDS Vardalith

\* Two of the pairs are one in two orders, two share their first region.
MCPairs == {<<1, 2>>, <<2, 1>>, <<1, 3>>}

Experiment(report, seconds) == [report_type |-> report, timeout_seconds |-> seconds]
Inherits == Experiment(Unset, Unset)
Base(seconds) == [timeout_seconds |-> seconds]

\* Settings of the experiment, of [run], of [base] or of nobody; reports full and off;
\* with timeouts and without.
TwoExperiments ==
  {[base |-> Base(60),    run |-> Experiment(2, Unset), experiments |-> <<Experiment(Unset, 300), Experiment(0, Unset)>>],
   [base |-> Base(Unset), run |-> Experiment(2, Unset), experiments |-> <<Inherits, Inherits>>]}
=============================================================================
