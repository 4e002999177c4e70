------------------------------- MODULE MapSpec -------------------------------
(***************************************************************************)
(* What a client of the persistent maps relies on: a bag of keys, changed  *)
(* by one key at a time or emptied, that a crash takes back to the state of the last  *)
(* commit.  A map that commits every change by itself is one of them.      *)
(***************************************************************************)
EXTENDS Naturals

CONSTANT Keys

VARIABLES contents,     \* how often each key is in the map
          committed     \* what a crash leaves

MapInit == contents = [k \in Keys |-> 0] /\ committed = contents

Change(these) == contents' \in these /\ committed' \in {committed, contents'}

Insert == Change({[contents EXCEPT ![k] = @ + 1] : k \in Keys})
Remove == Change({[contents EXCEPT ![k] = @ - 1] : k \in {j \in Keys : contents[j] > 0}})
Clear  == Change({[k \in Keys |-> 0]})
Commit    == committed' = contents /\ UNCHANGED contents
Crash     == contents' = committed /\ UNCHANGED committed

MapNext == Commit \/ Crash \/ Insert \/ Remove \/ Clear

MapSpec == MapInit /\ [][MapNext]_<<contents, committed>>
=============================================================================
