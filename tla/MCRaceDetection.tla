--------------------------- MODULE MCRaceDetection ---------------------------
(* One read and one write instruction that run in every thread.            *)
EXTENDS OfflineRaces, TLC
CONSTANTS t1, t2, t3, a1, a2, r, w, here
TwoThreads   == {t1, t2}
ThreeThreads == {t1, t2, t3}
OneAddress   == {a1}
TwoAddresses == {a1, a2}
ReadIds      == {r}
WriteIds     == {w}
OneLocation  == {here}
ThreadSymmetry == Permutations(Threads) \cup Permutations(Addrs)
=============================================================================
