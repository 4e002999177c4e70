--------------------------- MODULE Vardalith_proofs ---------------------------
(***************************************************************************)
(* The files of an experiment are where the report looks for them: under   *)
(* its own name, and all of them, however many experiments, invocations,   *)
(* races and lines of output there are and whatever fails or times out.    *)
(***************************************************************************)
EXTENDS Vardalith, SequenceTheorems, WellFoundedInduction, TLAPS

Wanted(report, f) == report >= (IF f = "txt" THEN 1 ELSE 2)

IsFile(file) == file = File(file.by, file.records, file.torn)

IsSequence(s) == \E S : s \in Seq(S)

(* What each step of run supposes of the program, and the shapes of the    *)
(* files.                                                                  *)
Orderly ==
  /\ config \in Configs
  /\ invocation \in Nat
  /\ index \in 0 .. Len(config.experiments)
  /\ pc \in {"idle", "spawn", "poll", "collect", "txt", "bin"}
  /\ pc = "idle" <=> index = 0
  /\ pc # "idle" => invocation >= 1
  /\ child \in {"none", "starting", "running", "exited", "killed"}
  /\ child \in {"starting", "running"} => pc = "poll"
  /\ child = "none" <=> pc \notin {"poll", "collect"}
  /\ IsSequence(races)
  /\ DOMAIN ramdisk = Files
  /\ \A f \in Files : IsFile(ramdisk[f])
  /\ DOMAIN results = Files \X (1 .. Len(config.experiments))

LEMMA FileFields ==
  ASSUME NEW by, NEW records, NEW torn
  PROVE  /\ IsFile(File(by, records, torn))
         /\ File(by, records, torn).by = by
         /\ Exists(File(by, records, torn)) <=> by # <<0, 0>>
  BY DEF IsFile, File, Exists

LEMMA NewFiles == IsFile(NoFile) /\ ~Exists(NoFile) /\ (\A by : IsFile(File(by, <<>>, FALSE)))
  BY FileFields DEF NoFile

LEMMA AppendSequence ==
  ASSUME NEW s, IsSequence(s), NEW e
  PROVE  IsSequence(Append(s, e)) /\ Range(Append(s, e)) = Range(s) \cup {e}
  <1>1. PICK S : s \in Seq(S)
    BY DEF IsSequence
  <1> DEFINE T == S \cup {e}
  <1>2. s \in Seq(T) /\ e \in T
    BY <1>1, SeqMonotonic
  <1>3. Append(s, e) \in Seq(T)
    BY <1>2
  <1>4. /\ Len(Append(s, e)) = Len(s) + 1 /\ Len(s) \in Nat
        /\ DOMAIN s = 1 .. Len(s) /\ DOMAIN Append(s, e) = 1 .. Len(s) + 1
        /\ \A i \in 1 .. Len(s) : Append(s, e)[i] = s[i]
        /\ Append(s, e)[Len(s) + 1] = e
    BY <1>2
  <1>5. Range(Append(s, e)) = Range(s) \cup {e}
    BY <1>4 DEF Range
  <1> QED
    BY <1>3, <1>5 DEF IsSequence

(* A file written on loses no name, and one that is of another experiment  *)
(* is not written on.                                                      *)
LEMMA WrittenFile ==
  ASSUME Orderly, NEW f \in Files, NEW n, NEW torn
  PROVE  /\ IsFile(Written(f, n, torn))
         /\ Written(f, n, torn).by = ramdisk[f].by
         /\ ramdisk[f].by = Self => Written(f, n, torn) = File(Self, SubSeq(races, 1, n), torn)
         /\ ramdisk[f].by # Self => Written(f, n, torn) = ramdisk[f]
  <1>1. IsFile(ramdisk[f])
    BY DEF Orderly
  <1>2. CASE ramdisk[f].by = Self
    <2>1. Written(f, n, torn) = File(Self, SubSeq(races, 1, n), torn)
      BY <1>2 DEF Written
    <2> QED
      BY <1>2, <2>1, FileFields
  <1>3. CASE ramdisk[f].by # Self
    BY <1>1, <1>3 DEF Written
  <1> QED
    BY <1>2, <1>3

(* A kill leaves of each file what had got there, under the same name.     *)
LEMMA LostFiles ==
  ASSUME Orderly, BuffersLost
  PROVE  /\ DOMAIN ramdisk' = Files
         /\ \A f \in Files : IsFile(ramdisk'[f]) /\ ramdisk'[f].by = ramdisk[f].by
         /\ \A f \in Files : ramdisk[f].by # Self => ramdisk'[f] = ramdisk[f]
  <1>1. PICK n \in [Files -> 0 .. Len(races)], torn \in BOOLEAN :
          ramdisk' = [f \in Files |-> Written(f, n[f], f = "bin" /\ torn)]
    BY DEF BuffersLost
  <1>2. \A f \in Files : ramdisk'[f] = Written(f, n[f], f = "bin" /\ torn)
    BY <1>1
  <1>3. DOMAIN ramdisk' = Files
    BY <1>1
  <1> QED
    BY <1>2, <1>3, WrittenFile

LEMMA InitOrderly == Init => Orderly
  <1> SUFFICES ASSUME Init PROVE Orderly
    OBVIOUS
  <1>1. Len(config.experiments) \in Nat
    BY ExperimentsAssumption DEF Init
  <1>2. IsSequence(<<>>)
    BY DEF IsSequence
  <1>3. /\ DOMAIN ramdisk = Files
        /\ \A f \in Files : IsFile(ramdisk[f])
        /\ DOMAIN results = Files \X (1 .. Len(config.experiments))
    BY NewFiles DEF Init
  <1> QED
    BY <1>1, <1>2, <1>3 DEF Init, Orderly

LEMMA NextOrderly == Orderly /\ [Run \/ Program]_vars => Orderly'
  <1> SUFFICES ASSUME Orderly, [Run \/ Program]_vars PROVE Orderly'
    OBVIOUS
  <1>0. Len(config.experiments) \in Nat \ {0}
    BY ExperimentsAssumption DEF Orderly
  <1>1. CASE execute_run
    BY <1>0, <1>1 DEF execute_run, Orderly
  <1>2. CASE Spawn
    BY <1>2 DEF Spawn, Orderly
  <1>3. CASE Exited
    BY <1>3 DEF Exited, Orderly
  <1>4. CASE TimedOut
    BY <1>4, LostFiles DEF TimedOut, Orderly
  <1>5. CASE WriteOutput
    <2>1. IsSequence(<<>>)
      BY DEF IsSequence
    <2> QED
      BY <1>5, <2>1 DEF WriteOutput, Orderly
  <1>6. CASE Fail
    <2>1. DOMAIN results' = DOMAIN results
      BY <1>6 DEF Fail
    <2> QED
      BY <1>0, <1>6, <2>1 DEF Fail, Orderly, Files
  <1>7. ASSUME NEW f \in Files, move_file(f)
        PROVE  /\ DOMAIN results' = DOMAIN results /\ DOMAIN ramdisk' = Files
               /\ \A g \in Files : IsFile(ramdisk'[g])
    BY <1>7, NewFiles DEF move_file, Orderly
  <1>8. CASE MoveText
    <2>1. /\ DOMAIN results' = DOMAIN results /\ DOMAIN ramdisk' = Files
          /\ \A g \in Files : IsFile(ramdisk'[g])
      BY <1>7, <1>8 DEF MoveText, Files
    <2> QED
      BY <1>8, <2>1 DEF MoveText, move_file, Orderly
  <1>9. CASE MoveBinary
    <2>1. /\ DOMAIN results' = DOMAIN results /\ DOMAIN ramdisk' = Files
          /\ \A g \in Files : IsFile(ramdisk'[g])
      BY <1>7, <1>9 DEF MoveBinary, Files
    <2> QED
      BY <1>0, <1>9, <2>1 DEF MoveBinary, move_file, Orderly
  <1>10. CASE init
    <2>1. DOMAIN ramdisk' = Files /\ \A f \in Files : IsFile(ramdisk'[f])
      BY <1>10, NewFiles DEF init, Orderly
    <2> QED
      BY <1>10, <2>1 DEF init, Orderly
  <1>11. CASE AbortAtStart
    BY <1>11 DEF AbortAtStart, Orderly
  <1>12. CASE PrintLine
    BY <1>12 DEF PrintLine, Orderly
  <1>13. CASE Crash
    BY <1>13, LostFiles DEF Crash, Orderly
  <1>14. CASE fini
    <2>1. DOMAIN ramdisk' = Files /\ \A f \in Files : ramdisk'[f] = Written(f, Len(races), FALSE)
      BY <1>14 DEF fini
    <2>2. \A f \in Files : IsFile(Written(f, Len(races), FALSE))
      BY WrittenFile
    <2> QED
      BY <1>14, <2>1, <2>2 DEF fini, Orderly
  <1>15. ASSUME NEW p \in Pairs, bug(p)
         PROVE  Orderly'
    <2>1. IsSequence(races')
      BY <1>15, AppendSequence DEF bug, Orderly
    <2> QED
      BY <1>15, <2>1 DEF bug, Orderly
  <1>16. CASE UNCHANGED vars
    BY <1>16 DEF vars, Orderly
  <1> QED
    BY <1>1, <1>2, <1>3, <1>4, <1>5, <1>6, <1>8, <1>9, <1>10, <1>11, <1>12, <1>13, <1>14, <1>15, <1>16
       DEF Run, Program

--------------------------------------------------------------------------
(* What is on the RAM disk is of the experiment that runs, from the start  *)
(* of its program on, or was left there by an invocation that failed.      *)
OnDisk(f) ==
  Exists(ramdisk[f]) => \/ pc \notin {"idle", "spawn"} /\ ramdisk[f].by = Self
                        \/ ramdisk[f].by[1] \in failed

Attributed ==
  /\ \A f \in Files : OnDisk(f)
  /\ pc = "bin" => ~Exists(ramdisk["txt"])
  /\ BugsAttributed

LEMMA InitAttributed == Init => Attributed
  BY NewFiles DEF Init, Attributed, OnDisk, BugsAttributed, Files

(* Only names, and whether the experiment goes on, count here.             *)
LEMMA AttributedStays ==
  ASSUME Attributed,
         DOMAIN results' = DOMAIN results, \A x \in DOMAIN results : results'[x] = results[x],
         \A f \in Files : ramdisk'[f].by = ramdisk[f].by \/ ramdisk'[f].by = Self,
         failed' = failed, Self' = Self,
         pc' = pc \/ pc' \notin {"idle", "spawn", "bin"},
         \A f \in Files : ramdisk'[f].by # ramdisk[f].by => pc' \notin {"idle", "spawn", "bin"}
  PROVE  Attributed'
  <1>1. BugsAttributed'
    BY DEF Attributed, BugsAttributed, Exists
  <1>2. ASSUME NEW f \in Files PROVE OnDisk(f)'
    <2>1. OnDisk(f)
      BY DEF Attributed
    <2> QED
      BY <2>1 DEF OnDisk, Exists
  <1>3. pc' = "bin" => ~Exists(ramdisk["txt"])'
    BY DEF Attributed, Exists, Files
  <1> QED
    BY <1>1, <1>2, <1>3 DEF Attributed

LEMMA NextAttributed == Orderly /\ Attributed /\ [Run \/ Program]_vars => Attributed'
  <1> SUFFICES ASSUME Orderly, Attributed, [Run \/ Program]_vars PROVE Attributed'
    OBVIOUS
  <1>1. CASE execute_run
    BY <1>1 DEF execute_run, Attributed, OnDisk, BugsAttributed, Exists, Self
  <1>2. CASE Spawn
    BY <1>2 DEF Spawn, Attributed, OnDisk, BugsAttributed, Exists, Self
  <1>3. CASE Exited
    BY <1>3, AttributedStays DEF Exited, Self
  <1>4. CASE TimedOut
    BY <1>4, LostFiles, AttributedStays DEF TimedOut, Self
  <1>5. CASE WriteOutput
    BY <1>5, AttributedStays DEF WriteOutput, Self
  <1>6. CASE Fail
    <2>1. ASSUME NEW f \in Files PROVE OnDisk(f)'
      <3>1. OnDisk(f)
        BY DEF Attributed
      <3> QED
        BY <1>6, <3>1 DEF Fail, OnDisk, Exists, Self
    <2>2. BugsAttributed'
      <3> SUFFICES ASSUME NEW x \in DOMAIN results', Exists(results'[x])
                   PROVE  results'[x].by[2] = x[2] \/ results'[x].by[1] \in failed'
        BY DEF BugsAttributed, Exists
      <3>1. DOMAIN results' = DOMAIN results
        BY <1>6 DEF Fail
      <3>2. CASE results'[x] = results[x]
        BY <1>6, <3>1, <3>2 DEF Fail, Attributed, BugsAttributed
      <3>3. CASE results'[x] # results[x]
        <4>1. /\ Exists(ramdisk[pc])
              /\ x = <<pc, index>>
              /\ \E torn : results'[x] = File(ramdisk[pc].by, ramdisk[pc].records, torn)
          BY <1>6, <3>1, <3>3 DEF Fail
        <4>2. results'[x].by = ramdisk[pc].by
          BY <4>1, FileFields
        <4>3. OnDisk(pc)
          BY <1>6 DEF Fail, Attributed
        <4> QED
          BY <1>6, <4>1, <4>2, <4>3 DEF Fail, OnDisk, Self
      <3> QED
        BY <3>2, <3>3
    <2> QED
      BY <1>6, <2>1, <2>2 DEF Fail, Attributed
  <1>7. ASSUME NEW f \in Files, move_file(f), failed' = failed, f = "bin" \/ f = "txt"
        PROVE  /\ BugsAttributed'
               /\ \A g \in Files : Exists(ramdisk'[g]) => g # f /\ ramdisk'[g] = ramdisk[g]
               /\ ~Exists(ramdisk'[f])
    <2>1. \A g \in Files : ramdisk'[g] = IF g = f THEN NoFile ELSE ramdisk[g]
      BY <1>7 DEF move_file, Orderly
    <2>2. ASSUME NEW x \in DOMAIN results', Exists(results'[x])
          PROVE  results'[x].by[2] = x[2] \/ results'[x].by[1] \in failed'
      <3>1. DOMAIN results' = DOMAIN results
        BY <1>7 DEF move_file
      <3>2. CASE results'[x] = results[x]
        BY <1>7, <2>2, <3>1, <3>2 DEF Attributed, BugsAttributed
      <3>3. CASE results'[x] # results[x]
        <4>1. x = <<f, index>> /\ results'[x] = ramdisk[f]
          BY <1>7, <3>1, <3>3 DEF move_file
        <4>2. OnDisk(f)
          BY DEF Attributed
        <4> QED
          BY <1>7, <2>2, <4>1, <4>2 DEF move_file, OnDisk, Self
      <3> QED
        BY <3>2, <3>3
    <2> QED
      BY <2>1, <2>2, NewFiles DEF BugsAttributed, Exists
  <1>8. CASE MoveText
    <2>1. "txt" \in Files /\ move_file("txt") /\ failed' = failed /\ Self' = Self
      BY <1>8 DEF MoveText, Files, Self
    <2>2. /\ BugsAttributed' /\ ~Exists(ramdisk'["txt"])
          /\ \A g \in Files : Exists(ramdisk'[g]) => ramdisk'[g] = ramdisk[g]
      BY <1>7, <2>1
    <2>3. ASSUME NEW g \in Files PROVE OnDisk(g)'
      <3>1. OnDisk(g)
        BY DEF Attributed
      <3> QED
        BY <1>8, <2>1, <2>2, <3>1 DEF MoveText, OnDisk, Exists
    <2> QED
      BY <2>2, <2>3 DEF Attributed, Exists
  <1>9. CASE MoveBinary
    <2>1. "bin" \in Files /\ move_file("bin") /\ failed' = failed /\ pc = "bin"
      BY <1>9 DEF MoveBinary, Files, move_file
    <2>2. /\ BugsAttributed'
          /\ \A g \in Files : Exists(ramdisk'[g]) => g # "bin" /\ ramdisk'[g] = ramdisk[g]
      BY <1>7, <2>1
    <2>3. \A g \in Files : ~Exists(ramdisk'[g])
      BY <2>1, <2>2 DEF Attributed, Files
    <2>4. pc' # "bin"
      BY <1>9 DEF MoveBinary
    <2> QED
      BY <2>2, <2>3, <2>4 DEF Attributed, OnDisk, Exists
  <1>10. CASE init
    <2>1. \A f \in Files : ramdisk'[f] = File(Self, <<>>, FALSE) \/ ramdisk'[f] = ramdisk[f]
      BY <1>10 DEF init
    <2>2. \A f \in Files : ramdisk'[f].by = ramdisk[f].by \/ ramdisk'[f].by = Self
      BY <2>1 DEF File
    <2>3. pc = "poll"
      BY <1>10 DEF init, Orderly
    <2> QED
      BY <1>10, <2>2, <2>3, AttributedStays DEF init, Self
  <1>11. CASE AbortAtStart
    BY <1>11, AttributedStays DEF AbortAtStart, Self
  <1>12. CASE PrintLine
    BY <1>12, AttributedStays DEF PrintLine, Self
  <1>13. CASE Crash
    BY <1>13, LostFiles, AttributedStays DEF Crash, Self
  <1>14. CASE fini
    <2>1. \A f \in Files : ramdisk'[f].by = ramdisk[f].by
      BY <1>14, WrittenFile DEF fini
    <2> QED
      BY <1>14, <2>1, AttributedStays DEF fini, Self
  <1>15. ASSUME NEW p \in Pairs, bug(p)
         PROVE  Attributed'
    BY <1>15, AttributedStays DEF bug, Self
  <1>16. CASE UNCHANGED vars
    BY <1>16, AttributedStays DEF vars, Self
  <1> QED
    BY <1>1, <1>2, <1>3, <1>4, <1>5, <1>6, <1>8, <1>9, <1>10, <1>11, <1>12, <1>13, <1>14, <1>15, <1>16
       DEF Run, Program

(* The results directory never has under the name of an experiment what    *)
(* another one wrote, but for what an invocation that failed had left on   *)
(* the RAM disk: move_file of run.rs takes the file of a fixed name,       *)
(* whoever wrote it, and yet it is the right one.                          *)
THEOREM ResultsAlwaysAttributed == Spec => []BugsAttributed
  <1>1. Orderly /\ Attributed /\ [Run \/ Program]_vars => (Orderly /\ Attributed)'
    BY NextOrderly, NextAttributed
  <1>2. Init => Orderly /\ Attributed
    BY InitOrderly, InitAttributed
  <1>3. Attributed => BugsAttributed
    BY DEF Attributed
  <1> QED
    BY <1>1, <1>2, <1>3, PTL DEF Spec

--------------------------------------------------------------------------
(* Where the files of an experiment that ended by itself are: on the RAM   *)
(* disk, whole, until each is moved, and then in the results, under a name *)
(* that nothing else of the invocation takes.                              *)
Home(h) == File(h.by, h.races, FALSE)

Current(h) ==
  h.by = Self => /\ pc # "spawn"
                 /\ pc = "poll" => child = "exited"
                 /\ \A f \in Files : Wanted(h.report, f) =>
                      /\ pc = "bin" /\ f = "txt" => results[<<f, index>>] = Home(h)
                      /\ pc # "bin" \/ f # "txt" => ramdisk[f] = Home(h)

Past(h) ==
  h.by # Self /\ h.by[1] = invocation /\ h.by[1] \notin failed =>
    \A f \in Files : Wanted(h.report, f) => results[<<f, h.by[2]>>] = Home(h)

Dated(h) ==
  /\ h.by \in Nat \X (Nat \ {0})
  /\ h.by[1] <= invocation
  /\ h.by[1] = invocation /\ pc # "idle" => h.by[2] <= index

Accounted(h) == Dated(h) /\ Current(h) /\ Past(h)

Kept == child = "running" => \A f \in Files : Wanted(settings.report, f) => ramdisk[f].by = Self

Collected ==
  /\ IsSequence(history)
  /\ \A h \in Range(history) : Accounted(h)
  /\ Kept

LEMMA InitCollected == Init => Collected
  <1> SUFFICES ASSUME Init PROVE Collected
    OBVIOUS
  <1>1. history = <<>>
    BY DEF Init
  <1>2. IsSequence(history) /\ Range(history) = {}
    BY <1>1 DEF IsSequence, Range
  <1> QED
    BY <1>2 DEF Init, Collected, Kept

LEMMA CollectedIsFilesCollected == Collected => FilesCollected
  BY DEF Collected, Accounted, Past, FilesCollected, Wanted, Home

(* Steps that leave the files and the experiment alone.                    *)
LEMMA AccountedStays ==
  ASSUME NEW h, Accounted(h), UNCHANGED <<invocation, index, failed, ramdisk, results>>,
         pc' = "idle" <=> pc = "idle",
         pc' = "spawn" => pc = "spawn",
         pc' = "bin" <=> pc = "bin",
         h.by = Self => (pc' = "poll" => child' = "exited")
  PROVE  Accounted(h)'
  <1>1. Self' = Self
    BY DEF Self
  <1>2. Dated(h)'
    BY DEF Accounted, Dated
  <1>3. Current(h)'
    BY <1>1 DEF Accounted, Current, Home
  <1>4. Past(h)'
    BY <1>1 DEF Accounted, Past, Home
  <1> QED
    BY <1>2, <1>3, <1>4 DEF Accounted

(* Before its program has ended an experiment is not in the history.       *)
LEMMA NotYet ==
  ASSUME Orderly, NEW h, Accounted(h), child \in {"starting", "running"} \/ pc \in {"idle", "spawn"}
  PROVE  h.by # Self
  BY DEF Orderly, Accounted, Current, Dated, Self

(* Until it has, what happens on the RAM disk is no concern of the others. *)
LEMMA OthersStay ==
  ASSUME NEW h, Accounted(h), h.by # Self, UNCHANGED <<invocation, index, failed, results>>,
         pc' = "idle" <=> pc = "idle"
  PROVE  Accounted(h)'
  <1>1. Self' = Self
    BY DEF Self
  <1> QED
    BY <1>1 DEF Accounted, Dated, Current, Past, Home

(* The destructor makes the files of its experiment whole.                 *)
LEMMA EndOfExperiment ==
  ASSUME Orderly, Collected, fini
  PROVE  Collected'
  <1>0. Len(config.experiments) \in Nat \ {0}
    BY ExperimentsAssumption DEF Orderly
  <1>1. child = "running" /\ pc = "poll" /\ pc' = pc /\ child' = "exited" /\ results' = results
    BY DEF fini, Orderly
  <1>2. UNCHANGED <<invocation, index, failed>> /\ Self' = Self
    BY DEF fini, Self
  <1>7. PICK e : e = [by |-> Self, report |-> settings.report, races |-> races]
    OBVIOUS
  <1>3. IsSequence(history') /\ Range(history') = Range(history) \cup {e}
    BY <1>7, AppendSequence DEF fini, Collected
  <1>4. ASSUME NEW h \in Range(history)
        PROVE  Accounted(h)'
    <2>1. Accounted(h) /\ h.by # Self
      BY <1>1, NotYet DEF Collected
    <2> QED
      BY <1>1, <1>2, <2>1, OthersStay
  <1>5. SubSeq(races, 1, Len(races)) = races
    BY DEF Orderly, IsSequence
  <1>6. ASSUME NEW f \in Files, Wanted(settings.report, f)
        PROVE  ramdisk'[f] = File(Self, races, FALSE)
    <2>1. ramdisk[f].by = Self
      BY <1>1, <1>6 DEF Collected, Kept
    <2>2. ramdisk'[f] = Written(f, Len(races), FALSE)
      BY DEF fini
    <2>3. Written(f, Len(races), FALSE) = File(Self, SubSeq(races, 1, Len(races)), FALSE)
      BY <2>1, WrittenFile
    <2> QED
      BY <1>5, <2>2, <2>3
  <1>8. Accounted(e)'
    <2>1. invocation \in Nat \ {0} /\ index \in Nat \ {0} /\ e.by = <<invocation, index>>
      BY <1>0, <1>1, <1>7 DEF Orderly, Self
    <2>2. Dated(e)'
      BY <1>1, <1>2, <2>1 DEF Dated
    <2>3. Current(e)'
      BY <1>1, <1>2, <1>6, <1>7 DEF Current, Home
    <2>4. Past(e)'
      BY <1>2, <1>7 DEF Past
    <2> QED
      BY <2>2, <2>3, <2>4 DEF Accounted
  <1> QED
    BY <1>1, <1>3, <1>4, <1>8 DEF Collected, Kept

(* A file that is moved is in the results from then on.                    *)
LEMMA MovedFile ==
  ASSUME Orderly, NEW f \in Files, move_file(f), f = "bin" \/ f = "txt"
  PROVE  /\ \A x \in DOMAIN results : x # <<f, index>> => results'[x] = results[x]
         /\ \A g \in Files : g # f => ramdisk'[g] = ramdisk[g]
         /\ Exists(ramdisk[f]) => results'[<<f, index>>] = ramdisk[f]
  <1>1. <<f, index>> \in DOMAIN results
    BY DEF move_file, Orderly
  <1> QED
    BY <1>1 DEF move_file, Orderly

LEMMA HomeExists ==
  ASSUME NEW h, Accounted(h)
  PROVE  Exists(Home(h))
  <1>1. h.by # <<0, 0>>
    BY DEF Accounted, Dated
  <1>2. Home(h).by = h.by
    BY DEF Home, File
  <1> QED
    BY <1>1, <1>2 DEF Exists

(* The results of the other experiments of the invocation are not touched. *)
LEMMA OthersResults ==
  ASSUME Orderly, NEW f \in Files, move_file(f), f = "bin" \/ f = "txt", pc # "idle",
         NEW h, Accounted(h), h.by # Self, h.by[1] = invocation, h.by[1] \notin failed,
         NEW g \in Files, Wanted(h.report, g)
  PROVE  results'[<<g, h.by[2]>>] = Home(h)
  <1>1. h.by = <<h.by[1], h.by[2]>> /\ h.by[2] \in Nat \ {0} /\ h.by[2] <= index
    BY DEF Accounted, Dated
  <1>2. h.by[2] # index
    BY <1>1 DEF Self
  <1>3. <<g, h.by[2]>> \in DOMAIN results
    BY <1>1 DEF Orderly
  <1>4. results[<<g, h.by[2]>>] = Home(h)
    BY DEF Accounted, Past
  <1> QED
    BY <1>2, <1>3, <1>4, MovedFile

LEMMA MoveTextAccounted ==
  ASSUME Orderly, MoveText, NEW h, Accounted(h)
  PROVE  Accounted(h)'
  <1>1. /\ "txt" \in Files /\ "bin" \in Files /\ move_file("txt") /\ pc = "txt" /\ pc' = "bin"
        /\ UNCHANGED <<invocation, index, failed>> /\ Self' = Self
    BY DEF MoveText, move_file, Files, Self
  <1>2. Dated(h)'
    BY <1>1 DEF Accounted, Dated
  <1>3. Current(h)'
    <2> SUFFICES ASSUME h.by = Self, NEW f \in Files, Wanted(h.report, f)
                 PROVE  /\ f = "txt" => results'[<<f, index>>] = Home(h)
                        /\ f # "txt" => ramdisk'[f] = Home(h)
      BY <1>1 DEF Current, Home
    <2>1. ramdisk[f] = Home(h)
      BY <1>1 DEF Accounted, Current
    <2>2. Exists(Home(h))
      BY HomeExists
    <2> QED
      BY <1>1, <2>1, <2>2, MovedFile
  <1>4. Past(h)'
    BY <1>1, OthersResults DEF Past, Home
  <1> QED
    BY <1>2, <1>3, <1>4 DEF Accounted

LEMMA MoveBinaryAccounted ==
  ASSUME Orderly, MoveBinary, NEW h, Accounted(h)
  PROVE  Accounted(h)'
  <1>0. Len(config.experiments) \in Nat \ {0}
    BY ExperimentsAssumption DEF Orderly
  <1>1. /\ "txt" \in Files /\ "bin" \in Files /\ move_file("bin") /\ pc = "bin"
        /\ UNCHANGED <<invocation, failed>>
        /\ index \in Nat \ {0}
        /\ (index' = index + 1 /\ pc' = "spawn") \/ (index' = 0 /\ pc' = "idle")
    BY <1>0 DEF MoveBinary, move_file, Files, Orderly
  <1>2. h.by = <<h.by[1], h.by[2]>> /\ h.by[2] \in Nat \ {0} /\ (h.by[1] = invocation => h.by[2] <= index)
    BY <1>1 DEF Accounted, Dated
  <1>3. h.by # Self'
    BY <1>1, <1>2 DEF Self
  <1>4. Dated(h)'
    BY <1>1, <1>2 DEF Accounted, Dated
  <1>5. ASSUME h.by = Self, NEW f \in Files, Wanted(h.report, f)
        PROVE  results'[<<f, h.by[2]>>] = Home(h)
    <2>1. h.by[2] = index
      BY <1>5 DEF Self
    <2>2. CASE f = "txt"
      <3>1. results[<<f, index>>] = Home(h)
        BY <1>1, <1>5, <2>2 DEF Accounted, Current
      <3>2. <<f, index>> \in DOMAIN results
        BY <1>1 DEF Orderly
      <3> QED
        BY <1>1, <2>1, <2>2, <3>1, <3>2, MovedFile
    <2>3. CASE f = "bin"
      <3>1. ramdisk[f] = Home(h)
        BY <1>1, <1>5, <2>3 DEF Accounted, Current
      <3>2. Exists(Home(h))
        BY HomeExists
      <3> QED
        BY <1>1, <2>1, <2>3, <3>1, <3>2, MovedFile
    <2> QED
      BY <2>2, <2>3 DEF Files
  <1>6. Past(h)'
    BY <1>1, <1>5, OthersResults DEF Past, Home
  <1> QED
    BY <1>3, <1>4, <1>6 DEF Accounted, Current

LEMMA FailAccounted ==
  ASSUME Orderly, Fail, NEW h, Accounted(h)
  PROVE  Accounted(h)'
  <1>1. /\ failed' = failed \cup {invocation} /\ pc' = "idle" /\ index' = 0 /\ invocation' = invocation
        /\ pc # "idle"
    BY DEF Fail, Files, Orderly
  <1>2. Dated(h)'
    BY <1>1 DEF Accounted, Dated
  <1>3. h.by # Self'
    BY <1>1 DEF Accounted, Dated, Self
  <1>4. h.by[1] = invocation' => h.by[1] \in failed'
    BY <1>1
  <1> QED
    BY <1>2, <1>3, <1>4 DEF Accounted, Current, Past

(* Steps that add nothing to the history.                                  *)
LEMMA CollectedStays ==
  ASSUME Collected, history' = history, \A h : Accounted(h) => Accounted(h)', Kept'
  PROVE  Collected'
  BY DEF Collected, Range

LEMMA NextCollected == Orderly /\ Collected /\ [Run \/ Program]_vars => Collected'
  <1> SUFFICES ASSUME Orderly, Collected, [Run \/ Program]_vars PROVE Collected'
    OBVIOUS
  <1>k. Kept
    BY DEF Collected
  <1>1. CASE execute_run
    <2>1. pc = "idle" /\ child = "none"
      BY <1>1 DEF execute_run, Orderly
    <2>2. ASSUME NEW h, Accounted(h) PROVE Accounted(h)'
      <3>1. invocation \in Nat /\ h.by \in Nat \X (Nat \ {0}) /\ h.by[1] <= invocation
        BY <2>2 DEF Orderly, Accounted, Dated
      <3>2. h.by[1] # invocation' /\ h.by[1] <= invocation'
        BY <1>1, <3>1 DEF execute_run
      <3> QED
        BY <3>1, <3>2 DEF Accounted, Dated, Current, Past, Self
    <2> QED
      BY <1>1, <2>1, <2>2, CollectedStays DEF execute_run, Kept
  <1>2. CASE Spawn
    <2>1. ASSUME NEW h, Accounted(h) PROVE Accounted(h)'
      BY <1>2, <2>1, NotYet, OthersStay DEF Spawn
    <2> QED
      BY <1>2, <2>1, CollectedStays DEF Spawn, Kept
  <1>3. CASE Exited
    <2>1. ASSUME NEW h, Accounted(h) PROVE Accounted(h)'
      BY <1>3, <2>1, AccountedStays DEF Exited
    <2>2. Kept'
      BY <1>3 DEF Exited, Kept
    <2> QED
      BY <1>3, <2>1, <2>2, CollectedStays DEF Exited
  <1>4. CASE TimedOut
    <2>1. ASSUME NEW h, Accounted(h) PROVE Accounted(h)'
      <3>1. h.by # Self
        BY <1>4, <2>1 DEF TimedOut, Accounted, Current
      <3> QED
        BY <1>4, <2>1, <3>1, OthersStay DEF TimedOut
    <2> QED
      BY <1>4, <2>1, CollectedStays DEF TimedOut, Kept
  <1>5. CASE WriteOutput
    <2>1. ASSUME NEW h, Accounted(h) PROVE Accounted(h)'
      BY <1>5, <2>1, AccountedStays DEF WriteOutput
    <2> QED
      BY <1>5, <2>1, CollectedStays DEF WriteOutput, Kept
  <1>6. CASE Fail
    <2>1. child # "running"
      BY <1>6 DEF Fail, Files, Orderly
    <2> QED
      BY <1>6, <2>1, FailAccounted, CollectedStays DEF Fail, Kept
  <1>7. CASE MoveText
    <2>1. child # "running"
      BY <1>7 DEF MoveText, move_file, Orderly
    <2> QED
      BY <1>7, <2>1, MoveTextAccounted, CollectedStays DEF MoveText, Kept
  <1>8. CASE MoveBinary
    <2>1. child # "running"
      BY <1>8 DEF MoveBinary, move_file, Orderly
    <2> QED
      BY <1>8, <2>1, MoveBinaryAccounted, CollectedStays DEF MoveBinary, Kept
  <1>9. CASE init
    <2>1. ASSUME NEW h, Accounted(h) PROVE Accounted(h)'
      BY <1>9, <2>1, NotYet, OthersStay DEF init
    <2>2. Kept'
      <3>1. \A f \in Files : Wanted(settings'.report, f) => ramdisk'[f] = File(Self, <<>>, FALSE)
        BY <1>9 DEF init, Wanted
      <3>2. \A f \in Files : Wanted(settings'.report, f) => ramdisk'[f].by = Self
        BY <3>1 DEF File
      <3> QED
        BY <1>9, <3>2 DEF init, Kept, Self
    <2> QED
      BY <1>9, <2>1, <2>2, CollectedStays DEF init
  <1>10. CASE AbortAtStart
    <2>1. ASSUME NEW h, Accounted(h) PROVE Accounted(h)'
      BY <1>10, <2>1, NotYet, OthersStay DEF AbortAtStart
    <2> QED
      BY <1>10, <2>1, CollectedStays DEF AbortAtStart, Kept
  <1>11. CASE PrintLine
    <2>1. ASSUME NEW h, Accounted(h) PROVE Accounted(h)'
      BY <1>11, <2>1, AccountedStays, NotYet DEF PrintLine
    <2> QED
      BY <1>k, <1>11, <2>1, CollectedStays DEF PrintLine, Kept, Self
  <1>12. CASE Crash
    <2>1. ASSUME NEW h, Accounted(h) PROVE Accounted(h)'
      BY <1>12, <2>1, NotYet, OthersStay DEF Crash
    <2> QED
      BY <1>12, <2>1, CollectedStays DEF Crash, Kept
  <1>13. CASE fini
    BY <1>13, EndOfExperiment
  <1>14. ASSUME NEW p \in Pairs, bug(p)
         PROVE  Collected'
    <2>1. ASSUME NEW h, Accounted(h) PROVE Accounted(h)'
      BY <1>14, <2>1, AccountedStays, NotYet DEF bug
    <2> QED
      BY <1>k, <1>14, <2>1, CollectedStays DEF bug, Kept, Self
  <1>15. CASE UNCHANGED vars
    <2>1. ASSUME NEW h, Accounted(h) PROVE Accounted(h)'
      <3>1. h.by = Self => (pc = "poll" => child = "exited")
        BY <2>1 DEF Accounted, Current
      <3> QED
        BY <1>15, <2>1, <3>1, AccountedStays DEF vars
    <2> QED
      BY <1>k, <1>15, <2>1, CollectedStays DEF vars, Kept, Self
  <1> QED
    BY <1>1, <1>2, <1>3, <1>4, <1>5, <1>6, <1>7, <1>8, <1>9, <1>10, <1>11, <1>12, <1>13, <1>14, <1>15
       DEF Run, Program

(* The next experiment finds the files of the last one in the results,     *)
(* whole and under its name, if the last one ended by itself: none is      *)
(* overwritten on the RAM disk or in the directory before the invocation   *)
(* is over, unless execute_run returns an error.                           *)
THEOREM FilesAlwaysCollected == Spec => []FilesCollected
  <1>1. Orderly /\ Collected /\ [Run \/ Program]_vars => (Orderly /\ Collected)'
    BY NextOrderly, NextCollected
  <1>2. Init => Orderly /\ Collected
    BY InitOrderly, InitCollected
  <1> QED
    BY <1>1, <1>2, CollectedIsFilesCollected, PTL DEF Spec

--------------------------------------------------------------------------
(* Numbers and sequences.                                                  *)

LEMMA LeastElement ==
  ASSUME NEW T, T \subseteq Nat, T # {}
  PROVE  \E n \in T : \A m \in T : n <= m
  <1> DEFINE less == {p \in Nat \X Nat : p[1] < p[2]}
  <1>1. IsWellFoundedOn(less, Nat)
    BY NatLessThanWellFounded DEF OpToRel
  <1>2. PICK n \in T : \A m \in T : <<m, n>> \notin less
    BY <1>1, WFMin
  <1>3. \A m \in T : ~(m < n)
    BY <1>2
  <1> QED
    BY <1>3

LEMMA UpFromZero ==
  ASSUME NEW T, 0 \in T, \A n \in Nat : n \in T => n + 1 \in T
  PROVE  \A n \in Nat : n \in T
  <1> SUFFICES ASSUME Nat \ T # {} PROVE FALSE
    OBVIOUS
  <1>1. PICK n \in Nat \ T : \A m \in Nat \ T : n <= m
    BY LeastElement
  <1>2. n - 1 \in Nat /\ n - 1 \in T
    BY <1>1
  <1> QED
    BY <1>1, <1>2

LEMMA LastOf ==
  ASSUME NEW N \in Nat, NEW set \in SUBSET (1 .. N), set # {}
  PROVE  Max(set) \in set /\ \A m \in set : m <= Max(set)
  <1> DEFINE T == {N - m : m \in set}
  <1>0. \A m \in set : m \in Nat /\ m <= N
    OBVIOUS
  <1>a. \A m \in set : N - m \in Nat
    BY <1>0
  <1>1. T \subseteq Nat /\ T # {}
    BY <1>a
  <1>2. PICK n \in T : \A m \in T : n <= m
    BY <1>1, LeastElement
  <1>3. PICK x \in set : n = N - x
    OBVIOUS
  <1>4. ASSUME NEW m \in set PROVE m <= x
    <2>1. n <= N - m
      BY <1>2
    <2> QED
      BY <1>0, <1>3, <2>1
  <1>5. \E y \in set : \A m \in set : y >= m
    BY <1>3, <1>4
  <1>6. Max(set) \in set /\ \A m \in set : Max(set) >= m
    BY <1>5 DEF Max
  <1> QED
    BY <1>6

LEMMA ConcatRange ==
  ASSUME NEW S, NEW s \in Seq(S), NEW t \in Seq(S)
  PROVE  s \o t \in Seq(S) /\ Range(s) \subseteq Range(s \o t) /\ Range(t) \subseteq Range(s \o t)
  <1>1. /\ s \o t \in Seq(S) /\ Len(s \o t) = Len(s) + Len(t)
        /\ Len(s) \in Nat /\ Len(t) \in Nat
        /\ DOMAIN s = 1 .. Len(s) /\ DOMAIN t = 1 .. Len(t) /\ DOMAIN (s \o t) = 1 .. Len(s) + Len(t)
        /\ \A i \in 1 .. Len(s) : (s \o t)[i] = s[i]
        /\ \A i \in 1 .. Len(t) : (s \o t)[i + Len(s)] = t[i]
    OBVIOUS
  <1>2. \A i \in 1 .. Len(t) : i + Len(s) \in 1 .. Len(s) + Len(t)
    BY <1>1
  <1>3. \A i \in 1 .. Len(s) : i \in 1 .. Len(s) + Len(t)
    BY <1>1
  <1> QED
    BY <1>1, <1>2, <1>3 DEF Range

(* A sequence of sequences in one.                                         *)
Flattens(seqs, f) ==
  f = [i \in 1 .. Len(seqs) |-> IF i = 1 THEN seqs[i] ELSE f[i - 1] \o seqs[i]]

LEMMA FlattenSteps ==
  ASSUME NEW S, NEW seqs \in Seq(Seq(S)), seqs # <<>>
  PROVE  \E f : Flattens(seqs, f) /\ FlattenSeq(seqs) = f[Len(seqs)]
  <1> DEFINE N == Len(seqs)
             Def(f, m) == f = [i \in 1 .. m |-> IF i = 1 THEN seqs[i] ELSE f[i - 1] \o seqs[i]]
             T == {m \in Nat : \E f : Def(f, m)}
  <1>0. N \in Nat \ {0}
    OBVIOUS
  <1>1. 0 \in T
    <2>1. PICK g : g = [i \in 1 .. 0 |-> seqs[i]]
      OBVIOUS
    <2>2. Def(g, 0)
      BY <2>1
    <2> HIDE DEF Def
    <2> QED
      BY <2>2
  <1>2. ASSUME NEW m \in Nat, m \in T PROVE m + 1 \in T
    <2>1. PICK g : Def(g, m)
      BY <1>2
    <2> DEFINE h == [i \in 1 .. m + 1 |-> IF i = 1 THEN seqs[i] ELSE g[i - 1] \o seqs[i]]
    <2>2. ASSUME NEW i \in 1 .. m PROVE g[i] = h[i]
      <3>1. g[i] = IF i = 1 THEN seqs[i] ELSE g[i - 1] \o seqs[i]
        BY <2>1
      <3>2. i \in 1 .. m + 1
        OBVIOUS
      <3>3. h[i] = IF i = 1 THEN seqs[i] ELSE g[i - 1] \o seqs[i]
        BY <3>2
      <3> HIDE DEF h
      <3> QED
        BY <3>1, <3>3
    <2>3. ASSUME NEW i \in 1 .. m + 1, i # 1 PROVE g[i - 1] = h[i - 1]
      <3>1. i - 1 \in 1 .. m
        BY <2>3
      <3> HIDE DEF h, Def
      <3> QED
        BY <2>2, <3>1
    <2>4. h = [i \in 1 .. m + 1 |-> IF i = 1 THEN seqs[i] ELSE h[i - 1] \o seqs[i]]
      <3> DEFINE k == [i \in 1 .. m + 1 |-> IF i = 1 THEN seqs[i] ELSE h[i - 1] \o seqs[i]]
      <3>1. \A i \in 1 .. m + 1 : h[i] = k[i]
        BY <2>3
      <3> QED
        BY <3>1
    <2>5. Def(h, m + 1)
      BY <2>4
    <2> HIDE DEF Def, h
    <2> QED
      BY <2>5
  <1>3. N \in T
    <2> HIDE DEF T
    <2> QED
      BY <1>0, <1>1, <1>2, UpFromZero
  <1>4. \E f : Flattens(seqs, f)
    BY <1>3 DEF Flattens
  <1>5. Flattens(seqs, CHOOSE f : Flattens(seqs, f))
    BY <1>4
  <1>6. FlattenSeq(seqs) = (CHOOSE f : Flattens(seqs, f))[N]
    BY <1>0 DEF FlattenSeq, Flattens
  <1> QED
    BY <1>5, <1>6

LEMMA FlattenExact ==
  ASSUME NEW S, NEW seqs \in Seq(Seq(S)), seqs # <<>>
  PROVE  /\ FlattenSeq(seqs) \in Seq(S)
         /\ \A i \in 1 .. Len(seqs) : Range(seqs[i]) \subseteq Range(FlattenSeq(seqs))
  <1>1. PICK f : Flattens(seqs, f) /\ FlattenSeq(seqs) = f[Len(seqs)]
    BY FlattenSteps
  <1> DEFINE N == Len(seqs)
             Good(m) == /\ f[m] \in Seq(S)
                        /\ \A i \in 1 .. m : Range(seqs[i]) \subseteq Range(f[m])
             T == {m \in Nat : m \in 1 .. N => Good(m)}
  <1>0. N \in Nat \ {0} /\ \A i \in 1 .. N : seqs[i] \in Seq(S)
    OBVIOUS
  <1>2. 0 \in T
    OBVIOUS
  <1>3. ASSUME NEW m \in Nat, m \in T PROVE m + 1 \in T
    <2> SUFFICES ASSUME m + 1 \in 1 .. N PROVE Good(m + 1)
      OBVIOUS
    <2>1. CASE m = 0
      <3>1. f[1] = seqs[1]
        BY <1>0, <1>1 DEF Flattens
      <3>2. \A i \in 1 .. 1 : i = 1
        OBVIOUS
      <3> QED
        BY <1>0, <2>1, <3>1, <3>2
    <2>2. CASE m # 0
      <3>1. m \in 1 .. N /\ Good(m)
        BY <1>3, <2>2
      <3>2. f[m + 1] = f[m] \o seqs[m + 1]
        <4>1. m + 1 # 1 /\ (m + 1) - 1 = m /\ m + 1 \in 1 .. Len(seqs)
          BY <2>2
        <4>2. f[m + 1] = IF m + 1 = 1 THEN seqs[m + 1] ELSE f[(m + 1) - 1] \o seqs[m + 1]
          BY <1>1, <4>1 DEF Flattens
        <4> QED
          BY <4>1, <4>2
      <3>3. seqs[m + 1] \in Seq(S) /\ f[m] \in Seq(S)
        BY <1>0, <3>1
      <3>4. /\ f[m + 1] \in Seq(S)
            /\ Range(f[m]) \subseteq Range(f[m + 1])
            /\ Range(seqs[m + 1]) \subseteq Range(f[m + 1])
        BY <3>2, <3>3, ConcatRange
      <3>5. \A i \in 1 .. m + 1 : i \in 1 .. m \/ i = m + 1
        OBVIOUS
      <3> QED
        BY <3>1, <3>4, <3>5
    <2> HIDE DEF Good
    <2> QED
      BY <2>1, <2>2
  <1>4. N \in T
    <2> HIDE DEF T
    <2> QED
      BY <1>0, <1>2, <1>3, UpFromZero
  <1> QED
    BY <1>0, <1>1, <1>4

(* The filter of the report, a report at a time.                           *)
Adds(seen, p) == IF \E i \in DOMAIN seen : Unordered(seen[i]) = Unordered(p) THEN seen ELSE Append(seen, p)

Filtered(reports, set, f) == LET x == Max(set) IN Adds(f[set \ {x}], reports[x])

Filters(reports, f) ==
  f = [set \in SUBSET DOMAIN reports |-> IF set = {} THEN <<>> ELSE Filtered(reports, set, f)]

LEMMA FilterSteps ==
  ASSUME NEW S, NEW reports \in Seq(S)
  PROVE  \E f : Filters(reports, f) /\ filter_unique_pifr_pairs(reports) = f[DOMAIN reports]
  <1> DEFINE N == Len(reports)
             Def(f, m) == f = [set \in SUBSET (1 .. m) |-> IF set = {} THEN <<>> ELSE Filtered(reports, set, f)]
             T == {m \in Nat : \E f : Def(f, m)}
  <1>0. N \in Nat /\ DOMAIN reports = 1 .. N
    OBVIOUS
  <1>1. 0 \in T
    <2>1. PICK g : g = [set \in SUBSET (1 .. 0) |-> <<>>]
      OBVIOUS
    <2>2. \A set \in SUBSET (1 .. 0) : set = {}
      OBVIOUS
    <2>3. Def(g, 0)
      BY <2>1, <2>2
    <2> HIDE DEF Def
    <2> QED
      BY <2>3
  <1>2. ASSUME NEW m \in Nat, m \in T PROVE m + 1 \in T
    <2>1. PICK g : Def(g, m)
      BY <1>2
    <2> DEFINE h == [set \in SUBSET (1 .. m + 1) |-> IF set = {} THEN <<>> ELSE Filtered(reports, set, g)]
    <2>2. ASSUME NEW set \in SUBSET (1 .. m) PROVE g[set] = h[set]
      <3>1. set \in SUBSET (1 .. m + 1)
        OBVIOUS
      <3>2. g[set] = IF set = {} THEN <<>> ELSE Filtered(reports, set, g)
        BY <2>1
      <3>3. h[set] = IF set = {} THEN <<>> ELSE Filtered(reports, set, g)
        BY <3>1
      <3> HIDE DEF h, Def
      <3> QED
        BY <3>2, <3>3
    <2>3. ASSUME NEW set \in SUBSET (1 .. m + 1), set # {}
          PROVE  Filtered(reports, set, g) = Filtered(reports, set, h)
      <3> HIDE DEF h, Def, T
      <3>1. m + 1 \in Nat
        OBVIOUS
      <3>3. PICK x : x = Max(set)
        OBVIOUS
      <3>4. x \in set /\ \A n \in set : n <= x
        BY <2>3, <3>1, <3>3, LastOf
      <3>5. ASSUME NEW n \in set, n # x PROVE n \in 1 .. m
        <4>1. n \in 1 .. m + 1 /\ x \in 1 .. m + 1 /\ n <= x
          BY <3>4, <3>5
        <4> QED
          BY <3>5, <4>1
      <3>2. set \ {Max(set)} \in SUBSET (1 .. m)
        BY <3>3, <3>5
      <3> QED
        BY <2>2, <3>2 DEF Filtered
    <2>4. Def(h, m + 1)
      <3>1. h = [set \in SUBSET (1 .. m + 1) |-> IF set = {} THEN <<>> ELSE Filtered(reports, set, h)]
        <4> DEFINE k == [set \in SUBSET (1 .. m + 1) |-> IF set = {} THEN <<>> ELSE Filtered(reports, set, h)]
        <4>1. ASSUME NEW set \in SUBSET (1 .. m + 1) PROVE h[set] = k[set]
          <5>1. h[set] = IF set = {} THEN <<>> ELSE Filtered(reports, set, g)
            OBVIOUS
          <5>2. k[set] = IF set = {} THEN <<>> ELSE Filtered(reports, set, h)
            OBVIOUS
          <5> HIDE DEF h, k, Def
          <5> QED
            BY <2>3, <5>1, <5>2
        <4>2. h = [set \in SUBSET (1 .. m + 1) |-> h[set]]
          OBVIOUS
        <4>3. k = [set \in SUBSET (1 .. m + 1) |-> k[set]]
          OBVIOUS
        <4> HIDE DEF h, k
        <4>4. [set \in SUBSET (1 .. m + 1) |-> h[set]] = [set \in SUBSET (1 .. m + 1) |-> k[set]]
          BY <4>1
        <4>5. h = k
          BY <4>2, <4>3, <4>4
        <4> QED
          BY <4>5 DEF k
      <3> HIDE DEF h
      <3> QED
        BY <3>1
    <2> HIDE DEF Def, h
    <2> QED
      BY <2>4
  <1>3. N \in T
    <2> HIDE DEF T
    <2> QED
      BY <1>0, <1>1, <1>2, UpFromZero
  <1>4. \E f : Filters(reports, f)
    BY <1>0, <1>3 DEF Filters
  <1>5. Filters(reports, CHOOSE f : Filters(reports, f))
    BY <1>4
  <1>6. filter_unique_pifr_pairs(reports) = (CHOOSE f : Filters(reports, f))[DOMAIN reports]
    BY DEF filter_unique_pifr_pairs, FoldLeft, MapThenFoldSet, Filters, Filtered, Adds
  <1> QED
    BY <1>5, <1>6

(* It keeps one report of each pair of regions, whichever came first.      *)
LEMMA FilterExact ==
  ASSUME NEW S, NEW reports \in Seq(S), NEW out, out = filter_unique_pifr_pairs(reports)
  PROVE  /\ \A i, j \in DOMAIN out : i # j => Unordered(out[i]) # Unordered(out[j])
         /\ \A i \in DOMAIN reports : \E j \in DOMAIN out : Unordered(out[j]) = Unordered(reports[i])
  <1>1. PICK f : Filters(reports, f) /\ filter_unique_pifr_pairs(reports) = f[DOMAIN reports]
    BY FilterSteps
  <1> DEFINE N == Len(reports)
             Once(o)     == \A i, j \in DOMAIN o : i # j => Unordered(o[i]) # Unordered(o[j])
             Has(o, p)   == \E j \in DOMAIN o : Unordered(o[j]) = Unordered(p)
             Good(m)     == f[1 .. m] \in Seq(S) /\ Once(f[1 .. m]) /\ \A i \in 1 .. m : Has(f[1 .. m], reports[i])
             T == {m \in Nat : m <= N => Good(m)}
  <1>0. N \in Nat /\ DOMAIN reports = 1 .. N
    OBVIOUS
  <1>2. 0 \in T
    <2>1. 1 .. 0 = {}
      OBVIOUS
    <2>2. f[1 .. 0] = <<>>
      BY <1>1, <2>1 DEF Filters
    <2>3. <<>> \in Seq(S) /\ DOMAIN <<>> = {}
      OBVIOUS
    <2>4. Once(<<>>)
      BY <2>3
    <2>5. Good(0)
      <3> HIDE DEF Once, Has
      <3> QED
        BY <2>1, <2>2, <2>3, <2>4
    <2> HIDE DEF Good
    <2> QED
      BY <2>5
  <1>3. ASSUME NEW m \in Nat, m \in T PROVE m + 1 \in T
    <2> SUFFICES ASSUME m + 1 <= N PROVE Good(m + 1)
      OBVIOUS
    <2>1. Good(m)
      BY <1>0, <1>3
    <2> DEFINE seen == f[1 .. m]
               p    == reports[m + 1]
    <2>2. f[1 .. m + 1] = Adds(seen, p)
      <3>a. \A n \in 1 .. m + 1 : n \in 1 .. N
        BY <1>0
      <3>b. 1 \in 1 .. m + 1
        OBVIOUS
      <3>1. 1 .. m + 1 \in SUBSET (1 .. N) /\ 1 .. m + 1 # {}
        BY <3>a, <3>b
      <3>2. Max(1 .. m + 1) = m + 1
        <4>1. Max(1 .. m + 1) \in 1 .. m + 1 /\ \A n \in 1 .. m + 1 : n <= Max(1 .. m + 1)
          BY <1>0, <3>1, LastOf
        <4> QED
          BY <4>1
      <3>3. (1 .. m + 1) \ {m + 1} = 1 .. m
        OBVIOUS
      <3> QED
        BY <1>0, <1>1, <3>1, <3>2, <3>3 DEF Filters, Filtered
    <2>3. seen \in Seq(S) /\ p \in S /\ Once(seen) /\ \A i \in 1 .. m : Has(seen, reports[i])
      BY <1>0, <2>1
    <2>4. \A i \in 1 .. m + 1 : i \in 1 .. m \/ i = m + 1
      OBVIOUS
    <2>5. CASE Has(seen, p)
      <3>1. f[1 .. m + 1] = seen
        BY <2>2, <2>5 DEF Adds
      <3> HIDE DEF seen, Once, Has
      <3> QED
        BY <2>3, <2>4, <2>5, <3>1
    <2>6. CASE ~Has(seen, p)
      <3>1. f[1 .. m + 1] = Append(seen, p)
        BY <2>2, <2>6 DEF Adds
      <3> DEFINE o == Append(seen, p)
      <3> HIDE DEF seen, p
      <3>2. /\ o \in Seq(S) /\ Len(seen) \in Nat
            /\ DOMAIN seen = 1 .. Len(seen) /\ DOMAIN o = 1 .. Len(seen) + 1
            /\ \A i \in 1 .. Len(seen) : o[i] = seen[i]
            /\ o[Len(seen) + 1] = p
        BY <2>3
      <3> HIDE DEF o
      <3>3. \A i \in DOMAIN o : i \in DOMAIN seen \/ i = Len(seen) + 1
        BY <3>2
      <3>4. Once(o)
        BY <2>3, <2>6, <3>2, <3>3
      <3>5. \A q : Has(seen, q) => Has(o, q)
        BY <3>2
      <3>6. Has(o, p)
        BY <3>2
      <3> HIDE DEF Once, Has
      <3>7. f[1 .. m + 1] = o
        BY <3>1 DEF o
      <3>8. Has(o, reports[m + 1])
        BY <3>6 DEF p
      <3>9. ASSUME NEW i \in 1 .. m + 1 PROVE Has(o, reports[i])
        <4>1. CASE i \in 1 .. m
          BY <2>3, <3>5, <4>1
        <4>2. CASE i = m + 1
          BY <3>8, <4>2
        <4> QED
          BY <2>4, <4>1, <4>2
      <3> QED
        BY <3>2, <3>4, <3>7, <3>9
    <2> HIDE DEF Good
    <2> QED
      BY <2>5, <2>6
  <1>4. N \in T
    <2> HIDE DEF T
    <2> QED
      BY <1>0, <1>2, <1>3, UpFromZero
  <1>5. Good(N)
    BY <1>0, <1>4
  <1>6. out = f[1 .. N]
    BY <1>0, <1>1
  <1> QED
    BY <1>0, <1>5, <1>6

--------------------------------------------------------------------------
(* What a file of reports has in it, and whose the files are.              *)
Sequenced ==
  /\ races \in Seq(Pairs)
  /\ \A f \in Files : ramdisk[f].records \in Seq(Pairs)
  /\ \A x \in DOMAIN results : results[x].records \in Seq(Pairs)

Begun(by) ==
  /\ by \in Nat \X (Nat \ {0})
  /\ by[1] <= invocation
  /\ by[1] = invocation /\ pc # "idle" => by[2] <= index

InTime ==
  /\ \A f \in Files : Exists(ramdisk[f]) => Begun(ramdisk[f].by)
  /\ \A x \in DOMAIN results : Exists(results[x]) => Begun(results[x].by)
  /\ \A x \in DOMAIN results : Exists(results[x]) /\ results[x].by = Self => pc = "bin" /\ x[1] = "txt"

(* The reports of an experiment that ended by itself are whole wherever    *)
(* its name is in the results.                                             *)
Whole(h) ==
  /\ h.by[2] \in 1 .. Len(config.experiments)
  /\ h.report = 2 /\ h.by[1] \notin failed /\ results[<<"bin", h.by[2]>>].by = h.by =>
       results[<<"bin", h.by[2]>>] = Home(h)

AllWhole == \A h \in Range(history) : Whole(h)

LEMMA InitReported == Init => Sequenced /\ InTime /\ AllWhole
  <1> SUFFICES ASSUME Init PROVE Sequenced /\ InTime /\ AllWhole
    OBVIOUS
  <1>1. <<>> \in Seq(Pairs) /\ NoFile.records = <<>> /\ ~Exists(NoFile)
    BY NewFiles DEF NoFile, File
  <1>2. history = <<>> /\ Range(<<>>) = {}
    BY DEF Init, Range
  <1> QED
    BY <1>1, <1>2 DEF Init, Sequenced, InTime, AllWhole

(* What is written, copied or moved has reports in it as before.           *)
LEMMA WrittenSequence ==
  ASSUME Orderly, Sequenced, NEW f \in Files, NEW n \in 0 .. Len(races), NEW torn
  PROVE  Written(f, n, torn).records \in Seq(Pairs)
  <1>1. SubSeq(races, 1, n) \in Seq(Pairs)
    <2>1. \A i \in 1 .. n : i \in 1 .. Len(races)
      BY DEF Sequenced
    <2> QED
      BY <2>1 DEF Sequenced
  <1> QED
    BY <1>1 DEF Sequenced, Written, File

LEMMA LostSequences ==
  ASSUME Orderly, Sequenced, BuffersLost
  PROVE  \A f \in Files : ramdisk'[f].records \in Seq(Pairs)
  <1>1. PICK n \in [Files -> 0 .. Len(races)], torn \in BOOLEAN :
          ramdisk' = [f \in Files |-> Written(f, n[f], f = "bin" /\ torn)]
    BY DEF BuffersLost
  <1>2. ASSUME NEW f \in Files PROVE ramdisk'[f].records \in Seq(Pairs)
    <2>1. n[f] \in 0 .. Len(races) /\ ramdisk'[f] = Written(f, n[f], f = "bin" /\ torn)
      BY <1>1
    <2> QED
      BY <2>1, WrittenSequence
  <1> QED
    BY <1>2

LEMMA NextSequenced == Orderly /\ Sequenced /\ [Run \/ Program]_vars => Sequenced'
  <1> SUFFICES ASSUME Orderly, Sequenced, [Run \/ Program]_vars PROVE Sequenced'
    OBVIOUS
  <1>0. <<>> \in Seq(Pairs)
    OBVIOUS
  <1>1. CASE UNCHANGED <<races, ramdisk, results>>
    BY <1>1 DEF Sequenced
  <1>2. CASE TimedOut \/ Crash
    BY <1>2, LostSequences DEF TimedOut, Crash, Sequenced
  <1>3. CASE WriteOutput
    BY <1>0, <1>3 DEF WriteOutput, Sequenced
  <1>4. CASE Fail
    <2>1. DOMAIN results' = DOMAIN results
      BY <1>4 DEF Fail
    <2>2. ASSUME NEW x \in DOMAIN results PROVE results'[x].records \in Seq(Pairs)
      <3>1. CASE results'[x] = results[x]
        BY <3>1 DEF Sequenced
      <3>2. CASE results'[x] # results[x]
        <4>1. \E torn : results'[x] = File(ramdisk[pc].by, ramdisk[pc].records, torn)
          BY <1>4, <3>2 DEF Fail
        <4>2. results'[x].records = ramdisk[pc].records
          BY <4>1 DEF File
        <4> QED
          BY <1>4, <4>2 DEF Fail, Sequenced
      <3> QED
        BY <3>1, <3>2
    <2> QED
      BY <1>4, <2>1, <2>2 DEF Fail, Sequenced
  <1>5. ASSUME NEW f \in Files, move_file(f), races' = races
        PROVE  Sequenced'
    <2>1. NoFile.records = <<>>
      BY DEF NoFile, File
    <2>2. \A g \in Files : ramdisk'[g] = ramdisk[g] \/ ramdisk'[g] = NoFile
      BY <1>5 DEF move_file, Orderly
    <2>3. DOMAIN results' = DOMAIN results /\ \A x \in DOMAIN results : results'[x] = results[x] \/ results'[x] = ramdisk[f]
      BY <1>5 DEF move_file
    <2> QED
      BY <1>0, <1>5, <2>1, <2>2, <2>3 DEF Sequenced
  <1>6. CASE MoveText \/ MoveBinary
    <2>1. "txt" \in Files /\ "bin" \in Files
      BY DEF Files
    <2> QED
      BY <1>5, <1>6, <2>1 DEF MoveText, MoveBinary
  <1>7. CASE init
    <2>1. \A f \in Files : ramdisk'[f] = File(Self, <<>>, FALSE) \/ ramdisk'[f] = ramdisk[f]
      BY <1>7 DEF init
    <2>2. File(Self, <<>>, FALSE).records = <<>>
      BY DEF File
    <2> QED
      BY <1>0, <1>7, <2>1, <2>2 DEF init, Sequenced
  <1>8. CASE fini
    <2>1. Len(races) \in 0 .. Len(races)
      BY DEF Sequenced
    <2>2. \A f \in Files : ramdisk'[f] = Written(f, Len(races), FALSE)
      BY <1>8 DEF fini
    <2> QED
      BY <1>8, <2>1, <2>2, WrittenSequence DEF fini, Sequenced
  <1>9. ASSUME NEW p \in Pairs, bug(p) PROVE Sequenced'
    <2>1. Append(races, p) \in Seq(Pairs)
      BY DEF Sequenced
    <2> QED
      BY <1>9, <2>1 DEF bug, Sequenced
  <1> QED
    BY <1>1, <1>2, <1>3, <1>4, <1>6, <1>7, <1>8, <1>9
       DEF Run, Program, execute_run, Spawn, Exited, AbortAtStart, PrintLine, vars

--------------------------------------------------------------------------
(* Steps of one experiment before its files are moved.                     *)
LEMMA InTimeStays ==
  ASSUME InTime, UNCHANGED <<invocation, index, results>>,
         \A f \in Files : ramdisk'[f].by = ramdisk[f].by,
         pc' = pc \/ (pc # "idle" /\ pc' # "idle" /\ pc # "bin")
  PROVE  InTime'
  <1>1. Self' = Self
    BY DEF Self
  <1>2. \A by : Begun(by) => Begun(by)'
    BY DEF Begun
  <1> QED
    BY <1>1, <1>2 DEF InTime, Exists

LEMMA NextInTime == Orderly /\ InTime /\ [Run \/ Program]_vars => InTime'
  <1> SUFFICES ASSUME Orderly, InTime, [Run \/ Program]_vars PROVE InTime'
    OBVIOUS
  <1>0. /\ Len(config.experiments) \in Nat \ {0} /\ invocation \in Nat
        /\ index \in 0 .. Len(config.experiments)
    BY ExperimentsAssumption DEF Orderly
  <1>1. CASE execute_run
    <2>1. ASSUME NEW by, Begun(by) PROVE Begun(by)' /\ by # Self'
      BY <1>0, <1>1, <2>1 DEF execute_run, Begun, Self
    <2> QED
      BY <1>1, <2>1 DEF execute_run, InTime, Exists
  <1>2. CASE Spawn
    BY <1>2, InTimeStays DEF Spawn
  <1>3. CASE Exited
    BY <1>3, InTimeStays DEF Exited
  <1>4. CASE TimedOut
    BY <1>4, LostFiles, InTimeStays DEF TimedOut
  <1>5. CASE WriteOutput
    BY <1>5, InTimeStays DEF WriteOutput
  <1>6. CASE Fail
    <2>1. pc # "idle" /\ pc' = "idle" /\ invocation' = invocation /\ Self' = <<invocation, 0>>
      BY <1>6 DEF Fail, Files, Self
    <2>2. ASSUME NEW by, Begun(by) PROVE Begun(by)' /\ by # Self'
      BY <2>1, <2>2 DEF Begun
    <2>3. DOMAIN results' = DOMAIN results
      BY <1>6 DEF Fail
    <2>4. ASSUME NEW x \in DOMAIN results, Exists(results'[x]) PROVE Begun(results'[x].by)
      <3>1. CASE results'[x] = results[x]
        BY <2>4, <3>1 DEF InTime
      <3>2. CASE results'[x] # results[x]
        <4>1. Exists(ramdisk[pc]) /\ \E torn : results'[x] = File(ramdisk[pc].by, ramdisk[pc].records, torn)
          BY <1>6, <3>2 DEF Fail
        <4>2. results'[x].by = ramdisk[pc].by
          BY <4>1, FileFields
        <4> QED
          BY <1>6, <4>1, <4>2 DEF Fail, InTime
      <3> QED
        BY <3>1, <3>2
    <2>5. ramdisk' = ramdisk
      BY <1>6 DEF Fail
    <2> QED
      BY <2>2, <2>3, <2>4, <2>5 DEF InTime, Exists
  <1>7. ASSUME NEW f \in Files, move_file(f)
        PROVE  /\ \A g \in Files : Exists(ramdisk'[g]) => Begun(ramdisk'[g].by)
               /\ DOMAIN results' = DOMAIN results
               /\ \A x \in DOMAIN results : Exists(results'[x]) => Begun(results'[x].by)
               /\ \A x \in DOMAIN results : x # <<f, index>> => results'[x] = results[x]
    <2>1. \A g \in Files : ramdisk'[g] = ramdisk[g] \/ ramdisk'[g] = NoFile
      BY <1>7 DEF move_file, Orderly
    <2>2. DOMAIN results' = DOMAIN results /\ \A x \in DOMAIN results : results'[x] = results[x] \/ results'[x] = ramdisk[f]
      BY <1>7 DEF move_file
    <2>3. \A x \in DOMAIN results : x # <<f, index>> => results'[x] = results[x]
      BY <1>7 DEF move_file
    <2> QED
      BY <1>7, <2>1, <2>2, <2>3, NewFiles DEF InTime
  <1>8. CASE MoveText
    <2>1. "txt" \in Files /\ pc' = "bin" /\ pc = "txt" /\ UNCHANGED <<invocation, index>> /\ Self' = Self /\ move_file("txt")
      BY <1>8 DEF MoveText, move_file, Files, Self
    <2>2. \A by : Begun(by) => Begun(by)'
      BY <2>1 DEF Begun
    <2>3. ASSUME NEW x \in DOMAIN results, Exists(results'[x]), results'[x].by = Self PROVE x[1] = "txt"
      <3>1. CASE x = <<"txt", index>>
        BY <3>1
      <3>2. CASE x # <<"txt", index>>
        BY <1>7, <2>1, <2>3, <3>2 DEF InTime
      <3> QED
        BY <3>1, <3>2
    <2> QED
      BY <1>7, <2>1, <2>2, <2>3 DEF InTime, Exists
  <1>9. CASE MoveBinary
    <2>1. /\ "bin" \in Files /\ pc = "bin" /\ invocation' = invocation /\ move_file("bin")
          /\ index \in Nat \ {0}
          /\ (index' = index + 1 /\ pc' = "spawn") \/ (index' = 0 /\ pc' = "idle")
      BY <1>0, <1>9 DEF MoveBinary, move_file, Files, Orderly
    <2>2. ASSUME NEW by, Begun(by) PROVE Begun(by)' /\ by # Self'
      BY <2>1, <2>2 DEF Begun, Self
    <2> QED
      BY <1>7, <2>1, <2>2 DEF InTime, Exists
  <1>10. CASE init
    <2>1. pc = "poll" /\ UNCHANGED <<invocation, index, pc, results>> /\ Self' = Self
      BY <1>10 DEF init, Orderly, Self
    <2>2. Begun(Self)
      BY <1>0, <2>1 DEF Begun, Self, Orderly
    <2>3. \A f \in Files : ramdisk'[f] = File(Self, <<>>, FALSE) \/ ramdisk'[f] = ramdisk[f]
      BY <1>10 DEF init
    <2>4. File(Self, <<>>, FALSE).by = Self
      BY FileFields
    <2>5. \A by : Begun(by) => Begun(by)'
      BY <2>1 DEF Begun
    <2> QED
      BY <2>1, <2>2, <2>3, <2>4, <2>5 DEF InTime, Exists
  <1>11. CASE AbortAtStart
    BY <1>11, InTimeStays DEF AbortAtStart
  <1>12. CASE PrintLine
    BY <1>12, InTimeStays DEF PrintLine
  <1>13. CASE Crash
    BY <1>13, LostFiles, InTimeStays DEF Crash
  <1>14. CASE fini
    <2>1. \A f \in Files : ramdisk'[f] = Written(f, Len(races), FALSE)
      BY <1>14 DEF fini
    <2> QED
      BY <1>14, <2>1, WrittenFile, InTimeStays DEF fini
  <1>15. ASSUME NEW p \in Pairs, bug(p) PROVE InTime'
    BY <1>15, InTimeStays DEF bug
  <1>16. CASE UNCHANGED vars
    BY <1>16, InTimeStays DEF vars
  <1> QED
    BY <1>1, <1>2, <1>3, <1>4, <1>5, <1>6, <1>8, <1>9, <1>10, <1>11, <1>12, <1>13, <1>14, <1>15, <1>16
       DEF Run, Program

--------------------------------------------------------------------------
(* The reports of an experiment are whole when they reach the results:     *)
(* what the RAM disk has under its name is what its destructor wrote, and  *)
(* what is under the name of another experiment is of one that failed.     *)
LEMMA NextWhole ==
  Orderly /\ Attributed /\ Collected /\ InTime /\ AllWhole /\ [Run \/ Program]_vars => AllWhole'
  <1> SUFFICES ASSUME Orderly, Attributed, Collected, InTime, AllWhole, [Run \/ Program]_vars PROVE AllWhole'
    OBVIOUS
  <1>0. /\ Len(config.experiments) \in Nat \ {0} /\ config' = config
        /\ index \in 0 .. Len(config.experiments)
    BY ExperimentsAssumption
       DEF Orderly, Run, Program, execute_run, Spawn, Exited, TimedOut, WriteOutput, Fail, MoveText, MoveBinary,
           init, AbortAtStart, PrintLine, Crash, fini, bug, vars
  <1>1. CASE UNCHANGED <<history, failed, results>>
    BY <1>0, <1>1 DEF AllWhole, Whole, Home
  <1>2. CASE Fail
    <2>1. pc \in Files /\ failed' = failed \cup {invocation} /\ history' = history
      BY <1>2 DEF Fail
    <2> SUFFICES ASSUME NEW h \in Range(history), h.report = 2, h.by[1] \notin failed',
                        results'[<<"bin", h.by[2]>>].by = h.by
                 PROVE  results'[<<"bin", h.by[2]>>] = Home(h)
      BY <1>0, <2>1 DEF AllWhole, Whole, Home
    <2> DEFINE x == <<"bin", h.by[2]>>
    <2>2. CASE results'[x] = results[x]
      BY <2>1, <2>2 DEF AllWhole, Whole
    <2>3. CASE results'[x] # results[x]
      <3>a. h.by[2] \in 1 .. Len(config.experiments)
        BY <2>1 DEF AllWhole, Whole
      <3>b. x \in DOMAIN results
        BY <3>a DEF Orderly, Files
      <3>1. Exists(ramdisk[pc]) /\ \E torn : results'[x] = File(ramdisk[pc].by, ramdisk[pc].records, torn)
        BY <1>2, <2>3, <3>b DEF Fail
      <3>2. results'[x].by = ramdisk[pc].by
        BY <3>1, FileFields
      <3>3. ramdisk[pc].by = Self \/ ramdisk[pc].by[1] \in failed
        BY <2>1, <3>1 DEF Attributed, OnDisk
      <3>4. h.by[1] = invocation \/ h.by[1] \in failed
        BY <3>2, <3>3 DEF Self
      <3> QED
        BY <2>1, <3>4
    <2> QED
      BY <2>2, <2>3
  <1>3. CASE MoveText
    <2>1. "txt" \in Files /\ move_file("txt") /\ UNCHANGED <<failed, history>>
      BY <1>3 DEF MoveText, Files
    <2>2. ASSUME NEW h \in Range(history) PROVE results'[<<"bin", h.by[2]>>] = results[<<"bin", h.by[2]>>]
      <3>1. h.by[2] \in 1 .. Len(config.experiments)
        BY DEF AllWhole, Whole
      <3>2. <<"bin", h.by[2]>> \in DOMAIN results /\ <<"bin", h.by[2]>> # <<"txt", index>>
        BY <3>1 DEF Orderly, Files
      <3> QED
        BY <2>1, <3>2, MovedFile
    <2> QED
      BY <1>0, <2>1, <2>2 DEF AllWhole, Whole, Home
  <1>4. CASE MoveBinary
    <2>1. "bin" \in Files /\ move_file("bin") /\ pc = "bin" /\ UNCHANGED <<failed, history>>
      BY <1>4 DEF MoveBinary, move_file, Files
    <2> SUFFICES ASSUME NEW h \in Range(history), h.report = 2, h.by[1] \notin failed,
                        results'[<<"bin", h.by[2]>>].by = h.by
                 PROVE  results'[<<"bin", h.by[2]>>] = Home(h)
      BY <1>0, <2>1 DEF AllWhole, Whole, Home
    <2> DEFINE x == <<"bin", h.by[2]>>
    <2>2. h.by[2] \in 1 .. Len(config.experiments) /\ x \in DOMAIN results
      BY <2>1 DEF AllWhole, Whole, Orderly
    <2>3. CASE results'[x] = results[x]
      BY <2>1, <2>3 DEF AllWhole, Whole
    <2>4. CASE results'[x] # results[x]
      <3>1. x = <<"bin", index>> /\ Exists(ramdisk["bin"]) /\ results'[x] = ramdisk["bin"]
        BY <2>1, <2>2, <2>4 DEF move_file
      <3>2. ramdisk["bin"].by = Self
        BY <2>1, <3>1 DEF Attributed, OnDisk
      <3>3. h.by = Self /\ Current(h)
        BY <3>1, <3>2 DEF Collected, Accounted
      <3>4. Wanted(h.report, "bin")
        BY DEF Wanted
      <3> QED
        BY <2>1, <3>1, <3>3, <3>4 DEF Current
    <2> QED
      BY <2>3, <2>4
  <1>5. CASE fini
    <2>1. pc = "poll" /\ UNCHANGED <<failed, results>>
      BY <1>5 DEF fini, Orderly
    <2>2. PICK e : e = [by |-> Self, report |-> settings.report, races |-> races]
      OBVIOUS
    <2>3. Range(history') = Range(history) \cup {e}
      BY <1>5, <2>2, AppendSequence DEF fini, Collected
    <2>4. e.by = Self /\ e.by[2] = index /\ index \in 1 .. Len(config.experiments)
      BY <1>0, <2>1, <2>2 DEF Self, Orderly
    <2>5. <<"bin", index>> \in DOMAIN results /\ Self # <<0, 0>>
      BY <2>4 DEF Orderly, Files, Self
    <2>6. results[<<"bin", index>>].by # Self
      BY <2>1, <2>5 DEF InTime, Exists
    <2>7. \A h \in Range(history) : Whole(h)'
      BY <1>0, <2>1 DEF AllWhole, Whole, Home
    <2>8. Whole(e)'
      BY <1>0, <2>1, <2>4, <2>6 DEF Whole
    <2> QED
      BY <2>3, <2>7, <2>8 DEF AllWhole
  <1> QED
    BY <1>1, <1>2, <1>3, <1>4, <1>5
       DEF Run, Program, execute_run, Spawn, Exited, TimedOut, WriteOutput,
           init, AbortAtStart, PrintLine, Crash, bug, vars

(* The report reads every file of the experiments, and its filter drops a  *)
(* race only for another one with its regions.                             *)
LEMMA WholeIsRacesReported == Orderly /\ Sequenced /\ AllWhole => RacesReported
  <1> SUFFICES ASSUME Orderly, Sequenced, AllWhole PROVE RacesReported
    OBVIOUS
  <1> DEFINE N     == Len(config.experiments)
             Of(i) == parse_bug_reports(results[<<"bin", i>>])
             seqs  == [i \in DOMAIN config.experiments |-> Of(i)]
             flat  == FlattenSeq(seqs)
  <1>1. N \in Nat \ {0} /\ DOMAIN config.experiments = 1 .. N
    BY ExperimentsAssumption DEF Orderly
  <1>2. ASSUME NEW i \in 1 .. N PROVE Of(i) \in Seq(Pairs)
    <2>1. <<"bin", i>> \in DOMAIN results
      BY DEF Orderly, Files
    <2> QED
      BY <2>1 DEF Sequenced, parse_bug_reports
  <1>3. seqs \in Seq(Seq(Pairs)) /\ Len(seqs) = N /\ seqs # <<>> /\ \A i \in 1 .. N : seqs[i] = Of(i)
    <2> HIDE DEF Of
    <2>1. seqs = [i \in 1 .. N |-> Of(i)]
      BY <1>1
    <2>2. seqs \in [1 .. N -> Seq(Pairs)]
      BY <1>2, <2>1
    <2>3. seqs \in Seq(Seq(Pairs)) /\ Len(seqs) = N
      BY <1>1, <2>2
    <2> QED
      BY <1>1, <2>1, <2>3
  <1> HIDE DEF seqs
  <1>4. flat \in Seq(Pairs) /\ \A i \in 1 .. N : Range(Of(i)) \subseteq Range(flat)
    BY <1>3, FlattenExact
  <1>5. PICK report : report = execute_report
    OBVIOUS
  <1>6. report = filter_unique_pifr_pairs(flat)
    BY <1>5 DEF execute_report, seqs
  <1> HIDE DEF flat
  <1>7. /\ \A i, j \in DOMAIN report : i # j => Unordered(report[i]) # Unordered(report[j])
        /\ \A i \in DOMAIN flat : \E j \in DOMAIN report : Unordered(report[j]) = Unordered(flat[i])
    BY <1>4, <1>6, FilterExact
  <1>8. ASSUME NEW h \in Range(history), h.report = 2, h.by[1] \notin failed,
               results[<<"bin", h.by[2]>>].by = h.by, NEW i \in DOMAIN h.races
        PROVE  \E j \in DOMAIN report : Unordered(report[j]) = Unordered(h.races[i])
    <2>1. h.by[2] \in 1 .. N /\ results[<<"bin", h.by[2]>>] = Home(h)
      BY <1>8 DEF AllWhole, Whole
    <2>2. Of(h.by[2]) = h.races
      BY <2>1 DEF parse_bug_reports, Home, File
    <2>3. h.races[i] \in Range(flat)
      BY <1>4, <2>1, <2>2 DEF Range
    <2>4. PICK k \in DOMAIN flat : flat[k] = h.races[i]
      BY <2>3 DEF Range
    <2> QED
      BY <1>7, <2>4
  <1> QED
    BY <1>5, <1>7, <1>8 DEF RacesReported

(* However many experiments and races there are, the report has each pair  *)
(* of regions once, and every race of each program that ended by itself    *)
(* with full reports, unless an error ended the invocation: the filter of  *)
(* report.rs and the copies of run.rs lose none.                           *)
THEOREM RacesAlwaysReported == Spec => []RacesReported
  <1> DEFINE All == Orderly /\ Attributed /\ Collected /\ Sequenced /\ InTime /\ AllWhole
  <1>1. Init => All
    BY InitOrderly, InitAttributed, InitCollected, InitReported
  <1>2. All /\ [Run \/ Program]_vars => All'
    BY NextOrderly, NextAttributed, NextCollected, NextSequenced, NextInTime, NextWhole
  <1>3. All => RacesReported
    BY WholeIsRacesReported
  <1> HIDE DEF All
  <1> QED
    BY <1>1, <1>2, <1>3, PTL DEF Spec
=============================================================================
