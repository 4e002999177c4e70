------------------------------ MODULE Vardalith ------------------------------
(***************************************************************************)
(* The run and report commands of vardalith: experiments run one after     *)
(* another, each a patched program with the race runtime loaded, under a   *)
(* timeout or not.  The runtime writes its reports into files of fixed     *)
(* names on the RAM disk, which run moves into the results directory.      *)
(* File names are kinds of files; an experiment is named by its index.     *)
(***************************************************************************)
EXTENDS Integers, Sequences, FiniteSets, SequencesExt

CONSTANTS Configs,          \* configuration files: [base, run, experiments]
          Pairs,            \* pairs of region ids a program may report
          PipeSize,         \* lines of output a pipe holds
          MaxRaces,         \* bound on the reports of an experiment
          MaxInvocations    \* bound on the number of times run is called

\* When a configuration lists no experiment, run makes one of defaults.
ASSUME ExperimentsAssumption ==
  \A c \in Configs : Len(c.experiments) \in Nat \ {0} /\ DOMAIN c.experiments = 1..Len(c.experiments)

Unset == -1         \* None
Files == {"txt", "bin"}     \* bugs.txt and bugs.bin

VARIABLES
  pc,           \* what execute_run does next
  config,       \* the configuration of the invocation
  invocation,   \* its number
  index,        \* the experiment
  failed,       \* invocations that returned an error
  child,        \* the program: "none", "starting", "running", "exited", "killed"
  settings,     \* what its runtime read from the environment
  races,        \* the reports it made, in its stdio buffers until it ends
  pipe,         \* lines of output nobody has read
  ramdisk,      \* the files on the RAM disk
  results,      \* <<file, index>> -> what run put there last
  history       \* experiments that ended by themselves -> their reports

vars == <<pc, config, invocation, index, failed, child, settings, races, pipe, ramdisk, results, history>>

File(by, records, torn) == [by |-> by, records |-> records, torn |-> torn]
NoFile       == File(<<0, 0>>, <<>>, FALSE)
Exists(file) == file.by # <<0, 0>>
Self         == <<invocation, index>>
Or(a, b)     == IF a # Unset THEN a ELSE b

--------------------------------------------------------------------------
(* Settings: those of the experiment, or else of the section [run].        *)

effective_config(c, i) == [key \in DOMAIN c.run |-> Or(c.experiments[i][key], c.run[key])]

timeout_seconds(c, i) == Or(effective_config(c, i).timeout_seconds, c.base.timeout_seconds)

environment(c, i) ==
  LET e == effective_config(c, i)
  IN  [name \in {"PIFR_REPORT" : x \in {e.report_type} \ {Unset}} |-> e.report_type]

\* What the constructor of the runtime reads.
GETENV_OR_DEFAULT(env, name, default) == IF name \in DOMAIN env THEN env[name] ELSE default

RuntimeSettings(env) == [report |-> GETENV_OR_DEFAULT(env, "PIFR_REPORT", 1)]

NoSettings == RuntimeSettings(<<>>)

--------------------------------------------------------------------------
Init ==
  /\ pc = "idle" /\ config \in Configs /\ invocation = 0 /\ index = 0 /\ failed = {}
  /\ child = "none" /\ settings = NoSettings /\ races = <<>> /\ pipe = 0
  /\ ramdisk = [f \in Files |-> NoFile]
  /\ results = [x \in Files \X (1..Len(config.experiments)) |-> NoFile]
  /\ history = <<>>

execute_run ==
  /\ pc = "idle" /\ invocation < MaxInvocations
  /\ invocation' = invocation + 1 /\ index' = 1 /\ pc' = "spawn"
  /\ UNCHANGED <<config, failed, child, settings, races, pipe, ramdisk, results, history>>

Spawn ==
  /\ pc = "spawn"
  /\ child' = "starting"
  /\ pc' = "poll"
  /\ UNCHANGED <<config, invocation, index, failed, settings, races, pipe, ramdisk, results, history>>

Exited ==
  /\ pc = "poll" /\ child = "exited"
  /\ pc' = "collect"
  /\ UNCHANGED <<config, invocation, index, failed, child, settings, races, pipe, ramdisk, results, history>>

\* Mutant: the program is waited for, but not killed.
TimedOut_NoKill ==
  /\ pc = "poll" /\ child # "exited" /\ timeout_seconds(config, index) # Unset
  /\ pc' = "collect"
  /\ UNCHANGED <<config, invocation, index, failed, child, settings, races, pipe, ramdisk, results, history>>

\* What is in a file of this run once the first n reports, or a piece of the next, got there.
Written(f, n, torn) == IF ramdisk[f].by = Self THEN File(Self, SubSeq(races, 1, n), torn) ELSE ramdisk[f]

\* Without the destructor: of the reports, the stdio buffers that were full got
\* into the files, wherever that falls in a record.
BuffersLost ==
  \E n \in [Files -> 0..Len(races)], torn \in BOOLEAN :
    /\ torn => n["bin"] < Len(races)
    /\ ramdisk' = [f \in Files |-> Written(f, n[f], f = "bin" /\ torn)]

TimedOut ==
  /\ pc = "poll" /\ child # "exited" /\ timeout_seconds(config, index) # Unset
  /\ BuffersLost                       \* SIGKILL
  /\ child' = "killed"
  /\ pc' = "collect"
  /\ UNCHANGED <<config, invocation, index, failed, settings, races, pipe, results, history>>

\* wait_with_output, and the file with the output.
WriteOutput ==
  /\ pc = "collect" /\ child \in {"exited", "killed"}
  /\ child' = "none" /\ settings' = NoSettings /\ races' = <<>> /\ pipe' = 0
  /\ pc' = "txt"
  /\ UNCHANGED <<config, invocation, index, failed, ramdisk, results, history>>

\* Any error after the program has run ends the invocation, the ones of a copy,
\* made in full or in part but not removed, included.
Fail ==
  /\ pc \in Files
  /\ \/ UNCHANGED results
     \/ /\ Exists(ramdisk[pc])
        /\ \E torn \in {ramdisk[pc].torn, TRUE} :
             results' = [results EXCEPT ![<<pc, index>>] = File(ramdisk[pc].by, ramdisk[pc].records, torn)]
  /\ failed' = failed \cup {invocation}
  /\ pc' = "idle" /\ index' = 0
  /\ UNCHANGED <<config, invocation, child, settings, races, pipe, ramdisk, history>>

\* Mutant: the file is copied only.
move_file_Copy(f) ==
  /\ pc = f
  /\ results' = IF Exists(ramdisk[f]) THEN [results EXCEPT ![<<f, index>>] = ramdisk[f]] ELSE results
  /\ UNCHANGED ramdisk

\* Mutant: the name of the destination does not have the number of the experiment.
move_file_SameName(f) ==
  /\ pc = f
  /\ results' = IF Exists(ramdisk[f]) THEN [results EXCEPT ![<<f, 1>>] = ramdisk[f]] ELSE results
  /\ ramdisk' = [ramdisk EXCEPT ![f] = NoFile]

\* The file of this name, if there is one, whoever wrote it.
move_file(f) ==
  /\ pc = f
  /\ results' = IF Exists(ramdisk[f]) THEN [results EXCEPT ![<<f, index>>] = ramdisk[f]] ELSE results
  /\ ramdisk' = [ramdisk EXCEPT ![f] = NoFile]

MoveText ==
  /\ move_file("txt")
  /\ pc' = "bin"
  /\ UNCHANGED <<config, invocation, index, failed, child, settings, races, pipe, history>>

MoveBinary ==
  /\ move_file("bin")
  /\ \/ index < Len(config.experiments) /\ index' = index + 1 /\ pc' = "spawn"
     \/ index = Len(config.experiments) /\ index' = 0 /\ pc' = "idle"
  /\ UNCHANGED <<config, invocation, failed, child, settings, races, pipe, history>>

--------------------------------------------------------------------------
(* The program and its runtime. *)

\* With no timeout the output is read as it comes; wait_with_output reads what is left.
Room == timeout_seconds(config, index) = Unset \/ pc = "collect" \/ pipe < PipeSize
Say  == Room /\ pipe' = IF timeout_seconds(config, index) = Unset \/ pc = "collect" THEN 0 ELSE pipe + 1

init ==
  /\ child = "starting"
  /\ settings' = RuntimeSettings(environment(config, index))
  /\ ramdisk' = [f \in Files |-> IF settings'.report >= (IF f = "txt" THEN 1 ELSE 2) THEN File(Self, <<>>, FALSE) ELSE ramdisk[f]]
  /\ child' = "running"
  /\ UNCHANGED <<pc, config, invocation, index, failed, races, pipe, results, history>>

\* No /tmp/environ, or it dies before the runtime is loaded.
AbortAtStart ==
  /\ child = "starting"
  /\ child' = "exited"
  /\ UNCHANGED <<pc, config, invocation, index, failed, settings, races, pipe, ramdisk, results, history>>

\* It aborts, or accesses memory it may not.
Crash ==
  /\ child = "running"
  /\ BuffersLost
  /\ child' = "exited"
  /\ UNCHANGED <<pc, config, invocation, index, failed, settings, races, pipe, results, history>>

bug(p) ==
  /\ child = "running" /\ settings.report > 0 /\ Len(races) < MaxRaces
  /\ races' = Append(races, p)
  /\ UNCHANGED <<pc, config, invocation, index, failed, child, settings, pipe, ramdisk, results, history>>

PrintLine ==
  /\ child = "running" /\ Say
  /\ UNCHANGED <<pc, config, invocation, index, failed, child, settings, races, ramdisk, results, history>>

\* The destructor closes the files and prints statistics.
fini ==
  /\ child = "running" /\ Say
  /\ ramdisk' = [f \in Files |-> Written(f, Len(races), FALSE)]
  /\ child' = "exited"
  /\ history' = Append(history, [by |-> Self, report |-> settings.report, races |-> races])
  /\ UNCHANGED <<pc, config, invocation, index, failed, settings, races, results>>

Program == init \/ AbortAtStart \/ PrintLine \/ Crash \/ fini \/ (\E p \in Pairs : bug(p))

Run == execute_run \/ Spawn \/ Exited \/ TimedOut \/ WriteOutput \/ Fail \/ MoveText \/ MoveBinary

\* An invocation goes on until it has to wait for its program, and the timeout passes.
Spec == Init /\ [][Run \/ Program]_vars /\ WF_vars(pc # "idle" /\ Run)

--------------------------------------------------------------------------
(* The report command, on the bugs of the results directory. *)

\* A file that ends within a record is an error, and gives nothing.
parse_bug_reports(file) == IF file.torn THEN <<>> ELSE file.records

Unordered(p) == {p[1], p[2]}

\* Mutant: reports are told apart by their first region.
filter_unique_pifr_pairs_First(reports) ==
  FoldLeft(LAMBDA seen, p : IF \E i \in DOMAIN seen : seen[i][1] = p[1] THEN seen ELSE Append(seen, p), <<>>, reports)

filter_unique_pifr_pairs(reports) ==
  FoldLeft(LAMBDA seen, p : IF \E i \in DOMAIN seen : Unordered(seen[i]) = Unordered(p) THEN seen ELSE Append(seen, p), <<>>, reports)

execute_report ==
  filter_unique_pifr_pairs(FlattenSeq([i \in DOMAIN config.experiments |-> parse_bug_reports(results[<<"bin", i>>])]))

--------------------------------------------------------------------------
(* What the results directory holds under the name of an experiment was    *)
(* written by that experiment: never by another one, except that what an   *)
(* invocation that failed left on the RAM disk goes to the first           *)
(* experiment that writes no file of its own (run.rs:336).                 *)
BugsAttributed ==
  \A x \in DOMAIN results :
    Exists(results[x]) => results[x].by[2] = x[2] \/ results[x].by[1] \in failed

(* Every race of a program that ended by itself with full reports is in    *)
(* the report, its pair of regions once, from the end of its experiment    *)
(* until the experiment is run again, unless run failed (report.rs:185).   *)
RacesReported ==
  LET report == execute_report
  IN  /\ \A i, j \in DOMAIN report : i # j => Unordered(report[i]) # Unordered(report[j])
      /\ \A h \in Range(history) :
           /\ h.report = 2 /\ h.by[1] \notin failed
           /\ results[<<"bin", h.by[2]>>].by = h.by
           => \A i \in DOMAIN h.races : \E j \in DOMAIN report : Unordered(report[j]) = Unordered(h.races[i])

(* The files of an experiment that ended by itself are in the results when *)
(* the next one begins, unless run returned an error (run.rs:336-350).     *)
FilesCollected ==
  \A h \in Range(history) :
    h.by # Self /\ h.by[1] = invocation /\ h.by[1] \notin failed =>
      \A f \in Files : h.report >= (IF f = "txt" THEN 1 ELSE 2) => results[<<f, h.by[2]>>] = File(h.by, h.races, FALSE)

(* With timeouts, an invocation ends whatever its programs do: run for     *)
(* ever, or fill the pipe that nobody reads before they end (run.rs:124).  *)
InvocationsEnd == (pc # "idle" /\ \A i \in DOMAIN config.experiments : timeout_seconds(config, i) # Unset) ~> (pc = "idle")
=============================================================================
