---------------------------- MODULE CommandLine ----------------------------
(***************************************************************************)
(* The command line (subconverter-cli/src/main.rs), and how it and the     *)
(* Worker (WorkerIo::load_settings) read the pref file.  With a target it  *)
(* converts once; without one it makes a request of the core for every     *)
(* target it knows, one after the other, and stops at the first that fails.*)
(* Nothing is kept between the requests: each fetches the subscription.    *)
(***************************************************************************)
EXTENDS ConfigImports

CONSTANTS
  PrefTexts,         \* texts of a pref file
  PrefFiles,         \* reference -> text, for those that can be read
  PrefRounds,        \* rounds of imports the Worker makes; 8 in the code
  GeneratorTargets,  \* targets of the generator, in order
  Versions           \* how often the subscription changes; a bound

ASSUME GeneratorTargetsSeq == GeneratorTargets \in Seq(Range(GeneratorTargets))
ASSUME PrefRoundsNat == PrefRounds \in Nat \ {0} /\ Versions \in Nat \ {0}
ASSUME PrefsCanBeRead == PrefTexts \subseteq Seq(Line) /\ ImportFiles(PrefFiles)

VARIABLES
  cli,       \* who runs, and with which arguments
  stage,
  pref,      \* the pref file's text, while its imports are replaced
  rounds,    \* rounds made
  offered,   \* what the upstream would answer: its version
  rendered,  \* results so far
  files,     \* results written, in order
  printed    \* results put on the standard output

cliVars == <<cli, stage, pref, rounds, offered, rendered, files, printed>>

Invocation ==
    [program : {"cli"}, text : PrefTexts, target : {"all"} \cup Range(GeneratorTargets),
     artifact : BOOLEAN]
    \cup [program : {"worker"}, text : PrefTexts]

CliInit ==
    /\ cli \in Invocation
    /\ pref = cli.text
    /\ stage = "pref" /\ rounds = 0 /\ offered = 1
    /\ rendered = <<>> /\ files = <<>> /\ printed = <<>>

Wanted == IF cli.target = "all" THEN GeneratorTargets ELSE <<cli.target>>

-----------------------------------------------------------------------------

Imported == ImportRefs(pref)
Absent == Imported \ DOMAIN PrefFiles

\* The command line replaces imports once, and takes what it gets.
CliPref ==
    /\ stage = "pref" /\ cli.program = "cli"
    /\ IF Absent # {} THEN stage' = "failed" /\ UNCHANGED <<pref, rounds>>
       ELSE stage' = "convert" /\ pref' = ExpandImports(pref, PrefFiles) /\ rounds' = 1
    /\ UNCHANGED <<cli, offered, rendered, files, printed>>

\* The last round fails, whether or not anything is left.
LastRound == rounds = PrefRounds

\* The Worker goes on until nothing is left; where that fails it serves the
\* request under the default settings.
WorkerPref ==
    /\ stage = "pref" /\ cli.program = "worker"
    /\ IF LastRound \/ (Imported # {} /\ Absent # {})
         THEN stage' = "defaults" /\ UNCHANGED <<pref, rounds>>
       ELSE IF Imported = {} THEN stage' = "settings" /\ UNCHANGED <<pref, rounds>>
       ELSE pref' = ExpandImports(pref, PrefFiles) /\ rounds' = rounds + 1 /\ UNCHANGED stage
    /\ UNCHANGED <<cli, offered, rendered, files, printed>>

\* Everything is printed as it comes.
EmitAtOnce(result) ==
    IF cli.artifact THEN files' = Append(files, result) /\ UNCHANGED printed
    ELSE printed' = Append(printed, result) /\ UNCHANGED files

\* A result is written where --artifact says: to a file of its own when there are
\* several.
Emit(result) ==
    IF cli.artifact THEN files' = Append(files, result) /\ UNCHANGED printed
    ELSE IF cli.target = "all" THEN UNCHANGED <<files, printed>>
    ELSE printed' = Append(printed, result) /\ UNCHANGED files

ConvertNext ==
    /\ stage = "convert" /\ Len(rendered) < Len(Wanted)
    /\ LET result == [target |-> Wanted[Len(rendered) + 1], from |-> offered]
       IN  rendered' = Append(rendered, result) /\ Emit(result)
    /\ UNCHANGED <<cli, stage, pref, rounds, offered>>

\* The fetch, the conversion or the writing of a file fails.
ConvertFails ==
    /\ stage = "convert" /\ Len(rendered) < Len(Wanted)
    /\ stage' = "failed"
    /\ UNCHANGED <<cli, pref, rounds, offered, rendered, files, printed>>

Finish ==
    /\ stage = "convert" /\ Len(rendered) = Len(Wanted)
    /\ stage' = "done"
    /\ printed' = IF cli.target = "all" /\ ~cli.artifact THEN rendered ELSE printed
    /\ UNCHANGED <<cli, pref, rounds, offered, rendered, files>>

\* Meanwhile the subscription changes.
Republish ==
    /\ stage = "convert" /\ offered < Versions
    /\ offered' = offered + 1
    /\ UNCHANGED <<cli, stage, pref, rounds, rendered, files, printed>>

CliNext == CliPref \/ WorkerPref \/ ConvertNext \/ ConvertFails \/ Finish \/ Republish

CliSpec == CliInit /\ [][CliNext]_cliVars

-----------------------------------------------------------------------------

CliTypeOK ==
    /\ stage \in {"pref", "convert", "settings", "defaults", "done", "failed"}
    /\ pref \in Seq(Line) /\ rounds \in 0..PrefRounds
    /\ offered \in 1..Versions
    /\ Len(files) <= Len(rendered) /\ Len(printed) <= Len(rendered)

\* What a run of the generator leaves is all of its targets or the first of them,
\* in their order, each from the subscription as it was then and none older than
\* the one before; without files nothing is put out unless everything succeeded
\* (run_conversion_mode, emit_artifact).
InTargetOrder(results) ==
    /\ \A i \in DOMAIN results : results[i].target = Wanted[i]
    /\ \A i, j \in DOMAIN results : i < j => results[i].from <= results[j].from

ArtifactsInOrder ==
    cli.program = "cli" =>
        /\ InTargetOrder(files) /\ InTargetOrder(printed)
        /\ cli.artifact => files = rendered /\ printed = <<>>
        /\ cli.target = "all" /\ printed # <<>> => stage = "done"
        /\ stage = "done" => Len(files \o printed) = Len(Wanted)

\* A pref file means the same to the command line as to the server if and only
\* if nothing is left to import after one round, and the Worker's settings come
\* from its pref file if and only if its imports can be read and end before the
\* last round (read_config_file, load_settings).
PrefLevel(depth) ==
    LET padded == [r \in References |-> IF r \in DOMAIN PrefFiles THEN PrefFiles[r] ELSE <<>>]
    IN  Level(cli.text, padded, depth)[depth]

PrefDepth ==
    /\ stage \in {"convert", "done"} => (ImportRefs(pref) = {}) = (PrefLevel(1) = {})
    /\ stage = "settings" => PrefLevel(PrefRounds - 1) = {}
    /\ stage = "defaults" => PrefLevel(PrefRounds - 1) # {} \/ Absent # {}
=============================================================================
