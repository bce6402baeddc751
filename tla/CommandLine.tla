---------------------------- MODULE CommandLine -----------------------------
(***************************************************************************)
(* Parsing a command line (src/app/cli.c). An argument is a word or an      *)
(* element of options: one long option, or the cluster of a short one's     *)
(* letters, with the value attached to the last of them, if any:            *)
(*   [options |-> <<>>, value |-> "build"]                                  *)
(*   [options |-> <<"verbose", "workers">>, value |-> "4"]                  *)
(* Values are "" (none), "4" (any positive count) and words. "workers" takes *)
(* what is left of its element as its value, so no option comes after it.   *)
(*                                                                         *)
(* copt, which splits elements and moves words after the options, is        *)
(* external.                                                               *)
(***************************************************************************)
EXTENDS Integers, Sequences, SequencesExt

IsWord(argument)     == argument.options = <<>>
Commands             == {"build", "config"}
FlagOrder            == <<"verbose", "workers", "dry-run", "force">>
Options              == ToSet(FlagOrder) \cup {"version", "help"}
FlagsAccepted(command) == IF command = "build" THEN ToSet(FlagOrder) ELSE {}

NewCli ==
  [action |-> "none", command |-> "none", informs |-> {}, flags |-> {}, error |-> <<>>,
   words |-> <<>>, isValueDue |-> FALSE]

(* Mutant: the last error is reported. *)
RecordLastError(cli, what, of) == [cli EXCEPT !.error = <<what, of>>]

\* record_error: the first stays.
RecordError(cli, what, of) == IF cli.error # <<>> THEN cli ELSE [cli EXCEPT !.error = <<what, of>>]

\* A value belongs to the letter right before it: an earlier option of its
\* cluster received none, unless it is the same letter.
HasValue(element, option) == element.value # "" /\ Last(element.options) = option

\* cli_parse_workers_option.
TakeWorkers(cli, value) ==
  LET taken == [cli EXCEPT !.isValueDue = FALSE]
  IN  IF value = "4" THEN [taken EXCEPT !.flags = @ \cup {"workers"}]
      ELSE RecordError(taken, IF value = "" THEN "no count" ELSE "not a count", "workers")

\* The handler of one option. copt reads the value of a last one without it from
\* the next argument, if that is a word.
TakeOption(cli, element, option) ==
  IF option = "workers"
    THEN IF element.value = "" THEN [cli EXCEPT !.isValueDue = TRUE] ELSE TakeWorkers(cli, element.value)
  ELSE IF option \notin Options THEN RecordError(cli, "unknown", option)
  ELSE IF HasValue(element, option) THEN RecordError(cli, "takes no value", option)
  ELSE [cli EXCEPT !.flags = @ \cup ({option} \cap ToSet(FlagOrder)),
                   !.informs = @ \cup ({option} \ ToSet(FlagOrder))]

\* The next option of an element. A rejected value ends the element.
ReadOption(reading, option) ==
  IF reading.isEnded THEN reading
  ELSE [reading EXCEPT !.cli = TakeOption(@, reading.element, option),
                       !.isEnded = option # "workers" /\ HasValue(reading.element, option)]

ReadOptions(cli, element) ==
  FoldLeft(ReadOption, [cli |-> cli, element |-> element, isEnded |-> FALSE], element.options).cli

\* A worker count that did not come is an error.
Settled(cli) == IF cli.isValueDue THEN TakeWorkers(cli, "") ELSE cli

ReadArgument(cli, argument) ==
  IF ~IsWord(argument) THEN ReadOptions(Settled(cli), argument)
  ELSE IF cli.isValueDue THEN TakeWorkers(cli, argument.value)
  ELSE [cli EXCEPT !.words = Append(@, argument.value)]

\* reject_unsupported_flags: the first in the order the flags are checked.
RejectUnsupportedFlags(cli) ==
  LET unsupported == {i \in DOMAIN FlagOrder : FlagOrder[i] \in cli.flags \ FlagsAccepted(cli.command)}
  IN  IF unsupported = {} THEN cli ELSE RecordError(cli, "unsupported", FlagOrder[Min(unsupported)])

\* cli_parse_command.
ParseCommand(cli) ==
  IF cli.words = <<>> THEN cli
  ELSE IF cli.words[1] \notin Commands THEN RecordError(cli, "unknown command", cli.words[1])
  ELSE LET named == [cli EXCEPT !.command = cli.words[1]]
       IN  RejectUnsupportedFlags(IF Len(cli.words) = 1 THEN named
                                  ELSE RecordError(named, "unexpected", cli.words[2]))

\* The end of cli_parse: version wins over help, and help over any error.
Resolve(cli) ==
  LET parsed == ParseCommand(Settled(cli))
  IN  IF parsed.informs # {}
        THEN [parsed EXCEPT !.action = IF "version" \in parsed.informs THEN "version" ELSE "help",
                            !.error = <<>>]
      ELSE IF parsed.error # <<>> THEN [parsed EXCEPT !.action = "error"]
      ELSE IF parsed.command = "none"
        THEN [RecordError(parsed, "no command", "") EXCEPT !.action = "error"]
      ELSE [parsed EXCEPT !.action = "run"]

=============================================================================
