------------------------------- MODULE Runner -------------------------------
(***************************************************************************)
(* verilate/include/runner.h, ProgramRunner::main: the options it offers,  *)
(* the command line as CLI11.hpp parses it, and what is set up before the  *)
(* model runs.  An argument is a record of what the splitting functions    *)
(* find in it; as a value of an option it is taken whole.  There are no    *)
(* positional options, subcommands, configuration files or environment.    *)
(***************************************************************************)
EXTENDS Integers, Sequences, SequencesExt, FiniteSets

CONSTANTS
  CommandLines,                   \* argv, without the program's name
  Runners,                        \* what the program's vmain has switched
  Dashed,                         \* rest of a short option -> the argument "-rest"
  Ints, Floats,                   \* the words that are numbers, whole
  TrueWords, FalseWords, Huge     \* what to_flag_value makes of a word

Switches == [_init_memory : BOOLEAN, _init_text_trace : BOOLEAN, _init_fst_trace : BOOLEAN,
             _init_soc : BOOLEAN, _init_pty : BOOLEAN,
             _set_num_workers : BOOLEAN, _set_fst_folder : BOOLEAN]

Classifier == {"NONE", "POSITIONAL_MARK", "SHORT", "LONG"}

\* split_long, split_short: -xREST is SHORT x REST, --x=VALUE is LONG x VALUE.
Text(cls, name, value) == [cls |-> cls, name |-> name, value |-> value]
Word(w) == Text("NONE", "", w)
Mark == Text("POSITIONAL_MARK", "", "")

Argument == [cls : Classifier, name : STRING, value : STRING]

\* A short option has a letter, and what is behind a flag's is an argument again.
Written(text) ==
  text.cls = "SHORT" =>
    /\ text.name # ""
    /\ text.name = "h" /\ text.value # "" => text.value \in DOMAIN Dashed

RunnerAssumption ==
  /\ Runners \subseteq Switches
  /\ CommandLines \subseteq Seq(Argument)
  /\ \A argv \in CommandLines : \A i \in DOMAIN argv : Written(argv[i])
  /\ \A w \in DOMAIN Dashed : Dashed[w] \in Argument /\ Written(Dashed[w])
  /\ "true" \in TrueWords /\ "false" \in FalseWords
  /\ TrueWords \cap FalseWords = {} /\ Huge \cap (TrueWords \cup FalseWords) = {}

VARIABLES
  argv, runner,                        \* inputs
  phase,                               \* where main is
  args, positional_only,               \* App::_parse
  results, missing_,                   \* Option::results_; what no option takes
  opt,                                 \* the option whose callback is next
  config,                              \* ProgramRunner::args
  log,                                 \* what the logging has been told
  top                                  \* the model and what is installed in it

parseVars == <<args, positional_only, results, missing_>>
vars == <<argv, runner, phase, parseVars, opt, config, log, top>>

-----------------------------------------------------------------------------
(* The options                                                             *)

\* The names in "-x,--x,!--no-x", of which the last means false.
get_names(short, longs, negated) == [short |-> short, longs |-> longs, negated |-> negated]

Option(name, names, type, policy) ==
  [name |-> name, names |-> names, type |-> type, policy |-> policy,
   required |-> FALSE, needs |-> {}, excludes |-> {}]

add_option(name, short, long, type) == Option(name, get_names(short, {long}, {}), type, "Throw")

add_flag(name, long, no) == Option(name, get_names("", {long, no}, {no}), "bool", "TakeLast")

help_ptr == Option("help", get_names("h", {"help"}, {}), "none", "TakeLast")

\* options_ of a runner, in the order they are added.
OptionsOf(r) ==
  LET offered(b, o) == IF b THEN <<o>> ELSE <<>>
  IN  <<help_ptr>>
      \o offered(r._init_memory, add_option("memfile", "m", "memfile", "string"))
      \o offered(r._init_fst_trace, add_option("fst_trace", "f", "fst-trace", "string"))
      \o offered(r._init_text_trace, add_option("text_trace", "t", "text-trace", "string"))
      \o offered(r._init_text_trace, add_option("ref_trace", "r", "ref-trace", "string"))
      \o offered(r._init_pty, add_option("pty", "y", "pty", "string"))
      \o offered(r._set_fst_folder, add_option("fst_folder", "d", "fst-folder", "string"))
      \o offered(r._set_num_workers, add_option("num_workers", "j", "num-workers", "int"))
      \o << add_flag("status", "status", "no-status"),
            add_flag("debug", "debug", "no-debug"),
            add_option("p_disable", "p", "p-disable", "float"),
            add_flag("force_diff", "force-diff", "no-force-diff") >>

options_ == OptionsOf(runner)
Names == {o.name : o \in Range(options_)}
OptionAt(name) == CHOOSE o \in Range(options_) : o.name = name

is_flag(o) == o.type \in {"bool", "none"}

Defaults ==
  [memfile |-> Word("func_test.coe"), fst_trace |-> Word(""), text_trace |-> Word(""),
   ref_trace |-> Word(""), pty |-> Word("build/vpty"), fst_folder |-> Word("build"),
   num_workers |-> Word("1"), status |-> TRUE, debug |-> FALSE, p_disable |-> Word("0"),
   force_diff |-> FALSE]

-----------------------------------------------------------------------------
(* Conversions                                                             *)

\* to_flag_value, and what the conversion to bool makes of a number that is
\* too large for it.
is_true(w) == w \in TrueWords \cup Huge
is_bool(w) == w \in TrueWords \cup FalseWords \cup Huge

\* lexical_cast to the type of the option's variable.
converts(o, text) ==
  CASE o.type \in {"string", "none"} -> TRUE
    [] o.type = "bool"  -> is_bool(text.value)
    [] o.type = "int"   -> text.cls = "NONE" /\ text.value \in Ints
    [] o.type = "float" -> text.cls = "NONE" /\ text.value \in Floats

lexical_cast(o, text) == IF o.type = "bool" THEN is_true(text.value) ELSE text

\* The value of a flag given as name=value; the negated name turns it round.
get_flag_value(o, name, value) ==
  IF value = "" THEN Word(IF name \in o.names.negated THEN "false" ELSE "true")
  ELSE IF name \in o.names.negated /\ is_bool(value)
  THEN Word(IF is_true(value) THEN "false" ELSE "true")
  ELSE Word(value)

-----------------------------------------------------------------------------
(* App::_parse: arguments are taken off the end of a reversed vector       *)

back == Last(args)

\* check_sname, check_lname: the option an argument names.
Named(text) ==
  {o \in Range(options_) : \/ text.cls = "LONG" /\ text.name \in o.names.longs
                           \/ text.cls = "SHORT" /\ text.name = o.names.short}

\* _recognize, once "--" has been seen everything is positional.
_recognize == IF positional_only THEN "NONE" ELSE back.cls

Throw == phase' = "exit" /\ UNCHANGED <<opt, config, log, top>>

\* An exception that is no ParseError: main does not catch it.
Terminate == phase' = "terminated" /\ UNCHANGED <<opt, config, log, top>>

Parsing == phase = "parse" /\ UNCHANGED <<argv, runner>>
Continue == UNCHANGED <<phase, opt, config, log, top>>

_move_to_missing == missing_' = Append(missing_, back)

ParseMark ==
  /\ Parsing /\ args # <<>> /\ _recognize = "POSITIONAL_MARK"
  /\ args' = Front(args) /\ positional_only' = TRUE
  /\ _move_to_missing
  /\ Continue /\ UNCHANGED results

_parse_positional ==
  /\ Parsing /\ args # <<>> /\ _recognize = "NONE"
  /\ args' = Front(args)
  /\ _move_to_missing
  /\ Continue /\ UNCHANGED <<results, positional_only>>

Given == args # <<>> /\ _recognize \in {"LONG", "SHORT"}

\* _parse_arg: no such option.
ParseUnknown ==
  /\ Parsing /\ Given /\ Named(back) = {}
  /\ args' = Front(args)
  /\ _move_to_missing
  /\ Continue /\ UNCHANGED <<results, positional_only>>

add_result(o, text) == results' = [results EXCEPT ![o.name] = Append(@, text)]

\* _parse_arg of a flag: the rest of a short one is an argument again.
ParseFlag ==
  \E o \in Named(back) :
    /\ is_flag(o)
    /\ IF back.cls = "LONG" /\ back.name \in o.names.negated /\ back.value \in Huge
       THEN Terminate /\ UNCHANGED parseVars
       ELSE /\ add_result(o, get_flag_value(o, back.name,
                                            IF back.cls = "LONG" THEN back.value ELSE ""))
            /\ args' = Front(args) \o (IF back.cls = "SHORT" /\ back.value # ""
                                       THEN <<Dashed[back.value]>> ELSE <<>>)
            /\ Continue /\ UNCHANGED <<positional_only, missing_>>

\* Mutant: an argument with a dash is not taken as a value.
TakesNextPlain(o) == Len(args) > 1 /\ args[Len(args) - 1].cls = "NONE"

\* An option without a value takes the next argument, whatever it is.
TakesNext(o) == Len(args) > 1

\* _parse_arg of an option with a value: -xVALUE, --x=VALUE, or the next.
ParseOption ==
  \E o \in Named(back) :
    /\ ~is_flag(o)
    /\ CASE back.value # "" ->
              /\ add_result(o, Word(back.value)) /\ args' = Front(args)
              /\ Continue /\ UNCHANGED <<positional_only, missing_>>
         [] back.value = "" /\ TakesNext(o) ->
              /\ add_result(o, Last(Front(args))) /\ args' = Front(Front(args))
              /\ Continue /\ UNCHANGED <<positional_only, missing_>>
         [] OTHER -> Throw /\ UNCHANGED parseVars

_parse_arg == Parsing /\ Given /\ (ParseFlag \/ ParseOption)

EndParse ==
  /\ Parsing /\ args = <<>>
  /\ phase' = "callbacks"
  /\ UNCHANGED <<parseVars, opt, config, log, top>>

-----------------------------------------------------------------------------
(* App::_process                                                           *)

_reduce_results(o) == IF o.policy = "TakeLast" THEN <<Last(results[o.name])>> ELSE results[o.name]

run_callback(o) ==
  LET res == _reduce_results(o) IN
  IF Len(res) > 1 \/ ~converts(o, res[1])
  THEN Throw
  ELSE /\ opt' = opt + 1
       /\ config' = IF o.type = "none" THEN config
                    ELSE [config EXCEPT ![o.name] = lexical_cast(o, res[1])]
       /\ UNCHANGED <<phase, log, top>>

\* In the order of options_.  What has been assigned stays assigned when a
\* later option throws.
_process_callbacks ==
  /\ phase = "callbacks" /\ opt <= Len(options_)
  /\ IF results[options_[opt].name] = <<>>
     THEN opt' = opt + 1 /\ UNCHANGED <<phase, config, log, top>>
     ELSE run_callback(options_[opt])
  /\ UNCHANGED <<argv, runner, parseVars>>

count(name) == Len(results[name])

_process_help_flags == count("help") = 0

_process_requirements ==
  \A o \in Range(options_) :
    /\ o.required => count(o.name) > 0
    /\ count(o.name) > 0 => /\ \A n \in o.needs : count(n) > 0
                            /\ \A n \in o.excludes : count(n) = 0

remaining_size == Cardinality({i \in DOMAIN missing_ : missing_[i].cls # "POSITIONAL_MARK"})

\* Once it has been seen, a second "--" is positional too, but not counted.
Process ==
  /\ phase = "callbacks" /\ opt > Len(options_)
  /\ IF _process_help_flags /\ _process_requirements /\ remaining_size = 0
     THEN phase' = "configure" /\ UNCHANGED <<opt, config, log, top>>
     ELSE Throw
  /\ UNCHANGED <<argv, runner, parseVars>>

-----------------------------------------------------------------------------
(* ProgramRunner::main, after CLI11_PARSE                                  *)

NoModel == [made |-> FALSE]

Step(from, to) == phase = from /\ phase' = to /\ UNCHANGED <<argv, runner, parseVars, opt>>

\* An assertion fails: the program aborts with what there is.
Fail(from) == Step(from, "aborted") /\ UNCHANGED <<config, log, top>>

Configure ==
  LET c == IF config.memfile = Defaults.memfile /\ config.ref_trace = Word("")
           THEN [config EXCEPT !.ref_trace = Word("func_test.txt")] ELSE config
  IN  /\ Step("configure", "memory")
      /\ config' = c
      /\ log' = [log_enabled |-> TRUE, status_enabled |-> c.status, debug_enabled |-> c.debug]
      /\ top' = [made |-> TRUE, p_disable |-> c.p_disable, force_diff |-> c.force_diff,
                 memory |-> "none", image |-> Word(""), fst |-> Word(""), text |-> Word(""),
                 pty |-> Word(""), _fst_folder |-> Word(""), _num_workers |-> Word("1")]

InstallMemory ==
  /\ Step("memory", "traces")
  /\ top' = [top EXCEPT !.image = IF runner._init_memory THEN config.memfile ELSE @,
                        !.memory = IF runner._init_soc THEN "soc" ELSE "memory"]
  /\ UNCHANGED <<config, log>>

MemoryFails == runner._init_memory /\ Fail("memory")

StartTraces ==
  /\ Step("traces", "pty")
  /\ top' = [top EXCEPT !.fst = IF runner._init_fst_trace THEN config.fst_trace ELSE @,
                        !.text = IF runner._init_text_trace THEN config.text_trace ELSE @]
  /\ UNCHANGED <<config, log>>

TraceFails ==
  /\ \/ runner._init_fst_trace /\ config.fst_trace # Word("")
     \/ runner._init_text_trace /\ config.text_trace # Word("")
  /\ Fail("traces")

\* Only the confreg has a pty.
SetUp ==
  /\ Step("pty", "run")
  /\ top' = [top EXCEPT !.pty = IF runner._init_pty /\ top.memory = "soc" THEN config.pty ELSE @,
                        !._fst_folder = IF runner._set_fst_folder THEN config.fst_folder ELSE @,
                        !._num_workers = IF runner._set_num_workers THEN config.num_workers ELSE @]
  /\ UNCHANGED <<config, log>>

Run ==
  /\ Step("run", "done")
  /\ top' = NoModel /\ UNCHANGED <<config, log>>

main == Configure \/ InstallMemory \/ MemoryFails \/ StartTraces \/ TraceFails \/ SetUp \/ Run

Init ==
  /\ argv \in CommandLines /\ runner \in Runners
  /\ phase = "parse"
  /\ args = Reverse(argv) /\ positional_only = FALSE
  /\ results = [n \in Names |-> <<>>] /\ missing_ = <<>>
  /\ opt = 1 /\ config = Defaults
  /\ log = [log_enabled |-> FALSE, status_enabled |-> FALSE, debug_enabled |-> FALSE]
  /\ top = NoModel

Next ==
  \/ ParseMark \/ _parse_positional \/ ParseUnknown \/ _parse_arg \/ EndParse
  \/ _process_callbacks \/ Process
  \/ main

Spec == Init /\ [][Next]_vars

-----------------------------------------------------------------------------
(* Properties: the command line, read as a whole                           *)

NamesValued(text) == \E o \in Named(text) : ~is_flag(o) /\ text.value = ""

\* The arguments that an option before them takes as its value.
Taken ==
  LET taken[i \in 0 .. Len(argv)] ==
        i > 1 /\ ~taken[i - 1] /\ NamesValued(argv[i - 1])
  IN  {i \in DOMAIN argv : taken[i]}

Heads == DOMAIN argv \ Taken

ValueAt(i) == IF argv[i].value = "" THEN argv[i + 1] ELSE Word(argv[i].value)

Mentions(o) == {i \in Heads : o \in Named(argv[i])}

LastMention(o) == CHOOSE i \in Mentions(o) : \A j \in Mentions(o) : j <= i

\* --x and --no-x=false say yes, --no-x and --x=false say no.
Says(o, i) == (argv[i].value = "" \/ is_true(argv[i].value)) # (argv[i].name \in o.names.negated)

\* Nothing but options, up to a last "--" perhaps; flags as often as one
\* likes with a last value that is a truth value; others once, with a value
\* of their type; no help.
Right ==
  /\ \A i \in Heads : \/ Named(argv[i]) # {}
                      \/ argv[i].cls = "POSITIONAL_MARK" /\
                           \A j \in Heads : j >= i => argv[j].cls = "POSITIONAL_MARK"
  /\ \A o \in Range(options_) :
       Mentions(o) # {} =>
         IF is_flag(o)
         THEN /\ o.type = "bool"
              /\ LET v == argv[LastMention(o)].value IN v = "" \/ is_bool(v)
              /\ \A i \in Mentions(o) : argv[i].value \in Huge => argv[i].name \notin o.names.negated
         ELSE /\ Cardinality(Mentions(o)) = 1
              /\ LET i == LastMention(o)
                 IN  (argv[i].value = "" => i < Len(argv)) /\ converts(o, ValueAt(i))

Wanted(name) ==
  IF name \notin Names \/ Mentions(OptionAt(name)) = {} THEN Defaults[name]
  ELSE LET o == OptionAt(name) IN
       IF is_flag(o) THEN Says(o, LastMention(o)) ELSE ValueAt(LastMention(o))

\* The program makes a model only for a command line that is right as a
\* whole, and the model runs with what the command line says, in whatever
\* order it says it, and with the defaults for the rest
\* (CLI11.hpp:6845-6864, 7156-7313, runner.h:90-126).
RunsAsTold ==
  /\ top.made => Right
  /\ phase \in {"exit", "terminated"} => ~Right /\ ~log.log_enabled
  /\ phase = "run" =>
       /\ log.status_enabled = Wanted("status") /\ log.debug_enabled = Wanted("debug")
       /\ top.p_disable = Wanted("p_disable") /\ top.force_diff = Wanted("force_diff")
       /\ runner._init_memory => top.image = Wanted("memfile")
       /\ runner._init_fst_trace => top.fst = Wanted("fst_trace")
       /\ runner._init_text_trace => top.text = Wanted("text_trace")
       /\ runner._init_pty /\ runner._init_soc => top.pty = Wanted("pty")
       /\ runner._set_fst_folder => top._fst_folder = Wanted("fst_folder")
       /\ runner._set_num_workers => top._num_workers = Wanted("num_workers")
=============================================================================
