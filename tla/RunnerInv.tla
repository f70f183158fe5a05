------------------------------ MODULE RunnerInv ------------------------------
(***************************************************************************)
(* The inductive invariant of Runner.  While the command line is parsed,   *)
(* either what the options have is what the arguments gone through say, or *)
(* it is certain already that the program will not run, and the command    *)
(* line is wrong; then, what the callbacks have assigned is what the       *)
(* options have; then, what is set up is what is wanted.                   *)
(***************************************************************************)
EXTENDS Runner

\* Arguments, of strings.  The provers do not know that a literal is one.
Strings == STRING \cup {"", "true", "false"}
AnyText == [cls : Classifier, name : Strings, value : Strings]

\* How many arguments have been gone through.
gone == Len(argv) - Len(args)

\* The arguments among them that name o.
Seen(o) == {i \in Mentions(o) : i <= gone}

\* What argument i gives o.
Result(o, i) ==
  IF is_flag(o)
  THEN get_flag_value(o, argv[i].name, IF argv[i].cls = "LONG" THEN argv[i].value ELSE "")
  ELSE ValueAt(i)

IsMark(i) == argv[i].cls = "POSITIONAL_MARK"

RunnerTypes ==
  /\ argv \in CommandLines /\ runner \in Runners
  /\ args \in Seq(AnyText) /\ \A k \in DOMAIN args : Written(args[k])
  /\ positional_only \in BOOLEAN
  /\ results \in [Names -> Seq(AnyText)]
  /\ missing_ \in Seq(AnyText)
  /\ opt \in 1 .. Len(options_) + 1
  /\ DOMAIN config = DOMAIN Defaults

\* What is left is the end of the command line, and begins with no value.
Aligned ==
  /\ Len(args) <= Len(argv)
  /\ \A k \in DOMAIN args : args[k] = argv[Len(argv) + 1 - k]
  /\ args # <<>> => gone + 1 \notin Taken

\* o does not stop the parser at argument i.
Goes(o, i) ==
  /\ is_flag(o) /\ argv[i].value \in Huge => argv[i].name \notin o.names.negated
  /\ ~is_flag(o) /\ argv[i].value = "" => i < Len(argv)

\* An option has what the arguments gone through give it.
Recorded(o) ==
  /\ results[o.name] = <<>> <=> Seen(o) = {}
  /\ Len(results[o.name]) = 1 <=> \E i \in Seen(o) : Seen(o) = {i}
  /\ results[o.name] # <<>> =>
       \E i \in Seen(o) : /\ \A j \in Seen(o) : j <= i
                          /\ Last(results[o.name]) = Result(o, i)
  /\ \A i \in Seen(o) : Goes(o, i)

Found == \A o \in Range(options_) : Recorded(o)

\* Nothing but options, and "--" at the end.
Clean ==
  /\ \A i \in Heads :
       i <= gone =>
         /\ Named(argv[i]) # {} \/ IsMark(i)
         /\ IsMark(i) => positional_only /\ \A j \in Heads : i <= j /\ j <= gone => IsMark(j)
  /\ positional_only => \E i \in Heads : i <= gone /\ IsMark(i)
  /\ \A k \in DOMAIN missing_ : missing_[k].cls = "POSITIONAL_MARK"
  /\ results["help"] = <<>>

OnTrack == Aligned /\ Found /\ Clean

\* What will be thrown out in the end, and is wrong.
Doomed ==
  /\ ~Right
  /\ results["help"] # <<>> \/ \E k \in DOMAIN missing_ : missing_[k].cls # "POSITIONAL_MARK"

Passed(o) ==
  results[o.name] # <<>> =>
    LET res == _reduce_results(o)
    IN  /\ Len(res) <= 1 /\ converts(o, res[1])
        /\ o.type # "none" => config[o.name] = lexical_cast(o, res[1])

\* The callbacks so far have passed, and nothing else is set.
Called ==
  /\ \A o \in {options_[k] : k \in 1 .. opt - 1} : Passed(o)
  /\ \A nm \in DOMAIN Defaults :
       (\A o \in Range(options_) : o.name = nm => results[nm] = <<>>) => config[nm] = Defaults[nm]

TopFields == {"made", "p_disable", "force_diff", "memory", "image", "fst", "text", "pty",
              "_fst_folder", "_num_workers"}

\* What the model has been told.
Told ==
  /\ \A nm \in DOMAIN Defaults : nm = "ref_trace" \/ config[nm] = Wanted(nm)
  /\ phase # "configure" =>
       /\ log.status_enabled = Wanted("status") /\ log.debug_enabled = Wanted("debug")
       /\ DOMAIN top = TopFields
       /\ top.p_disable = Wanted("p_disable") /\ top.force_diff = Wanted("force_diff")
  /\ phase \in {"traces", "pty", "run"} =>
       /\ runner._init_memory => top.image = Wanted("memfile")
       /\ top.memory = IF runner._init_soc THEN "soc" ELSE "memory"
  /\ phase \in {"pty", "run"} =>
       /\ runner._init_fst_trace => top.fst = Wanted("fst_trace")
       /\ runner._init_text_trace => top.text = Wanted("text_trace")
  /\ phase = "run" =>
       /\ runner._init_pty /\ runner._init_soc => top.pty = Wanted("pty")
       /\ runner._set_fst_folder => top._fst_folder = Wanted("fst_folder")
       /\ runner._set_num_workers => top._num_workers = Wanted("num_workers")

Before == {"parse", "callbacks", "exit", "terminated"}
Going  == {"configure", "memory", "traces", "pty", "run"}
After  == {"done", "aborted"}

RInv ==
  /\ RunnerTypes
  /\ phase \in Before \cup Going \cup After
  /\ phase \in Before => top = NoModel /\ ~log.log_enabled
  /\ phase = "parse" => opt = 1 /\ config = Defaults /\ (Doomed \/ OnTrack)
  /\ phase = "callbacks" => Called /\ (Doomed \/ (OnTrack /\ args = <<>>))
  /\ phase \in {"exit", "terminated"} => ~Right
  /\ phase \in Going \cup After => Right
  /\ phase \in Going => Told
=============================================================================
