------------------------------ MODULE ReplayRun ------------------------------
(***************************************************************************)
(* One invocation of replay_cli: main of apps/replay_cli.cpp reads its     *)
(* arguments, run_replay_from_config_file of src/replay_engine.cpp the     *)
(* configuration, and ReplayEngine::run hashes both input files before it  *)
(* opens them again as the feed (MarketFeed).  The replay itself and the   *)
(* writing of the artifacts are one step each here: ReplayEngine and       *)
(* ArtifactWriter model them.  Files may change and reads fail meanwhile.  *)
(***************************************************************************)
EXTENDS MarketFeed, ReplayConfig

CONSTANTS
  Cases,      \* sets of cases: arguments, configuration file, input files, output
              \* directories, and what another process may put in place of an input
  None        \* an argument that was not given, an exit that is still to come

Words   == {"--config", "--output", "--force", "--help"}
Entries == {"comment", "bare", "setting"}     \* lines of the configuration file
Doubles == Int \X (Nat \ {0})                 \* fractions, where they are not NaN
Outputs == {"absent", "empty", "files", "artifacts", "not a directory", "no parent"}

ASSUME CasesAssumption ==
  \A cases \in Cases : \A c \in cases :
    /\ c.disk \in [Sources -> Seq(Lines) \cup {NoFile}]
    /\ c.contents \subseteq Seq(Lines)
    /\ c.args \in Seq(DOMAIN c.outputs) /\ None \notin DOMAIN c.outputs
    /\ \A d \in DOMAIN c.outputs : c.outputs[d] \in Outputs
    /\ c.config \in Seq(Range(c.config))
    /\ \A entry \in Range(c.config) :
         /\ entry.kind \in Entries
         /\ entry.key = "output_directory" => entry.value \in DOMAIN c.outputs \cup {Empty}
         /\ entry.key = "tick_size" => entry.value \in Texts \cup {Empty}
         /\ entry.key = "queue_fraction" => entry.value \in {Empty, Garbage, NaN} \cup Doubles

VARIABLES
  setup,      \* the case that is run
  at,         \* arguments, then lines of the configuration, dealt with
  options,    \* config_path, output_directory and force of main
  values,     \* the keys and values read so far
  phase,      \* what the process is at
  config,     \* the accepted ReplayConfig
  hashed,     \* what book_hash and trades_hash are hashes of
  replaced,   \* input files replaced after they were hashed
  published,  \* the artifacts, as what they record of their inputs
  outputs,    \* what is at the places for the output
  exitCode

cliVars == <<setup, at, options, values, config, hashed, replaced, published, outputs, exitCode>>
runVars == <<cliVars, phase, feedVars>>

-----------------------------------------------------------------------------
RunInit ==
  /\ \E cases \in Cases : setup \in cases
  /\ at = 0
  /\ options = [config |-> None, output |-> None, force |-> FALSE]
  /\ values = << >> /\ config = None
  /\ phase = "arguments"
  /\ hashed = [s \in Sources |-> NoFile] /\ replaced = {}
  /\ published = None /\ outputs = setup.outputs
  /\ exitCode = None
  /\ disk = setup.disk /\ parser = [tick |-> << >>, format |-> "decimal"]
  /\ stage = "waiting" /\ Unread

Exit(code) ==
  /\ phase' = "exited" /\ exitCode' = code
  /\ UNCHANGED <<setup, options, values, config, hashed, replaced, outputs>>

\* What main returns for an exception.
Caught == 1

Argument == setup.args[at + 1]
Parsing  == phase = "arguments" /\ at < Len(setup.args)

\* Usage, on request and for want of arguments.
ShowHelp ==
  /\ phase = "arguments"
  /\ setup.args = << >> \/ (Parsing /\ Argument = "--help")
  /\ Exit(0) /\ UNCHANGED <<at, published, feedVars>>

TakeForce ==
  /\ Parsing /\ Argument = "--force"
  /\ options' = [options EXCEPT !.force = TRUE] /\ at' = at + 1
  /\ UNCHANGED <<setup, values, phase, config, hashed, replaced, published, outputs, exitCode, feedVars>>

\* The next argument is taken as the path, whatever it is; the last one stays.
TakePath ==
  /\ Parsing /\ Argument \in {"--config", "--output"} /\ at + 2 <= Len(setup.args)
  /\ options' = IF Argument = "--config" THEN [options EXCEPT !.config = setup.args[at + 2]]
                                         ELSE [options EXCEPT !.output = setup.args[at + 2]]
  /\ at' = at + 2
  /\ UNCHANGED <<setup, values, phase, config, hashed, replaced, published, outputs, exitCode, feedVars>>

\* An option without its path, an unknown argument, no configuration, or none there.
RefuseArguments ==
  /\ phase = "arguments"
  /\ \/ Parsing /\ Argument \in {"--config", "--output"} /\ at + 2 > Len(setup.args)
     \/ Parsing /\ Argument \notin Words
     \/ ~Parsing /\ setup.args # << >> /\ (options.config = None \/ options.config # setup.path)
  /\ Exit(1) /\ UNCHANGED <<at, published, feedVars>>

OpenConfig ==
  /\ phase = "arguments" /\ ~Parsing /\ setup.args # << >> /\ options.config = setup.path
  /\ phase' = "config" /\ at' = 0
  /\ UNCHANGED <<setup, options, values, config, hashed, replaced, published, outputs, exitCode, feedVars>>

-----------------------------------------------------------------------------
Entry     == setup.config[at + 1]
InConfig  == phase = "config" /\ at < Len(setup.config)

\* parse_key_value_file: the keys need not be known.
KeyIsNew == Entry.key # Empty /\ Entry.key \notin DOMAIN values

ReadEntry ==
  /\ InConfig
  /\ \/ Entry.kind = "comment" /\ UNCHANGED values
     \/ /\ Entry.kind = "setting" /\ KeyIsNew
        /\ values' = [key \in DOMAIN values \cup {Entry.key} |->
                        IF key = Entry.key THEN Entry.value ELSE values[key]]
  /\ at' = at + 1
  /\ UNCHANGED <<setup, options, phase, config, hashed, replaced, published, outputs, exitCode, feedVars>>

RefuseEntry ==
  /\ InConfig
  /\ Entry.kind = "bare" \/ (Entry.kind = "setting" /\ ~KeyIsNew)
  /\ Exit(Caught) /\ UNCHANGED <<at, published, feedVars>>

\* load_replay_config judges the configuration, run_replay_from_config_file
\* once more, with the output directory of the command line.
Overridden(c) == [c EXCEPT !.output = IF options.output = None THEN @ ELSE options.output]

Accepted(c) == Parses(Given(values)) /\ Valid(c) /\ Valid(Overridden(c))

Configure ==
  /\ phase = "config"
  /\ at = Len(setup.config) \/ ReadsFail
  /\ \E cast \in NaNCasts :
       LET c == Config(Given(values), cast)
       IN  \/ /\ Accepted(c)
              /\ config' = Overridden(c)
              /\ parser' = [tick |-> c.tick, format |-> c.format]
              /\ phase' = "hash"
              /\ UNCHANGED <<setup, at, options, values, hashed, replaced, published, outputs, exitCode,
                             disk, reading>>
           \/ ~Accepted(c) /\ Exit(Caught) /\ UNCHANGED <<at, published, feedVars>>

-----------------------------------------------------------------------------
\* How much of a file a read gets; that it failed, input.bad() does not tell.
ReadLengths(f) == IF ReadsFail THEN 0..Len(f) ELSE {Len(f)}

\* Seeded error: the book updates are hashed for both.
HashBook(s) == disk["book"]

HashedFile(s) == disk[s]

HashInput(s) ==
  /\ phase = "hash" /\ hashed[s] = NoFile
  /\ s = "trade" => hashed["book"] # NoFile
  /\ \/ /\ disk[s] # NoFile
        /\ \E n \in ReadLengths(HashedFile(s)) : hashed' = [hashed EXCEPT ![s] = SubSeq(HashedFile(s), 1, n)]
        /\ IF s = "trade" THEN phase' = "feed" /\ stage' = "book" ELSE UNCHANGED <<phase, stage>>
        /\ UNCHANGED <<setup, at, options, values, config, replaced, published, outputs, exitCode,
                       disk, parser, text, line, events, merged>>
     \/ disk[s] = NoFile /\ Exit(Caught) /\ UNCHANGED <<at, published, feedVars>>

ReadFeed ==
  /\ phase = "feed"
  /\ Next
  /\ UNCHANGED <<cliVars, phase>>

RefuseFeed == phase = "feed" /\ stage = "refused" /\ Exit(Caught) /\ UNCHANGED <<at, published, feedVars>>

\* The event loop may throw, as ReplayEngine shows.
Replay ==
  /\ phase = "feed" /\ stage = "merged"
  /\ \/ phase' = "write" /\ UNCHANGED <<cliVars, feedVars>>
     \/ Exit(Caught) /\ UNCHANGED <<at, published, feedVars>>

-----------------------------------------------------------------------------
\* Seeded error: whatever is there may go.
MayWriteAnywhere == outputs[config.output] \notin {"not a directory", "no parent"}

\* write_replay_artifacts replaces nothing without --force.
MayWrite ==
  /\ outputs[config.output] \notin {"not a directory", "no parent"}
  /\ outputs[config.output] \in {"artifacts", "files"} => options.force

Publish ==
  /\ phase = "write" /\ MayWrite
  /\ outputs' = [outputs EXCEPT ![config.output] = "published"]
  /\ published' = [hashed |-> hashed, feed |-> merged]
  /\ phase' = "exited" /\ exitCode' = 0
  /\ UNCHANGED <<setup, at, options, values, config, hashed, replaced, feedVars>>

\* A file operation fails, the last one after the old artifacts were removed.
FailToWrite ==
  /\ phase = "write"
  /\ \/ UNCHANGED outputs
     \/ MayWrite /\ outputs' = [outputs EXCEPT ![config.output] = "absent"]
  /\ phase' = "exited" /\ exitCode' = Caught
  /\ UNCHANGED <<setup, at, options, values, config, hashed, replaced, published, feedVars>>

\* Another process replaces an input file; once, and only while it matters.
ReplaceFile(s) ==
  /\ phase \in {"hash", "feed"} /\ hashed[s] # NoFile /\ text[s] = NoFile /\ s \notin replaced
  /\ disk' \in {[disk EXCEPT ![s] = c] : c \in setup.contents}
  /\ replaced' = replaced \cup {s}
  /\ UNCHANGED <<setup, at, options, values, phase, config, hashed, published, outputs, exitCode,
                 parser, reading>>

RunNext ==
  \/ ShowHelp \/ TakeForce \/ TakePath \/ RefuseArguments \/ OpenConfig
  \/ ReadEntry \/ RefuseEntry \/ Configure
  \/ \E s \in Sources : HashInput(s)
  \/ ReadFeed \/ RefuseFeed \/ Replay
  \/ Publish \/ FailToWrite
  \/ \E s \in Sources : ReplaceFile(s)

RunSpec == RunInit /\ [][RunNext]_runVars
-----------------------------------------------------------------------------
\* An argument that the option before it takes as its path: in a row of
\* options that take one, it is every other argument.
IsPath(k) ==
  Cardinality({i \in 1..(k - 1) : \A j \in i..(k - 1) : setup.args[j] \in {"--config", "--output"}}) % 2 = 1

Asked(word) == \E k \in DOMAIN setup.args : setup.args[k] = word /\ ~IsPath(k)

HelpShown ==
  \/ setup.args = << >>
  \/ \E k \in DOMAIN setup.args : setup.args[k] = "--help" /\ ~IsPath(k)
        /\ \A j \in 1..(k - 1) : setup.args[j] \in Words \/ IsPath(j)

\* Lines that set a key, and the value it has by them.
Settings(key) == {k \in DOMAIN setup.config : setup.config[k].kind = "setting" /\ setup.config[k].key = key}

Setting(key) ==
  IF Settings(key) = {} THEN Defaults[key] ELSE setup.config[CHOOSE k \in Settings(key) : TRUE].value

\* The last --output there is; the configuration's without one.
OutputAsked ==
  LET given == {k \in DOMAIN setup.args : IsPath(k) /\ setup.args[k - 1] = "--output"}
  IN  IF given = {} THEN Setting("output_directory")
      ELSE setup.args[CHOOSE k \in given : \A j \in given : j <= k]

(* apps/replay_cli.cpp:64-120 and README.md:63: the exit code is zero      *)
(* exactly if help was shown or the artifacts are in place; only the       *)
(* output that was asked for is ever touched, and what it held only with   *)
(* --force, which a path option must not have taken for its path.          *)
ExitCodeTells ==
  phase = "exited" =>
    /\ exitCode = 0 <=> HelpShown \/ published # None
    /\ published # None => ~HelpShown /\ outputs[OutputAsked] = "published"
    /\ \A d \in DOMAIN outputs : outputs[d] # setup.outputs[d] =>
         /\ d = OutputAsked
         /\ setup.outputs[d] \in {"artifacts", "files"} => Asked("--force")
         /\ outputs[d] = "published" <=> published # None

\* The fields of the configuration that are stored as they are written.
FieldKeys ==
  [tick |-> "tick_size", format |-> "price_format", strategy |-> "strategy_type",
   depth |-> "queue_imbalance_depth_levels", buyAbove |-> "queue_imbalance_buy_threshold",
   sellBelow |-> "queue_imbalance_sell_threshold", qty |-> "strategy_order_quantity",
   type |-> "strategy_order_type", limit |-> "strategy_limit_price_ticks",
   latency |-> "order_latency_ns", cancelAfter |-> "cancel_after_arrival_ns",
   feePpm |-> "fee_rate_ppm", cash |-> "initial_cash", script |-> "scripted_intents"]

(* A configuration that is accepted is the one in the file: each key set   *)
(* once at most, none of the values changed on its way, and the shares it  *)
(* fixes are shares, whichever of the two keys of the queue fraction they  *)
(* come from and whatever number is written there.                         *)
SettingsAsWritten ==
  config # None =>
    LET fraction == Setting("queue_fraction")
    IN  /\ \A k \in DOMAIN setup.config : setup.config[k].kind # "bare"
        /\ Settings(Empty) = {} /\ \A key \in Keys : Cardinality(Settings(key)) <= 1
        /\ \A f \in DOMAIN FieldKeys : config[f] = Setting(FieldKeys[f])
        /\ config.output = OutputAsked /\ Setting("output_directory") # Empty
        /\ config.queuePpm \in 0..PpmUnit /\ config.feePpm \in 0..PpmUnit
        /\ fraction = Empty => config.queuePpm = Setting("queue_fraction_ppm")
        /\ fraction \notin {Empty, NaN} =>
             2 * fraction[2] * config.queuePpm - 2 * fraction[1] * PpmUnit \in (-fraction[2])..fraction[2]

(* docs/replay_engine.md:24: input data are identified by content hashes.  *)
(* What is recorded as replayed was replayed, every row of it, unless the  *)
(* file was replaced after it was hashed; then the hash is of the file     *)
(* that was there before.                                                  *)
InputsIdentified ==
  published # None =>
    \A s \in Sources :
      /\ published.hashed[s] = setup.disk[s]
      /\ s \notin replaced =>
           /\ published.hashed[s] = text[s]
           /\ {published.feed[k].line : k \in {j \in DOMAIN published.feed : published.feed[j].source = s}}
                = Rows(setup.disk[s])
=============================================================================
