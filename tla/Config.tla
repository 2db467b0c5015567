------------------------------- MODULE Config -------------------------------
(***************************************************************************)
(* Configuration (internal/config/config.go): the defaults, the lines of   *)
(* kage.yaml applied in order, then the KAGE_* variables.  A text is       *)
(* reduced to what the parsers tell apart: its kind and its number.        *)
(***************************************************************************)
EXTENDS Integers, Sequences

CONSTANTS
    MaxPort,      \* 65535
    MaxSegment,   \* 1 << 40
    MaxPool       \* 1 << 20

ASSUME ConfigAssumption ==
    /\ MaxPort \in Nat /\ MaxPort >= 9092   \* the default port
    /\ MaxSegment \in Nat \ {0} /\ MaxPool \in Nat \ {0}

(* "raw" is a text that is still in its quotes. *)
Text == [kind: {"empty", "int", "duration", "word", "raw"}, n: Int]
Empty == [kind |-> "empty", n |-> 0]
Int10(n) == [kind |-> "int", n |-> n]
Duration(n) == [kind |-> "duration", n |-> n]
Word(n) == [kind |-> "word", n |-> n]

IntFields ==
    [port |-> MaxPort, max_segment_size |-> MaxSegment, worker_pool_size |-> MaxPool]
DurationFields == {"shutdown_timeout", "log_retention"}
Fields == DOMAIN IntFields \cup DurationFields \cup {"log_directory"}

(* Durations are in hours. *)
defaults ==
    [port |-> Int10(9092), log_directory |-> Word(0), max_segment_size |-> Int10(1024),
     worker_pool_size |-> Int10(10000), shutdown_timeout |-> Duration(0),
     log_retention |-> Duration(168)]

(* The value that parseYAML takes from the text of a line: quotes are      *)
(* looked for at both ends before a trailing comment is cut off, so that   *)
(* quotes before a comment stay.                                           *)
Shapes == {"plain", "quoted", "commented", "quoted, commented"}
Stripped(shape, text) ==
    IF shape = "quoted, commented" THEN [text EXCEPT !.kind = "raw"] ELSE text

parseInt(text, max) == text.kind = "int" /\ text.n \in 1..max

(* time.ParseDuration takes a number without a unit only when it is 0. *)
ParseDuration(text) ==
    text.kind = "duration" \/ text = Int10(0)

(* applyField accepts the text; an unknown key is ignored. *)
Accepted(key, text) ==
    /\ key \in DOMAIN IntFields => parseInt(text, IntFields[key])
    /\ key \in DurationFields => ParseDuration(text) /\ text.n >= 0
    /\ key = "log_directory" => text # Empty

applyField(cfg, key, text) ==
    IF key \in Fields THEN [cfg EXCEPT ![key] = text] ELSE cfg

(* Blank lines and comments are left out. *)
ConfigLine == [key: STRING, shape: Shapes, text: Text]
Value(line) == Stripped(line.shape, line.text)

(* parseYAML over the defaults, when every line is accepted. *)
FileConfig(file) ==
    LET after[i \in 0..Len(file)] ==
            IF i = 0 THEN defaults
            ELSE applyField(after[i - 1], file[i].key, Value(file[i]))
    IN  after[Len(file)]

FileAccepted(file) == \A i \in 1..Len(file) : Accepted(file[i].key, Value(file[i]))

(* The variables that applyEnv does not skip. *)
Set(env) == {key \in Fields : env[key] # Empty}

validate(cfg) ==
    /\ cfg.port.n \in 1..MaxPort
    /\ cfg.log_directory # Empty
    /\ cfg.max_segment_size.n >= 1 /\ cfg.worker_pool_size.n >= 1
    /\ cfg.shutdown_timeout.n >= 0
=============================================================================
