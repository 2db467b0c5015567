----------------------------- MODULE MCStartup ------------------------------
(* Startup for one topic and small sets of configurations. *)
EXTENDS Startup

(* A topic whose own name ends like that of a partition's directory. *)
a1 == <<"a", "-", "1">>

MCChars == {"a", "c", "_", "-"} \cup DigitChars
MCOffsetsTopic == <<"_", "c">>
MCPartitions == {TopicPartition(a1, 0), TopicPartition(a1, 10)}
MCUnreadable == {TopicPartition(a1, 10)}

(* No hyphen, no topic, and a number that is not an int32. *)
MCForeign == {<<"a">>, <<"-", "0">>, <<"a", "-", "9", "9">>}

Line(key, shape, text) == [key |-> key, shape |-> shape, text |-> text]

Lines ==
    {Line("port", "quoted, commented", Int10(9092)), Line("unknown", "plain", Empty),
     Line("log_directory", "commented", Word(1)), Line("log_directory", "quoted", Word(0)),
     Line("log_retention", "plain", Int10(0))}

MCFiles == {<<>>} \cup {<<l>> : l \in Lines} \cup {<<l, m>> : l, m \in Lines}

Var(key, text) == [NoEnv EXCEPT ![key] = text]

MCEnvs ==
    {NoEnv, Var("log_retention", Duration(168)),
     [Var("log_directory", Word(1)) EXCEPT !["log_retention"] = Duration(0)],
     [Var("port", Int10(65536)) EXCEPT !["log_directory"] = Word(1)],
     [Var("worker_pool_size", Word(5)) EXCEPT !["log_retention"] = Duration(-1)]}
=============================================================================
