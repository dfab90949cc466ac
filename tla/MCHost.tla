------------------------------- MODULE MCHost -------------------------------
(* Command lines of up to MaxOptions options, and a C stack of MaxDepth frames. *)
EXTENDS Host

CONSTANT MaxOptions

MCOption(k, v) == [kind |-> k, value |-> v]

MCOptions == {MCOption("p", "file"), MCOption("p", "missing"), MCOption("f", "add"),
              MCOption("a", "i32:1"), MCOption("a", "i32:2"), MCOption("a", "unknown type"),
              MCOption("a", "no value"), MCOption("?", NULL), MCOption("operand", NULL)}

MCCommands == UNION {[1..n -> MCOptions] : n \in 0..MaxOptions}

MCFunctions == {"main", "parse", "_parse", "init_interpreter", "interpret_function",
                "_interpret_function", "helper"}
=============================================================================
