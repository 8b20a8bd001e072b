------------------------------ MODULE MCLang3 ------------------------------
(***************************************************************************)
(* Command lines of at most MaxArguments arguments for Lang3.              *)
(***************************************************************************)
EXTENDS Lang3

CONSTANT MaxArguments

MCNames ==
  {"d", "O", "o", "x", "h", "help", "debug", "optimize", "output", "debug-lexer",
   "debug-parser", "debug-ast", "debug-vm", "debug-bytecode", "timings",
   "debug-ast-graph", "file", "missing"}

\* The options of main, and one that has both names.
MCOptions == CliOptions \o <<Both("o", "output")>>

Arg(form, names, inline) == [form |-> form, names |-> names, inline |-> inline]
Text(name) == Arg("text", <<name>>, <<>>)
Dashes(name) == Arg("long", <<name>>, <<>>)
Equals(name, value) == Arg("long", <<name>>, <<value>>)
Letters(letters) == Arg("short", letters, <<>>)

MCArguments ==
  {Text("file"), Text("missing"), Arg("dash", <<>>, <<>>), Arg("separator", <<>>, <<>>),
   Letters(<<"d">>), Letters(<<"O">>), Letters(<<"d", "O">>), Letters(<<"O", "x">>),
   Letters(<<"o">>), Letters(<<"h">>),
   Dashes("debug-lexer"), Dashes("debug-ast"), Dashes("debug-vm"), Dashes("debug-bytecode"), Dashes("output"),
   Dashes("debug-ast-graph"), Dashes("x"), Dashes("help"),
   Equals("debug-ast-graph", Text("file")), Equals("debug-ast", Text("file"))}

MCCommandLines == UNION {[1 .. n -> MCArguments] : n \in 0 .. MaxArguments}

MCMissing == {Text("missing")}
=============================================================================
