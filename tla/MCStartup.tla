----------------------------- MODULE MCStartup ------------------------------
(***************************************************************************)
(* The instance of Startup for TLC: a word that is one number to the       *)
(* environment and another to a flag, a file that sets the option, a file  *)
(* called config that sets it to none, and a word that begins with config= *)
(***************************************************************************)
EXTENDS StartupProperties

SomeWords       == {"010", "f1", "config", "config=x"}
SomeConfigWords == {"config=x"}
SomeEnvWords    == {"010", "f1"}
SomeEnvInts     == [w \in {"010"} |-> 10]
SomeFlagInts    == [w \in {"010"} |-> 8]
SomeReadable    == {"f1", "config"}
SomeFileInts    == [f \in {"f1", "config"} |-> IF f = "f1" THEN 3 ELSE 0]
=============================================================================
