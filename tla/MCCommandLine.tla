--------------------------- MODULE MCCommandLine ---------------------------
(* Two workers, of which the first may fill its pipe, and one fork.         *)
EXTENDS CommandLine

MCArgForks == <<>>
MCPaths == <<"prometheus">>
=============================================================================
