------------------------------ MODULE MCLsi2c ------------------------------
(* Command lines of Lsi2c on the boards and configurations of MCConfig. *)
EXTENDS Lsi2c, MCConfig

(* What two of the options can ask for, with and without -p and -R. *)
Asks == {{}, {"config"}, {"remove", "initialize"}, {"remove"}, {"initialize"},
         {"tune"}, {"probe"}, {"print"}, {"print", "tune"},
         {"funcs"}, {"probe", "funcs"}, {"tune", "probe"}}
TheOptions ==
  [file : {"default", "dash", "named"}, kmod : {FALSE}, asked : Asks,
   path : {{}, {behind}}, rescans : {0, 2}]
    \cup [file : {"dash"}, kmod : {TRUE}, asked : {{"print"}}, path : {{}}, rescans : {1}]
==============================================================================
