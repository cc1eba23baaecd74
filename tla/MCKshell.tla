------------------------------ MODULE MCKshell ------------------------------
(***************************************************************************)
(* A table of one command of each sort.                                    *)
(***************************************************************************)
EXTENDS Kshell

MCCommands == << [name |-> <<"l">>, does |-> "exit"],
                 [name |-> <<>>,    does |-> "return"],
                 [name |-> <<"1">>, does |-> "reboot"] >>
=============================================================================
