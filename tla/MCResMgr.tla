------------------------------ MODULE MCResMgr ------------------------------
(* Model checking of the resource manager: the messages of the clients.    *)
EXTENDS ResMgr, TLC

CONSTANT a     \* a unit of data

\* One message for each command and each answer, and one that a recv of two
\* units cuts in two portions, each answered for itself.
EveryCommand ==
  { <<"READ">>, <<"WRITE", a>>, <<"INFO">>, <<"CLEAR">>, <<"other">>, <<"WRITE", a, a>>,
    <<"SETPERM", "ro">>, <<"SETPERM", "wo">>, <<"SETPERM", "other">> }

\* Three units are received at once: the messages come whole, joined or cut.
FewCommands ==
  { <<"READ">>, <<"CLEAR">>, <<"SETPERM", "wo">>, <<"WRITE", a, a>> }

ReadAndWrite == { <<"READ">>, <<"WRITE", a>> }

ClientSymmetry == Permutations(Clients)
=============================================================================
