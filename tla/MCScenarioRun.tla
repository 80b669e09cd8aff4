--------------------------- MODULE MCScenarioRun ---------------------------
(* TLC instance of ScenarioRun: one worker and two phases.                 *)
EXTENDS ScenarioRun

Do(type, count, name) == [type |-> type, count |-> count, name |-> name]

CONSTANTS login, query

\* A Ping and a burst of two messages, repeated; then a single message of
\* another name, a Wait and the end of the session.
MCScripts ==
  << <<Do("Ping", 0, NoAction), Do("Send", 2, login)>>,
     <<Do("Send", 1, query), Do("Wait", 0, NoAction), Do("Close", 0, NoAction)>> >>
============================================================================
