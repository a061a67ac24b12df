-------------------------- MODULE MCProcessSandbox --------------------------
(* Two capability sets: a reader with scratch space, and a confined writer *)
(* with the network, whose descriptor exceeds the pipe.                    *)
EXTENDS ProcessSandbox

Reader ==
  [filesystem |-> [read_only |-> TRUE, temp |-> TRUE, subpaths |-> FALSE],
   network |-> [mode |-> "disabled", destinations |-> {}, bind |-> FALSE, unix |-> FALSE],
   resources |-> [required |-> {"memory"}], payload |-> 1]

Writer ==
  [filesystem |-> [read_only |-> FALSE, temp |-> FALSE, subpaths |-> TRUE],
   network |-> [mode |-> "allowlist", destinations |-> {<<"h1", 1>>}, bind |-> FALSE, unix |-> FALSE],
   resources |-> [required |-> {}], payload |-> 2]

MCCapabilities == {Reader, Writer}
=============================================================================
