--------------------------- MODULE MCRuntimeCall ----------------------------
(* Instances of RuntimeCall for TLC.                                       *)
EXTENDS RuntimeCall

(* One pair for each way a call differs: a schema file and a strict        *)
(* cleanup, an answer that does not wait for the pipes, no directory and   *)
(* no input.                                                               *)
MCAsked == {<<"codex", "assess">>, <<"opencode", "report">>, <<"claude", "probe">>}
=============================================================================
