----------------------------- MODULE MCPipeline -----------------------------
(* Instances of Pipeline for TLC.                                          *)
EXTENDS Pipeline

(* One to three stages, with and without a file; a bar at either end, and  *)
(* a redirection that is not at the end.                                   *)
SomeLines ==
  { <<"a">>, <<"a", "x">>, <<"a", ">", "f">>, <<"a", "|", "b">>,
    <<"a", "x", "|", "b", "y", ">", "f">>, <<"a", "|", "b", "|", "c", "z">>,
    <<"a", "|", "b", "|", "c", ">", "f">>,
    <<"a", "|">>, <<"|", "b">>, <<"a", ">", "f", "|", "b">>, <<"a", ">">> }
=============================================================================
