------------------------------ MODULE MCHistory ------------------------------
(* An instance of History for TLC.                                          *)
EXTENDS History

(* "l" starts both commands, "b" none, and "" (a lone "!") starts every line. *)
MCMatches ==
  {<<"l", "ls">>, <<"l", "lsof &">>, <<"lso", "lsof &">>}
    \cup ({""} \X {"ls", "lsof &", "# note", "empty", "garbage"})
=============================================================================
