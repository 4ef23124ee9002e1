----------------------------- MODULE MCDebugger -----------------------------
(***************************************************************************)
(* An instance of Monitor: functions of up to three instructions that      *)
(* end, or do not, in every way there is.                                  *)
(***************************************************************************)
EXTENDS Monitor

MCPrograms ==
    {<<"nop", "ret">>, <<"nop", "again">>, <<"self">>, <<"nop", "self">>,
     <<"bkpt", "ret">>, <<"svc1", "svc0">>, <<"fault">>, <<"nop", "bkpt", "svc0">>}

=============================================================================
