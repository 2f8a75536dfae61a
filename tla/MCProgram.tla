----------------------------- MODULE MCProgram -----------------------------
(***************************************************************************)
(* For TLC: one executable file, with a name of one letter, and the lines  *)
(* that are typed.                                                         *)
(***************************************************************************)
EXTENDS Program

MCPrograms == {<<"a">>}

(* Every line of up to two characters, those of three that begin with the  *)
(* name, and some longer ones.                                             *)
MCCommands ==
    UNION {[1 .. n -> {"a", " ", "nl"}] : n \in 0 .. 2} \cup
        {<<"a", ch, last>> : ch, last \in {"a", " ", "nl"}} \cup
        {<<"a", " ", "a", "a">>, <<"a", " ", "a", "nl">>, <<"a", " ", "nl", "a">>,
         <<"a", " ", " ", "a", "nl">>}
=============================================================================
