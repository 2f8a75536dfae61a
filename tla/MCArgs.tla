------------------------------- MODULE MCArgs -------------------------------
(***************************************************************************)
(* For TLC: one executable file, with a name of one letter, and the lines  *)
(* that are typed.                                                         *)
(***************************************************************************)
EXTENDS Args

MCPrograms == {<<"a">>}

(* Every line of up to three characters, and some longer ones.             *)
MCCommands ==
    UNION {[1 .. n -> {"a", " ", "nl"}] : n \in 0 .. 3} \cup
        {<<"a", " ", "a", "a">>, <<"a", " ", "a", "nl">>, <<"a", " ", "nl", "a">>,
         <<"a", " ", " ", "a", "nl">>}
=============================================================================
