------------------------------ MODULE MCReplay ------------------------------
(***************************************************************************)
(* An instance of Replay for TLC: an agent that loops or not, one with an  *)
(* irreversible tool and one with two threads.                             *)
(***************************************************************************)
EXTENDS Replay, TLC

CONSTANTS main, aux, loop, mail

MCPrograms ==
    {main :> m @@ aux :> << >> : m \in {<<loop>>, <<loop, loop>>, <<loop, mail>>}}
        \cup {main :> <<loop>> @@ aux :> <<loop>>}

ShortAnswer == {"content"}
LongAnswer == {"content", "refusal"}
Error == {"error"}
MCAnswers == {ShortAnswer, LongAnswer, Error}
MCTokens == ShortAnswer :> 1 @@ LongAnswer :> 2 @@ Error :> 0
=============================================================================
