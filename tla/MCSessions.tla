------------------------------ MODULE MCSessions ------------------------------
(* An instance of Sessions for TLC: comments 1 and 3 mention the bot, and  *)
(* comment 3 is an answer to a permission question too.                    *)
EXTENDS Sessions

SomeMentions == {1, 3}
SomeAnswers == {3}
==============================================================================
