------------------------------ MODULE MCServer ------------------------------
(* Small instances of Server for TLC. *)
EXTENDS Server

CONSTANTS r1, r2, r3, t1, t2, u1, u2

Pair(token, user) == [colon |-> TRUE, token |-> token, user |-> user]
NoColon(text) == [colon |-> FALSE, token |-> text, user |-> Blank]

(* No setting; one of blanks; two users; a token twice; two tokens of one  *)
(* user and a trailing comma; a part without a colon; one without a user;  *)
(* one without a token.                                                    *)
MCSettings ==
  {<<>>, <<NoColon(Blank)>>, <<Pair(t1, u1), Pair(t2, u2)>>,
   <<Pair(t1, u1), Pair(t1, u2)>>, <<Pair(t1, u1), Pair(t2, u1), NoColon(Blank)>>,
   <<Pair(t1, u1), NoColon(t2)>>, <<Pair(t1, Blank)>>, <<Pair(t1, u1), Pair(Blank, u2)>>}
=============================================================================
