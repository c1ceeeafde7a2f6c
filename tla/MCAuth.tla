------------------------------- MODULE MCAuth -------------------------------
EXTENDS Auth

CONSTANTS u1, u2, t1, t2, t3

(* No file lines, one line, a token rebound by a later line, two users,  *)
(* a trailing blank line, and a line with only a user; t3 is in no file. *)
MCConfs == {<<>>, <<<<u1, t1>>>>, <<<<u1, t1>>, <<u2, t1>>>>, <<<<u1, t1>>, <<u2, t2>>>>,
            <<<<u1, t1>>, <<>>>>, <<<<u2>>, <<u1, t1>>>>}
=============================================================================
