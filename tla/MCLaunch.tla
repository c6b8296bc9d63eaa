------------------------------ MODULE MCLaunch ------------------------------
(* Launch for TLC: a day of three minutes, work hours by day and by night, and *)
(* blocklists with wildcards at the ends, in the middle and twice.            *)
EXTENDS Launch

ByDay == [hours |-> [days |-> {0, 1}, start |-> 0, end |-> 1],
          titles |-> {<<"*", "a">>, <<"a", "b", "*", "*">>}]
ByNight == [hours |-> [days |-> {0}, start |-> 2, end |-> 0],
            titles |-> {<<"a", "*", "b">>, <<"b">>}]
MCHands == {ByDay, ByNight}
MCTitles == {<<"a", "a", "b">>, <<"a", "b", "b", "a">>, <<>>}
=============================================================================
