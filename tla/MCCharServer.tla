---------------------------- MODULE MCCharServer ----------------------------
(* One account with two characters, two map servers, two sessions. *)
EXTENDS CharServer, TLC

CONSTANTS a1, noacc

MCOneAccount  == {a1}
MCTwoCharsOf  == [a \in {a1} |-> {1, 2}]
MCMaps        == {0, 1}
MCFds         == {1, 2}
MCTids        == {0, 1}
MCOneLoginId  == {1}

\* The server writes to toLogin and toMap and never reads them.
MCView == <<char_online, char_auth, char_timers, sess, login_fd, map_fd>>
=============================================================================
