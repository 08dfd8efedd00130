----------------------------- MODULE MCCharMap -----------------------------
(* One account with a character, on one or two map servers.                 *)
EXTENDS CharMap, TLC

CONSTANTS a1, noacc

MCAccounts == {a1}
MCCharsOf  == [a \in {a1} |-> {1}]
MCMaps     == {0, 1}
MCOneMap   == {0}
MCFds      == {1}
MCTids     == {0}
MCLoginIds == 1..3

\* What is told to the login server, or written to a link that broke, is read
\* nowhere.
MCView == <<char_online, char_auth, char_timers, sess, login_fd, map_fd,
            [m \in Maps |-> IF map_fd[m] THEN toMap[m] ELSE <<>>], map_vars>>
=============================================================================
