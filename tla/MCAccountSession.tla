-------------------------- MODULE MCAccountSession --------------------------
(* Two accounts that share two sockets, a char server and a map server. *)
EXTENDS AccountSession, TLC

CONSTANTS a1, a2, g, nomac, noacc

MCAccounts   == {a1, a2}
MCOneAccount == {a1}
MCNoMacs     == {}
MCServers    == {0}
MCTids       == {0, 1}
MCOneTid     == {0}

MCLoginIds   == {1, 2}
MCOneLoginId == {1}
MCCharsOf    == [a \in MCAccounts |-> IF a = a1 THEN {1} ELSE {2}]
MCOneCharOf  == [a \in {a1} |-> {1}]
MCMaps       == {0}
MCFds        == {1, 2}
MCOneFd      == {1}
MCSymmetry   == Permutations(MCAccounts)

\* The map servers' packets are written here and read nowhere.
MCView == <<login_vars, char_online, char_auth, char_timers, sess, login_fd,
            map_fd, toLogin, playing>>
=============================================================================
