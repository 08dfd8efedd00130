--------------------------- MODULE MCLoginServer ---------------------------
(* Two players who may share a MAC address or hide theirs; two char servers. *)
EXTENDS LoginServer

CONSTANTS a1, a2, g, m1, nomac, noacc

MCAccounts == {a1, a2}
MCServers  == {0, 1}
MCOneMac     == {m1}
MCTids     == {0, 1}

\* The server writes to toChar and never reads it: what waits there cannot
\* change what it does next.
MCView == <<login_up, login_online, login_auth, login_timers, mac_online, server,
            last_login, acked>>
=============================================================================
