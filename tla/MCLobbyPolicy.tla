---------------------------- MODULE MCLobbyPolicy ----------------------------
(* Module LobbyPolicy on small rooms. Timeouts are in ticks of the watcher *)
(* and a timeout must be exceeded, so ages up to 2 tell everything apart.  *)
EXTENDS LobbyPolicy

Both == [timeout |-> 1, admintimeout |-> 1, grace |-> 2, restarts |-> TRUE]

(* Both timeouts on; only one of them; no restarts (maxfails 0).           *)
MCOptions == {Both,
              [Both EXCEPT !.admintimeout = 0, !.grace = 0],
              [Both EXCEPT !.timeout = 0, !.restarts = FALSE]}

(* The comment of watch.go:66 taken at its word: players in the lobby are  *)
(* not kicked from it unless forced (a passed admin timeout apart).        *)
IdleNotKicked ==
  [][WatcherActs /\ reg.joins # {} => watch.force \/ watch.reason = "admintimeout"]_vars
=============================================================================
