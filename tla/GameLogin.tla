------------------------------ MODULE GameLogin ------------------------------
(***************************************************************************)
(* The login of the game demo (example/game_demo.cpp) across its four       *)
(* contexts: ws_server (one coroutine per connection), gate, world, game.   *)
(* Contexts talk by dispatch and by ctx_call_name.  wait_msg_spawn starts   *)
(* every message it pops as a task of its own, so messages to one context   *)
(* are handled in any order: an inbox is a set.  Between two awaits a       *)
(* handler runs alone in its context (CtxExec).                             *)
(*                                                                         *)
(* Left out: what is written back to clients, and their messages other      *)
(* than Login, which only reach the scenes of the game.                     *)
(***************************************************************************)
EXTENDS Naturals, GamePlayers

CONSTANTS
  MaxLogins,  \* bound on the Login messages of one connection
  Repeaters   \* the connections whose client sends more than one Login

\* gate_t::player.  sign is the number of the last Login that was looked at.
Player == [login : BOOLEAN, sign : Nat]

ASSUME LoginAssumption ==
  MaxLogins \in Nat /\ None \notin Player

Tries == 1..MaxLogins      \* a Login message is known by its sequence number

VARIABLES
  wpc,         \* co_ws_handle of each connection: next step
  conns,       \* ws_server_t::conns
  closing,     \* connections the server has closed
  lpc, lname,  \* each Login message: where it is, the name it carries
  gstart, gstop, gkick,   \* gate's inbox: ws_start, ws_stop, close
  wsclose, wclose, gclose,  \* inboxes of ws_server, world, game: close
  players,     \* gate_t::players: login flag and send_sign
  logins,      \* world_t::logins: name by connection
  name2conid,  \* world_t::name2conid
  overtaken    \* history: connections whose stop overtook their start or a login

ws    == <<wpc, conns, closing>>
inbox == <<gstart, gstop, gkick, wsclose, wclose, gclose>>
world == <<logins, name2conid>>
vars  == <<ws, lpc, lname, inbox, players, world, game, overtaken>>

\* unsent; queued at the gate; world: player_login called; back: answered;
\* game: add_player called; done; refused by the gate.
LoginPcs == {"unsent", "queued", "world", "back", "game", "done", "refused"}

\* A call of the login chain is under way.
InFlight == {"world", "back", "game"}

Init ==
  /\ wpc = [c \in Conns |-> "new"] /\ conns = {} /\ closing = {}
  /\ lpc = [c \in Conns |-> [k \in Tries |-> "unsent"]]
  /\ lname = [c \in Conns |-> [k \in Tries |-> None]]
  /\ gstart = {} /\ gstop = {} /\ gkick = {}
  /\ wsclose = {} /\ wclose = {} /\ gclose = {}
  /\ players = [c \in Conns |-> None]
  /\ logins = [c \in Conns |-> None] /\ name2conid = [n \in Names |-> None]
  /\ GameInit
  /\ overtaken = {}

GotoWs(c, label) == wpc' = [wpc EXCEPT ![c] = label]
GotoLogin(c, k, label) == lpc' = [lpc EXCEPT ![c][k] = label]

-----------------------------------------------------------------------------
(* ws_server: co_ws_handle *)

\* The connection has its id and enters the map of connections.  The Lazy that
\* lock.coLock() returns is never awaited: no lock is taken.
ConnInsert(c) ==
  /\ wpc[c] = "new" /\ GotoWs(c, "inserting")
  /\ UNCHANGED <<conns, closing, lpc, lname, inbox, players, world, game, overtaken>>

\* It is in the map; pub_conn_start.
ConnStart(c) ==
  /\ wpc[c] = "inserting" /\ GotoWs(c, "open")
  /\ conns' = conns \cup {c}
  /\ gstart' = gstart \cup {c}
  /\ UNCHANGED <<closing, lpc, lname, gstop, gkick, wsclose, wclose, gclose,
                 players, world, game, overtaken>>

\* co_conn_read: the client sends its next Login; pub_conn_read.
ClientLogin(c, k, n) ==
  /\ wpc[c] = "open" /\ lpc[c][k] = "unsent" /\ (k > 1 => c \in Repeaters)
  /\ \A j \in 1..(k - 1) : lpc[c][j] # "unsent"
  /\ GotoLogin(c, k, "queued")
  /\ lname' = [lname EXCEPT ![c][k] = n]
  /\ UNCHANGED <<ws, inbox, players, world, game, overtaken>>

\* The read loop ends; pub_conn_stop, then the entry is erased.
ConnStop(c) ==
  /\ wpc[c] = "open" /\ GotoWs(c, "erasing")
  /\ gstop' = gstop \cup {c}
  /\ UNCHANGED <<conns, closing, lpc, lname, gstart, gkick, wsclose, wclose,
                 gclose, players, world, game, overtaken>>

ConnErase(c) ==
  /\ wpc[c] = "erasing" /\ GotoWs(c, "closed")
  /\ conns' = conns \ {c}
  /\ UNCHANGED <<closing, lpc, lname, inbox, players, world, game, overtaken>>

\* on_msg, close: the socket of a connection that is still there is closed.
WsClose(c) ==
  /\ c \in wsclose /\ wsclose' = wsclose \ {c}
  /\ closing' = IF c \in conns THEN closing \cup {c} ELSE closing
  /\ UNCHANGED <<wpc, conns, lpc, lname, gstart, gstop, gkick, wclose, gclose,
                 players, world, game, overtaken>>

-----------------------------------------------------------------------------
(* gate *)

GateStart(c) ==
  /\ c \in gstart /\ gstart' = gstart \ {c}
  /\ players' = [players EXCEPT ![c] = [login |-> FALSE, sign |-> 0]]
  /\ UNCHANGED <<ws, lpc, lname, gstop, gkick, wsclose, wclose, gclose, world,
                 game, overtaken>>

\* Variant: the game is not told.
GateStopWorldOnly(c) ==
  /\ c \in gstop /\ gstop' = gstop \ {c}
  /\ wclose' = wclose \cup {c}
  /\ players' = [players EXCEPT ![c] = None]
  /\ overtaken' = IF c \in gstart \/ \E k \in Tries : lpc[c][k] \in InFlight
                  THEN overtaken \cup {c} ELSE overtaken
  /\ UNCHANGED <<ws, lpc, lname, gstart, gkick, wsclose, gclose, world, game>>

GateStop(c) ==
  /\ c \in gstop /\ gstop' = gstop \ {c}
  /\ wclose' = wclose \cup {c} /\ gclose' = gclose \cup {c}
  /\ players' = [players EXCEPT ![c] = None]
  /\ overtaken' = IF c \in gstart \/ \E k \in Tries : lpc[c][k] \in InFlight
                  THEN overtaken \cup {c} ELSE overtaken
  /\ UNCHANGED <<ws, lpc, lname, gstart, gkick, wsclose, world, game>>

\* Variant: the kicked player is erased at once.
GateKickErases(c) ==
  /\ c \in gkick /\ gkick' = gkick \ {c}
  /\ players' = [players EXCEPT ![c] = None]
  /\ UNCHANGED <<ws, lpc, lname, gstart, gstop, wsclose, wclose, gclose,
                 world, game, overtaken>>

\* on_msg has no branch for close: world's request to kick is dropped.
GateKick(c) ==
  /\ c \in gkick /\ gkick' = gkick \ {c}
  /\ UNCHANGED <<ws, lpc, lname, gstart, gstop, wsclose, wclose, gclose,
                 players, world, game, overtaken>>

\* close_con: ask ws_server to close a connection the gate knows.
CloseCon(c) ==
  wsclose' = IF players[c] # None THEN wsclose \cup {c} ELSE wsclose

\* co_login of an unknown connection (players.at throws) or of one that is
\* logged in already.
LoginIgnored(c, k) ==
  /\ lpc[c][k] = "queued"
  /\ players[c] # None => players[c].login
  /\ GotoLogin(c, k, "refused")
  /\ UNCHANGED <<ws, lname, inbox, players, world, game, overtaken>>

\* A message that does not decode: the exception handler of on_conn_msg.
LoginMalformed(c, k) ==
  /\ lpc[c][k] = "queued"
  /\ GotoLogin(c, k, "refused")
  /\ CloseCon(c)
  /\ UNCHANGED <<ws, lname, gstart, gstop, gkick, wclose, gclose, players, world,
                 game, overtaken>>

\* A wrong sequence number, or a right one and a wrong version.
LoginRefused(c, k) ==
  /\ lpc[c][k] = "queued" /\ players[c] # None /\ ~players[c].login
  /\ players' = [players EXCEPT ![c].sign = @ + 1]
  /\ GotoLogin(c, k, "refused")
  /\ CloseCon(c)
  /\ UNCHANGED <<ws, lname, gstart, gstop, gkick, wclose, gclose, world, game,
                 overtaken>>

\* The right sequence number: ctx_call_name of world's player_login.
LoginCallWorld(c, k) ==
  /\ lpc[c][k] = "queued" /\ players[c] # None /\ ~players[c].login
  /\ players[c].sign + 1 = k
  /\ players' = [players EXCEPT ![c].sign = @ + 1]
  /\ GotoLogin(c, k, "world")
  /\ UNCHANGED <<ws, lname, inbox, world, game, overtaken>>

\* What p.login = true may write to when p was erased meanwhile: freed memory,
\* by now perhaps the entry of another player.
StrayLogin == {players} \cup
  {[players EXCEPT ![d].login = TRUE] : d \in {e \in Conns : players[e] # None}}

\* The answer is OK: p.login = true through a reference taken before the call,
\* then game's add_player.  (world answers otherwise only out of memory.)
LoginAnswered(c, k) ==
  /\ lpc[c][k] = "back"
  /\ IF players[c] # None THEN players' = [players EXCEPT ![c].login = TRUE]
                          ELSE players' \in StrayLogin
  /\ GotoLogin(c, k, "game")
  /\ UNCHANGED <<ws, lname, inbox, world, game, overtaken>>

-----------------------------------------------------------------------------
(* world *)

\* rpc_player_login: the newer login takes the name, the gate is to kick the
\* older one.
PlayerLogin(c, k) ==
  LET n == lname[c][k] IN
  /\ lpc[c][k] = "world"
  /\ gkick' = IF name2conid[n] = None THEN gkick ELSE gkick \cup {name2conid[n]}
  /\ name2conid' = [name2conid EXCEPT ![n] = c]
  /\ logins' = [logins EXCEPT ![c] = n]
  /\ GotoLogin(c, k, "back")
  /\ UNCHANGED <<ws, lname, gstart, gstop, wsclose, wclose, gclose, players,
                 game, overtaken>>

\* Variant: the name keeps leading to the connection.
WorldCloseKeepsName(c) ==
  /\ c \in wclose /\ wclose' = wclose \ {c}
  /\ logins' = [logins EXCEPT ![c] = None]
  /\ UNCHANGED <<ws, lpc, lname, gstart, gstop, gkick, wsclose, gclose, players,
                 name2conid, game, overtaken>>

\* on_msg, close.
WorldClose(c) ==
  /\ c \in wclose /\ wclose' = wclose \ {c}
  /\ name2conid' = [n \in Names |-> IF n = logins[c] THEN None ELSE name2conid[n]]
  /\ logins' = [logins EXCEPT ![c] = None]
  /\ UNCHANGED <<ws, lpc, lname, gstart, gstop, gkick, wsclose, gclose, players,
                 game, overtaken>>

-----------------------------------------------------------------------------
(* game *)

\* rpc_add_player
AddPlayer(c, k) ==
  /\ lpc[c][k] = "game"
  /\ RpcAddPlayer(c, lname[c][k])
  /\ GotoLogin(c, k, "done")
  /\ UNCHANGED <<ws, lname, inbox, players, world, overtaken>>

\* on_msg, close.
GameClose(c) ==
  /\ c \in gclose /\ gclose' = gclose \ {c}
  /\ ClosePlayer(c)
  /\ UNCHANGED <<ws, lpc, lname, gstart, gstop, gkick, wsclose, wclose, players,
                 world, overtaken>>

-----------------------------------------------------------------------------

GateStep ==
  \/ \E c \in Conns : GateStart(c) \/ GateStop(c) \/ GateKick(c)
  \/ \E c \in Conns, k \in Tries :
       LoginIgnored(c, k) \/ LoginCallWorld(c, k) \/ LoginAnswered(c, k)

ServerStep ==
  \/ GateStep
  \/ \E c \in Conns :
       ConnStart(c) \/ ConnErase(c) \/ WsClose(c) \/ WorldClose(c) \/ GameClose(c)
  \/ \E c \in Conns, k \in Tries : PlayerLogin(c, k) \/ AddPlayer(c, k)

\* Login messages the gate does not like.
BadLogin(c, k) == LoginMalformed(c, k) \/ LoginRefused(c, k)

Finished ==
  /\ \A c \in Conns : wpc[c] = "closed"
  /\ \A c \in Conns, k \in Tries : lpc[c][k] \in {"unsent", "done", "refused"}
  /\ \A q \in {gstart, gstop, gkick, wsclose, wclose, gclose} : q = {}
  /\ UNCHANGED vars

Next ==
  \/ ServerStep
  \/ \E c \in Conns : ConnInsert(c) \/ ConnStop(c)
  \/ \E c \in Conns, k \in Tries : BadLogin(c, k)
  \/ \E c \in Conns, k \in Tries, n \in Names : ClientLogin(c, k, n)
  \/ Finished

\* Tasks are executed, and a socket that was closed ends its read loop.
\* Clients are free to do nothing.
Fairness ==
  /\ WF_vars(ServerStep)
  /\ \A c \in Conns : WF_vars(c \in closing /\ ConnStop(c))

Spec == Init /\ [][Next]_vars
FairSpec == Spec /\ Fairness

-----------------------------------------------------------------------------
(* Properties *)

\* Every variable keeps its type.
TypeOK ==
  /\ wpc \in [Conns -> {"new", "inserting", "open", "erasing", "closed"}]
  /\ conns \subseteq Conns /\ closing \subseteq Conns
  /\ lpc \in [Conns -> [Tries -> LoginPcs]]
  /\ lname \in [Conns -> [Tries -> Names \cup {None}]]
  /\ \A q \in {gstart, gstop, gkick, wsclose, wclose, gclose} : q \subseteq Conns
  /\ players \in [Conns -> Player \cup {None}]
  /\ logins \in [Conns -> Names \cup {None}]
  /\ name2conid \in [Names -> Conns \cup {None}]
  /\ GameTypeOK
  /\ overtaken \subseteq Conns

\* Logins of one connection that came past the gate.
Accepted(c) == {k \in Tries : lpc[c][k] \in InFlight \cup {"done"}}

\* c got in under n and, with a second Login while the first was in flight, under
\* another name too.
Renamed(c, n) ==
  \E j, k \in Accepted(c) : lname[c][j] = n /\ lname[c][k] # n

\* The maps by name in world and in game lead to a connection that is logged in
\* and plays under that name, in every order of takeovers and closes, unless
\* that connection got in under another name as well.
NameHasLogin ==
  \A n \in Names, c \in Conns :
    /\ name2conid[n] = c => logins[c] = n \/ Renamed(c, n)
    /\ name2id[n] = c => gplayers[c] = n \/ Renamed(c, n)

\* When nothing about a closed connection is under way any more, no map of gate,
\* world or game mentions it, with two exceptions: its stop was handled before its
\* start or during a login, or it got in under two names, where a close takes one
\* of them along and the other one stays.
NoGhost ==
  \A c \in Conns :
    /\ wpc[c] = "closed" /\ c \notin overtaken
    /\ c \notin gstart \cup gstop \cup wclose \cup gclose
    /\ \A k \in Tries : lpc[c][k] \in {"unsent", "done", "refused"}
    => /\ players[c] = None /\ logins[c] = None /\ gplayers[c] = None
       /\ \A n \in Names : c \in {name2conid[n], name2id[n]} => Renamed(c, n)

\* co_login keeps a reference into players across its call of world: the
\* player is still there when it is used, unless the stop came during the call.
ReferenceValid ==
  \A c \in Conns, k \in Tries :
    lpc[c][k] = "back" /\ c \notin overtaken => players[c] # None

\* example/game_demo.cpp:394, "a repeated login kicks the old one out".
KickLeadsToClose == \A c \in Conns : c \in gkick ~> wpc[c] = "closed"

=============================================================================
