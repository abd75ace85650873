----------------------------- MODULE GameProofs -----------------------------
(***************************************************************************)
(* Proofs about GameLogin and GameScene, for any connections, names, number *)
(* of Login messages and length of a plot.  What both need of game_t's two  *)
(* maps is proved once, about GamePlayers.                                  *)
(***************************************************************************)
EXTENDS GameLogin, GameScene, TLAPS

\* A Login message that was sent carries a name.
NamesOK == \A c \in Conns, k \in Tries : lpc[c][k] # "unsent" => lname[c][k] \in Names

Types == TypeOK /\ NamesOK

-----------------------------------------------------------------------------
(* game: only add_player and close change its two maps. *)

LEMMA AddPlayerKeeps ==
  ASSUME GameTypeOK, NEW c \in Conns, NEW n \in Names, RpcAddPlayer(c, n)
  PROVE  GameTypeOK' /\ (OnePlayerPerName => OnePlayerPerName')
BY PlayersAssumption DEF RpcAddPlayer, GameTypeOK, OnePlayerPerName

LEMMA ClosePlayerKeeps ==
  ASSUME GameTypeOK, NEW c \in Conns, ClosePlayer(c)
  PROVE  GameTypeOK' /\ (OnePlayerPerName => OnePlayerPerName')
BY PlayersAssumption DEF ClosePlayer, GameTypeOK, OnePlayerPerName

-----------------------------------------------------------------------------
(* Types *)

LEMMA NewPlayer == [login |-> FALSE, sign |-> 0] \in Player
  BY DEF Player

LEMMA PlayerLogsIn == \A p \in Player : [p EXCEPT !.login = TRUE] \in Player
  BY DEF Player

LEMMA PlayerSigns == \A p \in Player : [p EXCEPT !.sign = @ + 1] \in Player
  BY DEF Player

LEMMA InitTypes == Init => Types
  BY LoginAssumption, PlayersAssumption
  DEF Init, GameInit, Types, TypeOK, GameTypeOK, NamesOK, LoginPcs

LEMMA NextTypes == Types /\ [Next]_vars => Types'
<1> SUFFICES ASSUME Types, [Next]_vars PROVE Types'
  OBVIOUS
<1> USE LoginAssumption, PlayersAssumption
<1> USE DEF Types, TypeOK, GameTypeOK, NamesOK, LoginPcs, GotoWs, GotoLogin, ws,
            inbox, world, game
<1>1. ASSUME NEW c \in Conns,
             ConnInsert(c) \/ ConnStart(c) \/ ConnStop(c) \/ ConnErase(c) \/ WsClose(c)
      PROVE  Types'
  <2>1. CASE ConnInsert(c)
    BY <2>1 DEF ConnInsert
  <2>2. CASE ConnStart(c)
    BY <2>2 DEF ConnStart
  <2>3. CASE ConnStop(c)
    BY <2>3 DEF ConnStop
  <2>4. CASE ConnErase(c)
    BY <2>4 DEF ConnErase
  <2>5. CASE WsClose(c)
    BY <2>5 DEF WsClose
  <2> QED
    BY <1>1, <2>1, <2>2, <2>3, <2>4, <2>5
<1>2. ASSUME NEW c \in Conns, GateStart(c) PROVE Types'
  BY <1>2, NewPlayer DEF GateStart
<1>3. ASSUME NEW c \in Conns, GateStop(c) \/ GateKick(c) PROVE Types'
  BY <1>3 DEF GateStop, GateKick
<1>4. ASSUME NEW c \in Conns, WorldClose(c) \/ GameClose(c) PROVE Types'
  <2>1. CASE WorldClose(c)
    BY <2>1 DEF WorldClose
  <2>2. CASE GameClose(c)
    BY <2>2 DEF GameClose, ClosePlayer
  <2> QED
    BY <1>4, <2>1, <2>2
<1>5. ASSUME NEW c \in Conns, NEW k \in Tries, NEW n \in Names, ClientLogin(c, k, n)
      PROVE  Types'
  BY <1>5 DEF ClientLogin
<1>6. ASSUME NEW c \in Conns, NEW k \in Tries, LoginIgnored(c, k) \/ LoginMalformed(c, k)
      PROVE  Types'
  <2>1. CASE LoginIgnored(c, k)
    BY <2>1 DEF LoginIgnored
  <2>2. CASE LoginMalformed(c, k)
    BY <2>2 DEF LoginMalformed, CloseCon
  <2> QED
    BY <1>6, <2>1, <2>2
<1>7. ASSUME NEW c \in Conns, NEW k \in Tries, LoginRefused(c, k) PROVE Types'
  BY <1>7, PlayerSigns DEF LoginRefused, CloseCon
<1>8. ASSUME NEW c \in Conns, NEW k \in Tries, LoginCallWorld(c, k) PROVE Types'
  BY <1>8, PlayerSigns DEF LoginCallWorld
<1>9. ASSUME NEW c \in Conns, NEW k \in Tries, LoginAnswered(c, k) PROVE Types'
  <2>1. players' \in [Conns -> Player \cup {None}]
    <3>1. CASE players' = players
      BY <3>1
    <3>2. ASSUME NEW d \in Conns, players[d] # None,
                 players' = [players EXCEPT ![d].login = TRUE]
          PROVE  players' \in [Conns -> Player \cup {None}]
      BY <3>2, PlayerLogsIn
    <3> QED
      BY <1>9, <3>1, <3>2 DEF LoginAnswered, StrayLogin
  <2> QED
    BY <1>9, <2>1 DEF LoginAnswered
<1>10. ASSUME NEW c \in Conns, NEW k \in Tries, PlayerLogin(c, k) PROVE Types'
  BY <1>10 DEF PlayerLogin
<1>11. ASSUME NEW c \in Conns, NEW k \in Tries, AddPlayer(c, k) PROVE Types'
  BY <1>11 DEF AddPlayer, RpcAddPlayer
<1>12. CASE UNCHANGED vars
  BY <1>12 DEF vars
<1> QED
  BY <1>1, <1>2, <1>3, <1>4, <1>5, <1>6, <1>7, <1>8, <1>9, <1>10, <1>11, <1>12
  DEF Next, ServerStep, GateStep, BadLogin, Finished

\* Types of the four contexts and their inboxes, for any constants.
THEOREM TypeCorrect == Spec => []TypeOK
<1>1. Types => TypeOK
  BY DEF Types
<1> QED
  BY InitTypes, NextTypes, <1>1, PTL DEF Spec

LEMMA TypesHold == Spec => []Types
  BY InitTypes, NextTypes, PTL DEF Spec

-----------------------------------------------------------------------------
(* The login and game_t's two maps. *)

LEMMA GameFrame ==
  ASSUME [Next]_vars
  PROVE  \/ UNCHANGED game
         \/ \E c \in Conns : GameClose(c)
         \/ \E c \in Conns, k \in Tries : AddPlayer(c, k)
BY DEF Next, ServerStep, GateStep, BadLogin, Finished, ConnInsert, ConnStart,
       ConnStop, ConnErase, WsClose, GateStart, GateStop, GateKick, WorldClose,
       ClientLogin, LoginIgnored, LoginMalformed, LoginRefused, LoginCallWorld,
       LoginAnswered, PlayerLogin, vars

LEMMA NextOnePlayer == Types /\ OnePlayerPerName /\ [Next]_vars => OnePlayerPerName'
<1> SUFFICES ASSUME Types, OnePlayerPerName, [Next]_vars PROVE OnePlayerPerName'
  OBVIOUS
<1>1. GameTypeOK
  BY DEF Types, TypeOK
<1>2. CASE UNCHANGED game
  BY <1>2 DEF game, OnePlayerPerName
<1>3. ASSUME NEW c \in Conns, GameClose(c) PROVE OnePlayerPerName'
  BY <1>1, <1>3, ClosePlayerKeeps DEF GameClose
<1>4. ASSUME NEW c \in Conns, NEW k \in Tries, AddPlayer(c, k) PROVE OnePlayerPerName'
  BY <1>1, <1>4, AddPlayerKeeps DEF AddPlayer, Types, NamesOK
<1> QED
  BY <1>2, <1>3, <1>4, GameFrame

\* All that the login does to the players of the game is what GameScene takes
\* them to do: rpc_add_player of a name, or close.
THEOREM LoginMovesPlayers ==
  Spec => [][\E c \in Conns : ClosePlayer(c) \/ \E n \in Names : RpcAddPlayer(c, n)]_game
<1>1. ASSUME Types, [Next]_vars
      PROVE  [\E c \in Conns : ClosePlayer(c) \/ \E n \in Names : RpcAddPlayer(c, n)]_game
  BY <1>1, GameFrame DEF GameClose, AddPlayer, Types, NamesOK
<1> QED
  BY <1>1, TypesHold, PTL DEF Spec

\* No two connections ever play under one name: whoever plays under a name is
\* the one game_t::name2id leads to.
THEOREM OnePlayerPerNameHolds == Spec => []OnePlayerPerName
<1>1. Init => OnePlayerPerName
  BY DEF Init, GameInit, OnePlayerPerName
<1> QED
  BY <1>1, TypesHold, NextOnePlayer, PTL DEF Spec

-----------------------------------------------------------------------------
(* The maps by name.  Only player_login and close change those of world, only *)
(* add_player and close those of game.  A name leads to a connection one of   *)
(* whose logins world has answered, or game has added, under that name; if    *)
(* the connection is not logged in under it any more, it got in under another *)
(* one too.                                                                   *)

Answered == {"back", "game", "done"}

NameAnswered ==
  \A n \in Names, c \in Conns :
    name2conid[n] = c => \E k \in Tries : lpc[c][k] \in Answered /\ lname[c][k] = n

NameAdded ==
  \A n \in Names, c \in Conns :
    name2id[n] = c => \E k \in Tries : lpc[c][k] = "done" /\ lname[c][k] = n

WorldNames ==
  \A n \in Names, c \in Conns : name2conid[n] = c => logins[c] = n \/ Renamed(c, n)

GameNames ==
  \A n \in Names, c \in Conns : name2id[n] = c => gplayers[c] = n \/ Renamed(c, n)

LEMMA WorldFrame ==
  ASSUME [Next]_vars
  PROVE  \/ UNCHANGED world
         \/ \E c \in Conns : WorldClose(c)
         \/ \E c \in Conns, k \in Tries : PlayerLogin(c, k)
BY DEF Next, ServerStep, GateStep, BadLogin, Finished, ConnInsert, ConnStart,
       ConnStop, ConnErase, WsClose, GateStart, GateStop, GateKick, GameClose,
       ClientLogin, LoginIgnored, LoginMalformed, LoginRefused, LoginCallWorld,
       LoginAnswered, AddPlayer, vars

\* A login that world answered stays so; one past the gate stays past it.
LEMMA LoginsAdvance ==
  ASSUME Types, [Next]_vars, NEW c \in Conns, NEW k \in Tries
  PROVE  /\ lpc[c][k] \in Answered => lpc'[c][k] \in Answered /\ lname'[c][k] = lname[c][k]
         /\ k \in Accepted(c) => k \in Accepted(c)' /\ lname'[c][k] = lname[c][k]
         /\ lpc[c][k] = "done" => lpc'[c][k] = "done"
<1> USE DEF Types, TypeOK, LoginPcs, Answered, Accepted, InFlight, GotoLogin
<1>1. CASE lpc' = lpc /\ lname' = lname
  BY <1>1
<1>2. ASSUME NEW d \in Conns, NEW j \in Tries, NEW n \in Names, ClientLogin(d, j, n)
      PROVE  /\ lpc[c][k] \in Answered => lpc'[c][k] \in Answered /\ lname'[c][k] = lname[c][k]
             /\ k \in Accepted(c) => k \in Accepted(c)' /\ lname'[c][k] = lname[c][k]
             /\ lpc[c][k] = "done" => lpc'[c][k] = "done"
  BY <1>2 DEF ClientLogin
<1>3. ASSUME NEW d \in Conns, NEW j \in Tries,
             \/ LoginIgnored(d, j) \/ LoginMalformed(d, j) \/ LoginRefused(d, j)
             \/ LoginCallWorld(d, j) \/ LoginAnswered(d, j) \/ PlayerLogin(d, j)
             \/ AddPlayer(d, j)
      PROVE  /\ lpc[c][k] \in Answered => lpc'[c][k] \in Answered /\ lname'[c][k] = lname[c][k]
             /\ k \in Accepted(c) => k \in Accepted(c)' /\ lname'[c][k] = lname[c][k]
             /\ lpc[c][k] = "done" => lpc'[c][k] = "done"
  <2>1. lname' = lname
    BY <1>3 DEF LoginIgnored, LoginMalformed, LoginRefused, LoginCallWorld,
                LoginAnswered, PlayerLogin, AddPlayer
  <2>2. \/ lpc[d][j] = "queued"
           /\ (lpc' = [lpc EXCEPT ![d][j] = "refused"] \/ lpc' = [lpc EXCEPT ![d][j] = "world"])
        \/ lpc[d][j] = "world" /\ lpc' = [lpc EXCEPT ![d][j] = "back"]
        \/ lpc[d][j] = "back" /\ lpc' = [lpc EXCEPT ![d][j] = "game"]
        \/ lpc[d][j] = "game" /\ lpc' = [lpc EXCEPT ![d][j] = "done"]
    BY <1>3 DEF LoginIgnored, LoginMalformed, LoginRefused, LoginCallWorld,
                LoginAnswered, PlayerLogin, AddPlayer
  <2>3. CASE d = c /\ j = k
    BY <2>1, <2>2, <2>3
  <2>4. CASE ~(d = c /\ j = k)
    <3>1. lpc'[c][k] = lpc[c][k]
      BY <2>2, <2>4
    <3> QED
      BY <2>1, <3>1
  <2> QED
    BY <2>3, <2>4
<1> QED
  BY <1>1, <1>2, <1>3
  DEF Next, ServerStep, GateStep, BadLogin, Finished, ConnInsert, ConnStart,
      ConnStop, ConnErase, WsClose, GateStart, GateStop, GateKick, GameClose,
      WorldClose, vars

LEMMA NextNameAnswered == Types /\ NameAnswered /\ [Next]_vars => NameAnswered'
<1> SUFFICES ASSUME Types, NameAnswered, [Next]_vars,
                    NEW n \in Names, NEW c \in Conns, name2conid'[n] = c
             PROVE  \E k \in Tries : lpc'[c][k] \in Answered /\ lname'[c][k] = n
  BY DEF NameAnswered
<1>1. CASE name2conid[n] = c
  BY <1>1, LoginsAdvance DEF NameAnswered
<1>2. CASE name2conid[n] # c
  <2>1. PICK d \in Conns, k \in Tries : PlayerLogin(d, k)
    BY <1>2, WorldFrame, PlayersAssumption DEF world, WorldClose, Types, TypeOK
  <2>2. d = c /\ lname[d][k] = n
    BY <1>2, <2>1 DEF PlayerLogin, Types, TypeOK
  <2>3. lpc'[c][k] = "back" /\ lname'[c][k] = n
    BY <2>1, <2>2 DEF PlayerLogin, GotoLogin, Types, TypeOK
  <2> QED
    BY <2>3 DEF Answered
<1> QED
  BY <1>1, <1>2

LEMMA NextNameAdded == Types /\ NameAdded /\ [Next]_vars => NameAdded'
<1> SUFFICES ASSUME Types, NameAdded, [Next]_vars,
                    NEW n \in Names, NEW c \in Conns, name2id'[n] = c
             PROVE  \E k \in Tries : lpc'[c][k] = "done" /\ lname'[c][k] = n
  BY DEF NameAdded
<1>1. CASE name2id[n] = c
  <2>1. PICK k \in Tries : lpc[c][k] = "done" /\ lname[c][k] = n
    BY <1>1 DEF NameAdded
  <2>2. lpc[c][k] \in Answered
    BY <2>1 DEF Answered
  <2> QED
    BY <2>1, <2>2, LoginsAdvance
<1>2. CASE name2id[n] # c
  <2>1. PICK d \in Conns, k \in Tries : AddPlayer(d, k)
    BY <1>2, GameFrame, PlayersAssumption
    DEF game, GameClose, ClosePlayer, Types, TypeOK, GameTypeOK
  <2>2. d = c /\ lname[d][k] = n
    BY <1>2, <2>1 DEF AddPlayer, RpcAddPlayer, Types, TypeOK, GameTypeOK
  <2>3. lpc'[c][k] = "done" /\ lname'[c][k] = n
    BY <2>1, <2>2 DEF AddPlayer, GotoLogin, Types, TypeOK
  <2> QED
    BY <2>3
<1> QED
  BY <1>1, <1>2

\* Two logins of one connection that got in stay two.
LEMMA RenamedStays ==
  ASSUME Types, [Next]_vars, NEW c \in Conns, NEW n \in Names, Renamed(c, n)
  PROVE  Renamed(c, n)'
<1>1. PICK j, k \in Accepted(c) : lname[c][j] = n /\ lname[c][k] # n
  BY DEF Renamed
<1>2. j \in Tries /\ k \in Tries
  BY <1>1 DEF Accepted
<1>3. j \in Accepted(c)' /\ k \in Accepted(c)'
      /\ lname'[c][j] = lname[c][j] /\ lname'[c][k] = lname[c][k]
  BY <1>1, <1>2, LoginsAdvance
<1> QED
  BY <1>1, <1>3 DEF Renamed

LEMMA NextWorldNames == Types /\ NameAnswered /\ WorldNames /\ [Next]_vars => WorldNames'
<1> SUFFICES ASSUME Types, NameAnswered, WorldNames, [Next]_vars,
                    NEW n \in Names, NEW c \in Conns, name2conid'[n] = c
             PROVE  logins'[c] = n \/ Renamed(c, n)'
  BY DEF WorldNames
<1> USE LoginAssumption, PlayersAssumption
<1>1. CASE Renamed(c, n)
  BY <1>1, RenamedStays
<1>2. name2conid[n] = c => logins[c] = n \/ Renamed(c, n)
  BY DEF WorldNames
<1>3. CASE UNCHANGED world
  BY <1>1, <1>2, <1>3 DEF world
<1>4. ASSUME NEW d \in Conns, WorldClose(d) PROVE logins'[c] = n \/ Renamed(c, n)
  BY <1>2, <1>4 DEF WorldClose, Types, TypeOK
<1>5. ASSUME NEW d \in Conns, NEW j \in Tries, PlayerLogin(d, j)
      PROVE  logins'[c] = n \/ Renamed(c, n)'
  <2>1. lname[d][j] \in Names /\ lpc'[d][j] = "back" /\ lname' = lname
    BY <1>5 DEF PlayerLogin, GotoLogin, Types, TypeOK, NamesOK
  <2>2. CASE lname[d][j] = n
    BY <1>5, <2>2 DEF PlayerLogin, Types, TypeOK
  <2>3. CASE lname[d][j] # n
    <3>1. name2conid[n] = c
      BY <1>5, <2>1, <2>3 DEF PlayerLogin, Types, TypeOK
    <3>2. CASE d # c
      BY <1>1, <1>2, <1>5, <3>1, <3>2 DEF PlayerLogin, Types, TypeOK
    <3>3. CASE d = c
      <4>1. PICK k \in Tries : lpc[c][k] \in Answered /\ lname[c][k] = n
        BY <3>1 DEF NameAnswered
      <4>2. lpc'[c][k] \in Answered
        BY <4>1, LoginsAdvance
      <4>3. k \in Accepted(c)' /\ j \in Accepted(c)'
        BY <2>1, <3>3, <4>2 DEF Accepted, Answered, InFlight
      <4> QED
        BY <2>1, <2>3, <3>3, <4>1, <4>3 DEF Renamed
    <3> QED
      BY <3>2, <3>3
  <2> QED
    BY <2>2, <2>3
<1> QED
  BY <1>1, <1>3, <1>4, <1>5, WorldFrame

LEMMA NextGameNames == Types /\ NameAdded /\ GameNames /\ [Next]_vars => GameNames'
<1> SUFFICES ASSUME Types, NameAdded, GameNames, [Next]_vars,
                    NEW n \in Names, NEW c \in Conns, name2id'[n] = c
             PROVE  gplayers'[c] = n \/ Renamed(c, n)'
  BY DEF GameNames
<1> USE PlayersAssumption
<1>1. CASE Renamed(c, n)
  BY <1>1, RenamedStays
<1>2. name2id[n] = c => gplayers[c] = n \/ Renamed(c, n)
  BY DEF GameNames
<1>3. CASE UNCHANGED game
  BY <1>1, <1>2, <1>3 DEF game
<1>4. ASSUME NEW d \in Conns, GameClose(d) PROVE gplayers'[c] = n \/ Renamed(c, n)
  BY <1>2, <1>4 DEF GameClose, ClosePlayer, Types, TypeOK, GameTypeOK
<1>5. ASSUME NEW d \in Conns, NEW i \in Tries, AddPlayer(d, i)
      PROVE  gplayers'[c] = n \/ Renamed(c, n)'
  <2> DEFINE m == lname[d][i]
  <2>1. m \in Names /\ lpc'[d][i] = "done" /\ lname' = lname
    BY <1>5 DEF AddPlayer, GotoLogin, Types, TypeOK, NamesOK
  <2>2. CASE m = n
    BY <1>5, <2>1, <2>2 DEF AddPlayer, RpcAddPlayer, Types, TypeOK, GameTypeOK
  <2>3. CASE m # n
    <3>1. name2id[n] = c
      BY <1>5, <2>1, <2>3 DEF AddPlayer, RpcAddPlayer, Types, TypeOK, GameTypeOK
    <3>2. PICK j \in Tries : lpc[c][j] = "done" /\ lname[c][j] = n
      BY <3>1 DEF NameAdded
    <3>3. ASSUME NEW k \in Tries, lpc'[c][k] = "done", lname[c][k] = m
          PROVE  Renamed(c, n)'
      <4>1. lpc'[c][j] = "done"
        BY <3>2, LoginsAdvance
      <4>2. j \in Accepted(c)' /\ k \in Accepted(c)'
        BY <3>3, <4>1 DEF Accepted
      <4> QED
        BY <2>1, <2>3, <3>2, <3>3, <4>2 DEF Renamed
    <3>4. CASE d = c
      BY <2>1, <3>3, <3>4
    <3>5. CASE d # c /\ name2id[m] = c
      <4>1. PICK k \in Tries : lpc[c][k] = "done" /\ lname[c][k] = m
        BY <2>1, <3>5 DEF NameAdded
      <4>2. lpc'[c][k] = "done"
        BY <4>1, LoginsAdvance
      <4> QED
        BY <3>3, <4>1, <4>2
    <3>6. CASE d # c /\ name2id[m] # c
      BY <1>1, <1>2, <1>5, <3>1, <3>6
      DEF AddPlayer, RpcAddPlayer, Types, TypeOK, GameTypeOK
    <3> QED
      BY <3>4, <3>5, <3>6
  <2> QED
    BY <2>2, <2>3
<1> QED
  BY <1>1, <1>3, <1>4, <1>5, GameFrame

NamesInv == NameAnswered /\ NameAdded /\ WorldNames /\ GameNames

LEMMA InitNames == Init => NamesInv
BY PlayersAssumption
DEF Init, GameInit, NamesInv, NameAnswered, NameAdded, WorldNames, GameNames

LEMMA NextNames == Types /\ NamesInv /\ [Next]_vars => NamesInv'
BY NextNameAnswered, NextNameAdded, NextWorldNames, NextGameNames DEF NamesInv

\* world's name2conid and game's name2id always lead to a connection that is in
\* under that name, or that got in under two names.
THEOREM NameHasLoginHolds == Spec => []NameHasLogin
<1>1. NamesInv => NameHasLogin
  BY DEF NamesInv, WorldNames, GameNames, NameHasLogin
<1> QED
  BY InitNames, NextNames, <1>1, TypesHold, PTL DEF Spec

-----------------------------------------------------------------------------
(* gate: how each step treats the players and the calls under way. *)

\* Every step of the gate but the start and the stop of a connection keeps the
\* set of players.
LEMMA PlayersFrame ==
  ASSUME Types, [Next]_vars, NEW d \in Conns
  PROVE  \/ players'[d] = None <=> players[d] = None
         \/ GateStart(d)
         \/ GateStop(d)
<1> USE LoginAssumption, PlayersAssumption DEF Types, TypeOK
<1>1. CASE UNCHANGED players
  BY <1>1
<1>2. ASSUME NEW c \in Conns, GateStart(c) PROVE c = d \/ players'[d] = players[d]
  BY <1>2 DEF GateStart
<1>3. ASSUME NEW c \in Conns, GateStop(c) PROVE c = d \/ players'[d] = players[d]
  BY <1>3 DEF GateStop
<1>4. ASSUME NEW c \in Conns, players[c] # None,
             \/ players' = [players EXCEPT ![c].sign = @ + 1]
             \/ players' = [players EXCEPT ![c].login = TRUE]
      PROVE  players'[d] = None <=> players[d] = None
  BY <1>4, PlayerSigns, PlayerLogsIn
<1>5. ASSUME NEW c \in Conns, NEW k \in Tries,
             LoginRefused(c, k) \/ LoginCallWorld(c, k) \/ LoginAnswered(c, k)
      PROVE  players'[d] = None <=> players[d] = None
  BY <1>1, <1>4, <1>5 DEF LoginRefused, LoginCallWorld, LoginAnswered, StrayLogin
<1> QED
  BY <1>1, <1>2, <1>3, <1>5
  DEF Next, ServerStep, GateStep, BadLogin, Finished, ConnInsert, ConnStart,
      ConnStop, ConnErase, WsClose, GateKick, GameClose, WorldClose, ClientLogin,
      LoginIgnored, LoginMalformed, PlayerLogin, AddPlayer, vars

\* A call comes under way only for a player of the gate.
LEMMA InFlightFrame ==
  ASSUME Types, [Next]_vars, NEW c \in Conns, NEW k \in Tries, lpc'[c][k] \in InFlight
  PROVE  lpc[c][k] \in InFlight \/ players[c] # None
<1> USE DEF Types, TypeOK, InFlight, GotoLogin
<1>1. CASE lpc' = lpc
  BY <1>1
<1>2. ASSUME NEW d \in Conns, NEW j \in Tries, NEW n \in Names, ClientLogin(d, j, n)
      PROVE  lpc[c][k] \in InFlight
  BY <1>2 DEF ClientLogin
<1>3. ASSUME NEW d \in Conns, NEW j \in Tries,
             \/ LoginIgnored(d, j) \/ LoginMalformed(d, j) \/ LoginRefused(d, j)
             \/ LoginAnswered(d, j) \/ PlayerLogin(d, j) \/ AddPlayer(d, j)
      PROVE  lpc[c][k] \in InFlight
  <2>1. \/ lpc' = [lpc EXCEPT ![d][j] = "refused"]
        \/ lpc[d][j] \in InFlight /\ \E s \in LoginPcs : lpc' = [lpc EXCEPT ![d][j] = s]
    BY <1>3 DEF LoginIgnored, LoginMalformed, LoginRefused, LoginAnswered,
                PlayerLogin, AddPlayer, LoginPcs
  <2>2. CASE d = c /\ j = k
    BY <2>1, <2>2
  <2>3. CASE ~(d = c /\ j = k)
    BY <2>1, <2>3
  <2> QED
    BY <2>2, <2>3
<1>4. ASSUME NEW d \in Conns, NEW j \in Tries, LoginCallWorld(d, j)
      PROVE  lpc[c][k] \in InFlight \/ players[c] # None
  BY <1>4 DEF LoginCallWorld
<1> QED
  BY <1>1, <1>2, <1>3, <1>4
  DEF Next, ServerStep, GateStep, BadLogin, Finished, ConnInsert, ConnStart,
      ConnStop, ConnErase, WsClose, GateStart, GateStop, GateKick, GameClose,
      WorldClose, vars

\* A login under way belongs to a player the gate knows, unless the stop of its
\* connection came first.
LoginHasPlayer ==
  \A c \in Conns, k \in Tries :
    lpc[c][k] \in InFlight /\ c \notin overtaken => players[c] # None

LEMMA OvertakenGrows == ASSUME [Next]_vars PROVE overtaken \subseteq overtaken'
BY DEF Next, ServerStep, GateStep, BadLogin, Finished, ConnInsert, ConnStart,
       ConnStop, ConnErase, WsClose, GateStart, GateStop, GateKick, GameClose,
       WorldClose, ClientLogin, LoginIgnored, LoginMalformed, LoginRefused,
       LoginCallWorld, LoginAnswered, PlayerLogin, AddPlayer, vars

LEMMA NextLoginHasPlayer == Types /\ LoginHasPlayer /\ [Next]_vars => LoginHasPlayer'
<1> SUFFICES ASSUME Types, LoginHasPlayer, [Next]_vars,
                    NEW c \in Conns, NEW k \in Tries,
                    lpc'[c][k] \in InFlight, c \notin overtaken'
             PROVE  players'[c] # None
  BY DEF LoginHasPlayer, InFlight
<1>1. players[c] # None
  BY InFlightFrame, OvertakenGrows DEF LoginHasPlayer
<1>2. CASE GateStart(c)
  BY <1>2, NewPlayer, LoginAssumption DEF GateStart, Types, TypeOK
<1>3. ~GateStop(c)
  BY DEF GateStop
<1> QED
  BY <1>1, <1>2, <1>3, PlayersFrame

\* gate_t::co_login: the player its reference leads to is there when the call
\* of world returns, unless the connection stopped during the call.
THEOREM ReferenceValidHolds == Spec => []ReferenceValid
<1>1. Init => LoginHasPlayer
  BY DEF Init, LoginHasPlayer, InFlight
<1>2. LoginHasPlayer => ReferenceValid
  BY DEF LoginHasPlayer, ReferenceValid, InFlight
<1> QED
  BY <1>1, <1>2, TypesHold, NextLoginHasPlayer, PTL DEF Spec

-----------------------------------------------------------------------------
(* Ghosts.  Once the gate has handled the stop of a connection that was not  *)
(* overtaken, its player is gone, no call for it is under way and none can   *)
(* start, and what world and game still know of it has a close on its way.   *)

Stopped(c) == wpc[c] \in {"erasing", "closed"} /\ c \notin gstop /\ c \notin overtaken

Forgetting(c) ==
  /\ c \notin gstart /\ players[c] = None
  /\ \A k \in Tries : lpc[c][k] \notin InFlight
  /\ logins[c] # None => c \in wclose
  /\ gplayers[c] # None => c \in gclose

StoppedForgets == \A c \in Conns : Stopped(c) => Forgetting(c)

\* How a connection comes to be stopped.
LEMMA StoppedFrame ==
  ASSUME Types, [Next]_vars, NEW c \in Conns, Stopped(c)'
  PROVE  Stopped(c) \/ GateStop(c)
<1> USE DEF Stopped, Types, TypeOK, GotoWs
<1>1. CASE UNCHANGED <<wpc, gstop, overtaken>>
  BY <1>1
<1>2. ASSUME NEW d \in Conns,
             ConnInsert(d) \/ ConnStart(d) \/ ConnStop(d) \/ ConnErase(d)
      PROVE  Stopped(c)
  BY <1>2 DEF ConnInsert, ConnStart, ConnStop, ConnErase, inbox
<1>3. ASSUME NEW d \in Conns, GateStop(d) PROVE Stopped(c) \/ d = c
  BY <1>3 DEF GateStop, ws
<1> QED
  BY <1>1, <1>2, <1>3
  DEF Next, ServerStep, GateStep, BadLogin, Finished, WsClose, GateStart, GateKick,
      GameClose, WorldClose, ClientLogin, LoginIgnored, LoginMalformed, LoginRefused,
      LoginCallWorld, LoginAnswered, PlayerLogin, AddPlayer, vars, ws, inbox

LEMMA GateStopForgets ==
  ASSUME Types, NEW c \in Conns, GateStop(c), c \notin overtaken'
  PROVE  Forgetting(c)'
BY LoginAssumption DEF GateStop, Forgetting, Types, TypeOK, ws, world, game

LEMMA StaysForgotten ==
  ASSUME Types, [Next]_vars, NEW c \in Conns, Stopped(c), Forgetting(c)
  PROVE  Forgetting(c)'
<1>1. c \notin gstart'
  BY DEF Next, ServerStep, GateStep, BadLogin, Finished, ConnInsert, ConnStart,
         ConnStop, ConnErase, WsClose, GateStart, GateStop, GateKick, GameClose,
         WorldClose, ClientLogin, LoginIgnored, LoginMalformed, LoginRefused,
         LoginCallWorld, LoginAnswered, PlayerLogin, AddPlayer, vars, inbox,
         Forgetting, Stopped
<1>2. players'[c] = None
  BY PlayersFrame DEF Forgetting, Stopped, GateStart, GateStop
<1>3. ASSUME NEW k \in Tries PROVE lpc'[c][k] \notin InFlight
  BY InFlightFrame DEF Forgetting
<1>4. logins'[c] # None => c \in wclose'
  <2>1. logins'[c] # None => logins[c] # None /\ \A d \in Conns : WorldClose(d) => d # c
    <3>1. CASE UNCHANGED world
      BY <3>1, LoginAssumption DEF world, WorldClose, Types, TypeOK
    <3>2. ASSUME NEW d \in Conns, WorldClose(d)
          PROVE  logins'[c] # None => logins[c] # None /\ d # c
      BY <3>2 DEF WorldClose, Types, TypeOK
    <3>3. ASSUME NEW d \in Conns, NEW j \in Tries, PlayerLogin(d, j)
          PROVE  logins'[c] = logins[c] /\ \A e \in Conns : ~WorldClose(e)
      <4>1. d # c
        BY <3>3 DEF PlayerLogin, Forgetting, InFlight
      <4> QED
        BY <3>3, <4>1 DEF PlayerLogin, WorldClose, Types, TypeOK
    <3> QED
      BY <3>1, <3>2, <3>3, WorldFrame
  <2>2. c \in wclose => c \in wclose' \/ WorldClose(c)
    BY DEF Next, ServerStep, GateStep, BadLogin, Finished, ConnInsert, ConnStart,
           ConnStop, ConnErase, WsClose, GateStart, GateStop, GateKick, GameClose,
           WorldClose, ClientLogin, LoginIgnored, LoginMalformed, LoginRefused,
           LoginCallWorld, LoginAnswered, PlayerLogin, AddPlayer, vars, inbox
  <2> QED
    BY <2>1, <2>2 DEF Forgetting
<1>5. gplayers'[c] # None => c \in gclose'
  <2>1. gplayers'[c] # None => gplayers[c] # None /\ ~GameClose(c)
    <3>1. CASE UNCHANGED game
      BY <3>1 DEF game, GameClose, ClosePlayer, Types, TypeOK, GameTypeOK
    <3>2. ASSUME NEW d \in Conns, GameClose(d)
          PROVE  gplayers'[c] # None => gplayers[c] # None /\ ~GameClose(c)
      BY <3>2 DEF GameClose, ClosePlayer, Types, TypeOK, GameTypeOK
    <3>3. ASSUME NEW d \in Conns, NEW j \in Tries, AddPlayer(d, j)
          PROVE  gplayers'[c] # None => gplayers[c] # None /\ ~GameClose(c)
      <4>1. d # c
        BY <3>3 DEF AddPlayer, Forgetting, InFlight
      <4> QED
        BY <3>3, <4>1
        DEF AddPlayer, RpcAddPlayer, GameClose, inbox, Types, TypeOK, GameTypeOK
    <3> QED
      BY <3>1, <3>2, <3>3, GameFrame
  <2>2. c \in gclose => c \in gclose' \/ GameClose(c)
    BY DEF Next, ServerStep, GateStep, BadLogin, Finished, ConnInsert, ConnStart,
           ConnStop, ConnErase, WsClose, GateStart, GateStop, GateKick, GameClose,
           WorldClose, ClientLogin, LoginIgnored, LoginMalformed, LoginRefused,
           LoginCallWorld, LoginAnswered, PlayerLogin, AddPlayer, vars, inbox
  <2> QED
    BY <2>1, <2>2 DEF Forgetting
<1> QED
  BY <1>1, <1>2, <1>3, <1>4, <1>5 DEF Forgetting

LEMMA NextStoppedForgets == Types /\ StoppedForgets /\ [Next]_vars => StoppedForgets'
<1> SUFFICES ASSUME Types, StoppedForgets, [Next]_vars, NEW c \in Conns, Stopped(c)'
             PROVE  Forgetting(c)'
  BY DEF StoppedForgets
<1>1. CASE Stopped(c)
  BY <1>1, StaysForgotten DEF StoppedForgets
<1>2. CASE GateStop(c)
  BY <1>2, GateStopForgets DEF Stopped
<1> QED
  BY <1>1, <1>2, StoppedFrame

\* No map of gate, world or game mentions a closed connection once its messages
\* are handled, unless its stop overtook its start or a login, or it got in under
\* two names.
THEOREM NoGhostHolds == Spec => []NoGhost
<1>1. Init => StoppedForgets
  BY DEF Init, StoppedForgets, Stopped
<1>2. StoppedForgets /\ NamesInv => NoGhost
  <2> SUFFICES ASSUME StoppedForgets, NamesInv, NEW c \in Conns,
                      wpc[c] = "closed", c \notin overtaken,
                      c \notin gstart \cup gstop \cup wclose \cup gclose
               PROVE  /\ players[c] = None /\ logins[c] = None /\ gplayers[c] = None
                      /\ \A n \in Names :
                           c \in {name2conid[n], name2id[n]} => Renamed(c, n)
    BY DEF NoGhost
  <2>1. players[c] = None /\ logins[c] = None /\ gplayers[c] = None
    BY DEF StoppedForgets, Stopped, Forgetting
  <2>2. ASSUME NEW n \in Names, c \in {name2conid[n], name2id[n]} PROVE Renamed(c, n)
    BY <2>1, <2>2, PlayersAssumption DEF NamesInv, WorldNames, GameNames
  <2> QED
    BY <2>1, <2>2
<1> QED
  BY <1>1, <1>2, InitNames, NextNames, TypesHold, NextStoppedForgets, PTL DEF Spec

-----------------------------------------------------------------------------
(* Scenes.  A scene has a first view from the moment its plot begins, and   *)
(* that view is the hero of the plot.  connid2eid leads from a connection to *)
(* its newest view.                                                         *)

SceneBegun ==
  \A n \in Names :
    IF plot[n] = 0 THEN views[n] = << >> ELSE Len(views[n]) >= 1 /\ hero[n] = 1

\* ids leads to the newest of vs, and to nothing for who has none.
Newest(vs, ids, c) ==
  IF ids[c] = 0 THEN \A j \in 1..Len(vs) : vs[j].conn # c
  ELSE /\ ids[c] \in 1..Len(vs) /\ vs[ids[c]].conn = c
       /\ \A j \in 1..Len(vs) : vs[j].conn = c => j <= ids[c]

ViewsOwned == \A n \in Names, c \in Conns : Newest(views[n], connid2eid[n], c)

SceneInv ==
  SceneTypeOK /\ OnePlayerPerName /\ SceneBegun /\ RewardOnce /\ ViewsOwned /\ PlotToPlayer

\* What a change of one element does to a sequence.
LEMMA ExceptSeq ==
  ASSUME NEW S, NEW s \in Seq(S), NEW i \in 1..Len(s), NEW v \in S
  PROVE  /\ [s EXCEPT ![i] = v] \in Seq(S)
         /\ Len([s EXCEPT ![i] = v]) = Len(s)
         /\ \A j \in 1..Len(s) : [s EXCEPT ![i] = v][j] = IF j = i THEN v ELSE s[j]
OBVIOUS

LEMMA SceneInitInv == SceneInit => SceneInv
<1> SUFFICES ASSUME SceneInit PROVE SceneInv
  OBVIOUS
<1> USE SceneAssumption, PlayersAssumption DEF SceneInit, GameInit, Silence
<1>1. \A n \in Names : views[n] = << >> /\ Len(views[n]) = 0 /\ views[n] \in Seq(View)
  OBVIOUS
<1>2. SceneTypeOK
  <2>1. views \in [Names -> Seq(View)]  BY <1>1
  <2>2. \A n \in Names : hero[n] = 0 /\ \A c \in Conns : connid2eid[n][c] = 0
    OBVIOUS
  <2>3. GameTypeOK  BY DEF GameTypeOK
  <2>4. connid2eid \in [Names -> [Conns -> Nat]] /\ hero \in [Names -> Nat]
    OBVIOUS
  <2>5. plot \in [Names -> 0..(PlotLen + 1)]  OBVIOUS
  <2>6. told \in [by : Conns \cup {None}, to : Conns \cup {None}]  OBVIOUS
  <2>7. asserts \in BOOLEAN /\ aborted \in BOOLEAN  OBVIOUS
  <2> HIDE DEF SceneInit
  <2> QED  BY <1>1, <2>1, <2>2, <2>3, <2>4, <2>5, <2>6, <2>7 DEF SceneTypeOK
<1>3. OnePlayerPerName /\ PlotToPlayer  BY DEF OnePlayerPerName, PlotToPlayer
<1>4. SceneBegun /\ RewardOnce /\ ViewsOwned
  BY <1>1 DEF SceneBegun, RewardOnce, ViewsOwned, Newest
<1> QED  BY <1>2, <1>3, <1>4 DEF SceneInv

\* The player who moves a plot is the one it finds by name.
LEMMA PlayerIsFound ==
  ASSUME SceneInv, NEW c \in Conns, gplayers[c] # None
  PROVE  gplayers[c] \in Names /\ name2id[gplayers[c]] = c
BY DEF SceneInv, SceneTypeOK, GameTypeOK, OnePlayerPerName

\* One scene changes: its views and its plot satisfy what SceneInv says of
\* them, and the others stay as they are.
LEMMA OneSceneStep ==
  ASSUME SceneInv, NEW c \in Conns, NEW n \in Names, NEW p \in 1..(PlotLen + 1),
         NEW vs \in Seq(View), NEW ids \in [Conns -> Nat], NEW h,
         plot' = [plot EXCEPT ![n] = p], views' = [views EXCEPT ![n] = vs],
         connid2eid' = [connid2eid EXCEPT ![n] = ids], hero' = [hero EXCEPT ![n] = h],
         Len(vs) >= 1, h = 1, \A d \in Conns : ids[d] <= Len(vs),
         \A i \in 1..Len(vs) :
           vs[i].mineral = IF i = 1 /\ p = PlotLen + 1 THEN 1 ELSE 0,
         \A d \in Conns : Newest(vs, ids, d),
         told' \in [by : Conns \cup {None}, to : Conns \cup {None}], told.by' = told.to',
         UNCHANGED <<asserts, aborted, game>>
  PROVE  SceneInv'
<1>1. /\ plot'[n] = p /\ views'[n] = vs /\ connid2eid'[n] = ids /\ hero'[n] = 1
      /\ \A m \in Names : m # n =>
           /\ plot'[m] = plot[m] /\ views'[m] = views[m]
           /\ connid2eid'[m] = connid2eid[m] /\ hero'[m] = hero[m]
  BY DEF SceneInv, SceneTypeOK
<1>2. SceneTypeOK'
  <2>1. /\ plot' \in [Names -> 0..(PlotLen + 1)] /\ views' \in [Names -> Seq(View)]
        /\ connid2eid' \in [Names -> [Conns -> Nat]] /\ hero' \in [Names -> Nat]
    BY SceneAssumption DEF SceneInv, SceneTypeOK
  <2>2. \A m \in Names :
          /\ hero'[m] <= Len(views'[m])
          /\ \A d \in Conns : connid2eid'[m][d] <= Len(views'[m])
    BY <1>1 DEF SceneInv, SceneTypeOK
  <2> QED  BY <2>1, <2>2 DEF SceneInv, SceneTypeOK, GameTypeOK, game
<1>3. OnePlayerPerName'  BY DEF SceneInv, OnePlayerPerName, game
<1>4. SceneBegun'  BY <1>1 DEF SceneInv, SceneBegun
<1>5. RewardOnce'  BY <1>1 DEF SceneInv, RewardOnce
<1>6. ViewsOwned'
  <2>1. \A m \in Names, d \in Conns : Newest(views'[m], connid2eid'[m], d)
    <3> TAKE m \in Names, d \in Conns
    <3>1. CASE m = n  BY <1>1, <3>1
    <3>2. CASE m # n  BY <1>1, <3>2 DEF SceneInv, ViewsOwned
    <3> QED  BY <3>1, <3>2
  <2> QED  BY <2>1 DEF ViewsOwned, Newest
<1> QED  BY <1>2, <1>3, <1>4, <1>5, <1>6 DEF SceneInv, PlotToPlayer

LEMMA EnterNewInv ==
  ASSUME SceneInv, NEW c \in Conns, EnterNew(c)
  PROVE  SceneInv'
<1> DEFINE n   == gplayers[c]
           ids == [connid2eid[n] EXCEPT ![c] = 1]
           v   == [conn |-> c, line |-> 1, mineral |-> 0]
<1>1. n \in Names /\ name2id[n] = c /\ c # None
  BY PlayerIsFound, PlayersAssumption DEF EnterNew
<1>2. /\ ids \in [Conns -> Nat] /\ ids[c] = 1
      /\ \A d \in Conns : ids[d] <= 1
  BY <1>1 DEF EnterNew, SceneInv, SceneTypeOK, SceneBegun
<1>3. EntityOf(ids, c) = 1
  BY <1>1, <1>2 DEF EntityOf
<1>4. Say(<<NewView(c)>>, ids, c, 1) = <<v>>
  BY <1>3 DEF Say, NewView
<1>5. /\ <<v>> \in Seq(View) /\ Len(<<v>>) = 1 /\ <<v>>[1] = v
  BY SceneAssumption DEF View
<1>6. /\ plot' = [plot EXCEPT ![n] = 1] /\ views' = [views EXCEPT ![n] = <<v>>]
      /\ connid2eid' = [connid2eid EXCEPT ![n] = ids] /\ hero' = [hero EXCEPT ![n] = 1]
      /\ told' = [by |-> c, to |-> c] /\ UNCHANGED <<asserts, aborted, game>>
  BY <1>1, <1>3, <1>4 DEF EnterNew
<1>7. told' \in [by : Conns \cup {None}, to : Conns \cup {None}] /\ told.by' = told.to'
  BY <1>6
<1>8. 1 \in 1..(PlotLen + 1) /\ 1 # PlotLen + 1
  BY SceneAssumption
<1>9. \A i \in 1..Len(<<v>>) :
        <<v>>[i].mineral = IF i = 1 /\ 1 = PlotLen + 1 THEN 1 ELSE 0
  BY <1>5, <1>8
<1>10. \A d \in Conns : Newest(<<v>>, ids, d)
  <2>1. v.conn = c /\ \A d \in Conns : d # c => ids[d] = 0
    BY <1>1 DEF EnterNew, SceneInv, SceneTypeOK, SceneBegun
  <2> DEFINE w == <<v>>
  <2>2. Len(w) = 1 /\ w[1] = v  BY <1>5
  <2> HIDE DEF v, ids, w
  <2>3. ASSUME NEW d \in Conns PROVE Newest(w, ids, d)
    <3>1. \A j \in 1..Len(w) : j = 1 /\ w[j].conn = c  BY <2>1, <2>2
    <3>2. CASE d = c  BY <1>2, <2>1, <2>2, <3>1, <3>2 DEF Newest
    <3>3. CASE d # c  BY <2>1, <3>1, <3>3 DEF Newest
    <3> QED  BY <3>2, <3>3
  <2> QED  BY <2>3 DEF w
<1> HIDE DEF n, ids, v
<1> QED
  BY <1>1, <1>2, <1>5, <1>6, <1>7, <1>8, <1>9, <1>10, OneSceneStep

LEMMA EnterAgainInv ==
  ASSUME SceneInv, NEW c \in Conns, EnterAgain(c)
  PROVE  SceneInv'
<1> DEFINE n   == gplayers[c]
           s   == views[n]
           v   == NewView(c)
           ids == [connid2eid[n] EXCEPT ![c] = Len(s) + 1]
<1>1. n \in Names  BY PlayerIsFound DEF EnterAgain
<1>2. s \in Seq(View) /\ v \in View /\ v.conn = c /\ v.mineral = 0
  <2>1. s \in Seq(View)  BY <1>1 DEF SceneInv, SceneTypeOK
  <2> QED  BY <2>1, SceneAssumption DEF NewView, View
<1>3. /\ Append(s, v) \in Seq(View) /\ Len(Append(s, v)) = Len(s) + 1 /\ Len(s) \in Nat
      /\ \A i \in 1..Len(s) : Append(s, v)[i] = s[i]
      /\ Append(s, v)[Len(s) + 1] = v
  BY <1>2
<1>4. plot[n] \in 1..(PlotLen + 1) /\ Len(s) >= 1 /\ hero[n] = 1
  BY <1>1, SceneAssumption DEF EnterAgain, SceneInv, SceneTypeOK, SceneBegun
<1>5. /\ ids \in [Conns -> Nat]
      /\ \A d \in Conns : ids[d] <= Len(s) + 1
  BY <1>1, <1>3 DEF SceneInv, SceneTypeOK
<1>6. /\ plot' = [plot EXCEPT ![n] = plot[n]] /\ views' = [views EXCEPT ![n] = Append(s, v)]
      /\ connid2eid' = [connid2eid EXCEPT ![n] = ids] /\ hero' = [hero EXCEPT ![n] = 1]
      /\ UNCHANGED <<asserts, aborted, game, told>>
  BY <1>1, <1>4 DEF EnterAgain, SceneInv, SceneTypeOK
<1>7. \A i \in 1..Len(s) :
        s[i].mineral = IF i = 1 /\ plot[n] = PlotLen + 1 THEN 1 ELSE 0
  BY <1>1 DEF SceneInv, RewardOnce
<1>8. /\ ids[c] = Len(s) + 1
      /\ \A d \in Conns : d # c => ids[d] = connid2eid[n][d]
      /\ \A d \in Conns : Newest(s, connid2eid[n], d)
  BY <1>1 DEF SceneInv, SceneTypeOK, ViewsOwned
<1>9. told' \in [by : Conns \cup {None}, to : Conns \cup {None}] /\ told.by' = told.to'
  BY <1>6 DEF SceneInv, SceneTypeOK, PlotToPlayer
<1> HIDE DEF n, s, v, ids
<1>10. \A i \in 1..Len(Append(s, v)) :
         Append(s, v)[i].mineral = IF i = 1 /\ plot[n] = PlotLen + 1 THEN 1 ELSE 0
  <2> SUFFICES ASSUME NEW i \in 1..(Len(s) + 1)
               PROVE  Append(s, v)[i].mineral =
                        IF i = 1 /\ plot[n] = PlotLen + 1 THEN 1 ELSE 0
    BY <1>3
  <2>1. CASE i \in 1..Len(s)  BY <1>3, <1>7, <2>1
  <2>2. CASE i = Len(s) + 1  BY <1>2, <1>3, <1>4, <2>2
  <2> QED  BY <1>3, <2>1, <2>2
<1>11. \A d \in Conns : Newest(Append(s, v), ids, d)
  <2> TAKE d \in Conns
  <2>1. \A i \in 1..(Len(s) + 1) : i \in 1..Len(s) \/ i = Len(s) + 1  BY <1>3
  <2>2. CASE d = c  BY <1>2, <1>3, <1>8, <2>1, <2>2 DEF Newest
  <2>3. CASE d # c
    <3>1. Newest(s, connid2eid[n], d) /\ ids[d] = connid2eid[n][d]  BY <1>8, <2>3
    <3>2. CASE ids[d] = 0
      <4>1. \A i \in 1..Len(s) : Append(s, v)[i].conn # d
        BY <1>3, <3>1, <3>2 DEF Newest
      <4>2. Append(s, v)[Len(s) + 1].conn # d  BY <1>2, <1>3, <2>3
      <4> QED  BY <1>3, <2>1, <3>2, <4>1, <4>2 DEF Newest
    <3>3. CASE ids[d] # 0
      <4>1. /\ ids[d] \in 1..Len(s) /\ Append(s, v)[ids[d]].conn = d
            /\ \A i \in 1..Len(s) : Append(s, v)[i].conn = d => i <= ids[d]
        BY <1>3, <3>1, <3>3 DEF Newest
      <4>2. Append(s, v)[Len(s) + 1].conn # d  BY <1>2, <1>3, <2>3
      <4> QED  BY <1>3, <2>1, <3>3, <4>1, <4>2 DEF Newest
    <3> QED  BY <3>2, <3>3
  <2> QED  BY <2>2, <2>3
<1> DEFINE vs == Append(s, v)
<1>12. /\ vs \in Seq(View) /\ Len(vs) >= 1 /\ \A d \in Conns : ids[d] <= Len(vs)
       /\ views' = [views EXCEPT ![n] = vs] /\ UNCHANGED <<asserts, aborted, game>>
  BY <1>3, <1>4, <1>5, <1>6
<1>13. /\ \A i \in 1..Len(vs) :
            vs[i].mineral = IF i = 1 /\ plot[n] = PlotLen + 1 THEN 1 ELSE 0
       /\ \A d \in Conns : Newest(vs, ids, d)
  BY <1>10, <1>11
<1> HIDE DEF vs
<1> QED
  BY <1>1, <1>4, <1>5, <1>6, <1>9, <1>12, <1>13, OneSceneStep

\* Views that keep their connections keep their owners.
LEMMA SameConns ==
  ASSUME NEW s, NEW vs, NEW ids, NEW c, Newest(s, ids, c), Len(vs) = Len(s),
         \A j \in 1..Len(s) : vs[j].conn = s[j].conn
  PROVE  Newest(vs, ids, c)
BY DEF Newest

LEMMA PlotNextInv ==
  ASSUME SceneInv, NEW c \in Conns, PlotNext(c)
  PROVE  SceneInv'
<1> DEFINE n   == gplayers[c]
           s   == views[n]
           ids == connid2eid[n]
           e   == EntityOf(ids, c)
           v   == [s[e] EXCEPT !.line = plot[n] + 1]
           vs  == [s EXCEPT ![e] = v]
<1>1. n \in Names /\ name2id[n] = c /\ c # None
  BY PlayerIsFound, PlayersAssumption DEF PlotNext
<1>2. plot[n] \in 1..(PlotLen - 1) /\ Len(s) >= 1 /\ hero[n] = 1
  BY <1>1, SceneAssumption DEF PlotNext, SceneInv, SceneTypeOK, SceneBegun
<1>3. s \in Seq(View) /\ ids \in [Conns -> Nat] /\ \A d \in Conns : ids[d] <= Len(s)
  BY <1>1 DEF SceneInv, SceneTypeOK
<1>4. e \in 1..Len(s)
  BY <1>1, <1>2, <1>3 DEF EntityOf
<1>5. s[e] \in View /\ v \in View /\ v.conn = s[e].conn /\ v.mineral = s[e].mineral
  <2>1. s[e] \in View  BY <1>3, <1>4
  <2>2. plot[n] + 1 \in 0..PlotLen  BY <1>2, SceneAssumption
  <2> HIDE DEF s, e, n
  <2> QED  BY <2>1, <2>2 DEF View
<1>6. Say(s, ids, c, plot[n] + 1) = vs
  BY <1>3, <1>4 DEF Say
<1>7. /\ vs \in Seq(View) /\ Len(vs) = Len(s)
      /\ \A j \in 1..Len(s) : vs[j] = IF j = e THEN v ELSE s[j]
  BY <1>3, <1>4, <1>5, ExceptSeq
<1>8. /\ plot' = [plot EXCEPT ![n] = plot[n] + 1] /\ views' = [views EXCEPT ![n] = vs]
      /\ connid2eid' = [connid2eid EXCEPT ![n] = ids] /\ hero' = [hero EXCEPT ![n] = 1]
      /\ told' = [by |-> c, to |-> c] /\ UNCHANGED <<asserts, aborted, game>>
  BY <1>1, <1>2, <1>6 DEF PlotNext, SceneInv, SceneTypeOK
<1>9. /\ \A i \in 1..Len(s) : s[i].mineral = 0
      /\ \A d \in Conns : Newest(s, ids, d)
  BY <1>1, <1>2, SceneAssumption DEF SceneInv, RewardOnce, ViewsOwned
<1> HIDE DEF n, s, ids, e, v, vs
<1>10. \A i \in 1..Len(vs) : vs[i].mineral = 0
  BY <1>4, <1>5, <1>7, <1>9
<1>11. \A d \in Conns : Newest(vs, ids, d)
  <2>1. \A j \in 1..Len(s) : vs[j].conn = s[j].conn  BY <1>5, <1>7
  <2> QED  BY <1>7, <1>9, <2>1, SameConns
<1>12. plot[n] + 1 \in 1..(PlotLen + 1) /\ plot[n] + 1 # PlotLen + 1
  BY <1>2, SceneAssumption
<1>13. \A i \in 1..Len(vs) :
         vs[i].mineral = IF i = 1 /\ plot[n] + 1 = PlotLen + 1 THEN 1 ELSE 0
  BY <1>10, <1>12
<1>14. told' \in [by : Conns \cup {None}, to : Conns \cup {None}] /\ told.by' = told.to'
  BY <1>8
<1> QED
  BY <1>1, <1>2, <1>3, <1>7, <1>8, <1>10, <1>11, <1>12, <1>13, <1>14, OneSceneStep

LEMMA PlotOverInv ==
  ASSUME SceneInv, NEW c \in Conns, PlotOver(c)
  PROVE  SceneInv'
<1> DEFINE n   == gplayers[c]
           s   == views[n]
           ids == connid2eid[n]
           v   == [s[1] EXCEPT !.mineral = @ + 1]
           vs  == [s EXCEPT ![1] = v]
<1>1. n \in Names /\ name2id[n] = c
  BY PlayerIsFound DEF PlotOver
<1>2. plot[n] = PlotLen /\ Len(s) >= 1 /\ hero[n] = 1
  BY <1>1, SceneAssumption DEF PlotOver, SceneInv, SceneTypeOK, SceneBegun
<1>3. s \in Seq(View) /\ ids \in [Conns -> Nat] /\ \A d \in Conns : ids[d] <= Len(s)
  BY <1>1 DEF SceneInv, SceneTypeOK
<1>4. /\ \A i \in 1..Len(s) : s[i].mineral = 0
      /\ \A d \in Conns : Newest(s, ids, d)
  BY <1>1, <1>2, SceneAssumption DEF SceneInv, RewardOnce, ViewsOwned
<1>5. s[1] \in View /\ v \in View /\ v.conn = s[1].conn /\ v.mineral = 1
  <2>1. s[1] \in View /\ s[1].mineral = 0  BY <1>2, <1>3, <1>4
  <2> HIDE DEF s
  <2> QED  BY <2>1 DEF View
<1>6. /\ vs \in Seq(View) /\ Len(vs) = Len(s)
      /\ \A j \in 1..Len(s) : vs[j] = IF j = 1 THEN v ELSE s[j]
  BY <1>2, <1>3, <1>5, ExceptSeq
<1>7. /\ plot' = [plot EXCEPT ![n] = PlotLen + 1] /\ views' = [views EXCEPT ![n] = vs]
      /\ connid2eid' = [connid2eid EXCEPT ![n] = ids] /\ hero' = [hero EXCEPT ![n] = 1]
      /\ told' = [by |-> c, to |-> c] /\ UNCHANGED <<asserts, aborted, game>>
  BY <1>1, <1>2 DEF PlotOver, SceneInv, SceneTypeOK
<1> HIDE DEF n, s, ids, v, vs
<1>8. /\ \A i \in 1..Len(vs) :
           vs[i].mineral = IF i = 1 /\ PlotLen + 1 = PlotLen + 1 THEN 1 ELSE 0
      /\ \A d \in Conns : Newest(vs, ids, d)
  <2>1. \A j \in 1..Len(s) : vs[j].conn = s[j].conn  BY <1>5, <1>6
  <2>2. \A d \in Conns : Newest(vs, ids, d)  BY <1>4, <1>6, <2>1, SameConns
  <2> QED  BY <1>4, <1>5, <1>6, <2>2
<1>9. PlotLen + 1 \in 1..(PlotLen + 1)
  BY SceneAssumption
<1>10. told' \in [by : Conns \cup {None}, to : Conns \cup {None}] /\ told.by' = told.to'
  BY <1>7
<1> QED
  BY <1>1, <1>2, <1>3, <1>6, <1>7, <1>8, <1>9, <1>10, OneSceneStep

LEMMA SceneNextInv == SceneInv /\ [SceneNext]_scenevars => SceneInv'
<1> SUFFICES ASSUME SceneInv, [SceneNext]_scenevars PROVE SceneInv'
  OBVIOUS
<1> USE DEF scene, game
<1>1. ASSUME UNCHANGED scene, UNCHANGED told, UNCHANGED asserts, aborted' \in BOOLEAN,
             GameTypeOK', OnePlayerPerName'
      PROVE  SceneInv'
  BY <1>1 DEF SceneInv, SceneTypeOK, SceneBegun, RewardOnce, ViewsOwned,
            Newest, PlotToPlayer
<1>2. GameTypeOK /\ OnePlayerPerName /\ aborted \in BOOLEAN
  BY DEF SceneInv, SceneTypeOK
<1>3. UNCHANGED game => GameTypeOK' /\ OnePlayerPerName'
  BY <1>2 DEF GameTypeOK, OnePlayerPerName
<1>4. CASE UNCHANGED scenevars
  BY <1>1, <1>2, <1>3, <1>4 DEF scenevars
<1>5. ASSUME NEW c \in Conns, NEW n \in Names, Join(c, n) PROVE SceneInv'
  BY <1>1, <1>2, <1>5, AddPlayerKeeps DEF Join
<1>6. ASSUME NEW c \in Conns, Leave(c) PROVE SceneInv'
  BY <1>1, <1>2, <1>6, ClosePlayerKeeps DEF Leave
<1>7. ASSUME NEW c \in Conns, EnterAborts(c) PROVE SceneInv'
  BY <1>1, <1>3, <1>7 DEF EnterAborts
<1> QED
  BY <1>4, <1>5, <1>6, <1>7, EnterNewInv, EnterAgainInv, PlotNextInv, PlotOverInv
  DEF SceneNext, EnterRefused, PlotIgnored

\* Players, scenes and their entities keep their types; the entity of every
\* connection is one the scene has.
THEOREM SceneTypeCorrect == SceneSpec => []SceneTypeOK
<1>1. SceneInv => SceneTypeOK  BY DEF SceneInv
<1> QED  BY SceneInitInv, SceneNextInv, <1>1, PTL DEF SceneSpec

\* scene1_task rewards once, in the view that began the plot, for any number
\* of connections, returns and repeated PlotEnd messages.
THEOREM RewardOnceHolds == SceneSpec => []RewardOnce
<1>1. SceneInv => RewardOnce  BY DEF SceneInv
<1> QED  BY SceneInitInv, SceneNextInv, <1>1, PTL DEF SceneSpec

\* npc1_say and plotend always speak to the connection that moved the plot.
THEOREM PlotToPlayerHolds == SceneSpec => []PlotToPlayer
<1>1. SceneInv => PlotToPlayer  BY DEF SceneInv
<1> QED  BY SceneInitInv, SceneNextInv, <1>1, PTL DEF SceneSpec

\* A line goes into the newest view of the connection that is told, or into the
\* first view if that connection never entered the scene, for any number of
\* connections, takeovers and views.
THEOREM LineToPlayerHolds == SceneSpec => LineToPlayer
<1>1. SceneInv /\ [SceneNext]_scenevars => [LineStep]_scenevars
  <2> SUFFICES ASSUME SceneInv, SceneNext, NEW n \in Names, NEW i \in 1..Len(views[n]),
                      views'[n][i].line # views[n][i].line
               PROVE  IF ViewsOf(n, told'.to) = {} THEN i = 1
                      ELSE /\ i \in ViewsOf(n, told'.to)
                           /\ \A j \in ViewsOf(n, told'.to) : j <= i
    BY DEF LineStep
  <2>0. views \in [Names -> Seq(View)] /\ views[n] \in Seq(View) /\ views[n][i] \in View
    BY DEF SceneInv, SceneTypeOK
  <2>1. ~UNCHANGED views  OBVIOUS
  <2>2. ASSUME NEW c \in Conns, EnterNew(c) PROVE FALSE
    <3>1. views[gplayers[c]] = << >> /\ gplayers[c] \in Names
      BY <2>2, PlayerIsFound DEF EnterNew, SceneInv, SceneBegun
    <3>2. n # gplayers[c]  BY <3>1
    <3> QED  BY <2>0, <2>2, <3>1, <3>2 DEF EnterNew
  <2>3. ASSUME NEW c \in Conns, EnterAgain(c) PROVE FALSE
    BY <2>0, <2>3 DEF EnterAgain
  <2>4. ASSUME NEW c \in Conns, PlotOver(c) PROVE FALSE
    <3>1. gplayers[c] \in Names /\ hero[gplayers[c]] = 1 /\ Len(views[gplayers[c]]) >= 1
      BY <2>4, PlayerIsFound, SceneAssumption
      DEF PlotOver, SceneInv, SceneBegun
    <3>2. n = gplayers[c]  BY <2>0, <2>4 DEF PlotOver
    <3>3. views'[n] = [views[n] EXCEPT ![1].mineral = @ + 1]
      BY <2>0, <2>4, <3>1, <3>2 DEF PlotOver
    <3>4. CASE i = 1
      <4>1. views'[n][1] = [views[n][1] EXCEPT !.mineral = @ + 1]
        BY <2>0, <3>3, <3>4
      <4> QED  BY <2>0, <3>4, <4>1 DEF View
    <3>5. CASE i # 1  BY <2>0, <3>3, <3>5
    <3> QED  BY <3>4, <3>5
  <2>5. PICK c \in Conns : PlotNext(c)
    BY <2>1, <2>2, <2>3, <2>4
    DEF SceneNext, Join, Leave, EnterAborts, EnterRefused, PlotIgnored, scene, scenevars
  <2>6. gplayers[c] \in Names /\ name2id[gplayers[c]] = c /\ c # None
    BY <2>5, PlayerIsFound, PlayersAssumption DEF PlotNext
  <2>7. n = gplayers[c] /\ told'.to = c  BY <2>0, <2>5, <2>6 DEF PlotNext
  <2> DEFINE e == EntityOf(connid2eid[n], c)
  <2>8. i = e
    <3>1. views'[n] = Say(views[n], connid2eid[n], c, plot[n] + 1)
      BY <2>0, <2>5, <2>6, <2>7 DEF PlotNext
    <3> QED  BY <2>0, <3>1 DEF Say
  <2>9. Newest(views[n], connid2eid[n], c)  BY DEF SceneInv, ViewsOwned
  <2>10. CASE connid2eid[n][c] = 0
    BY <2>6, <2>7, <2>8, <2>9, <2>10 DEF EntityOf, Newest, ViewsOf
  <2>11. CASE connid2eid[n][c] # 0
    BY <2>6, <2>7, <2>8, <2>9, <2>11 DEF EntityOf, Newest, ViewsOf
  <2> QED  BY <2>10, <2>11
<1> QED  BY SceneInitInv, SceneNextInv, <1>1, PTL DEF SceneSpec, LineToPlayer

=============================================================================
