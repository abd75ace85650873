------------------------------ MODULE GameScene ------------------------------
(***************************************************************************)
(* The single-player scenes of the game demo (game_t and scene_t in          *)
(* example/game_demo.cpp, static_interface in example/game_component.cpp).   *)
(* A player who enters gets a view entity in the scene of that name; the     *)
(* scene's plot is a generator that goes one line further at every PlotEnd.  *)
(* The scene stays when the connection goes, and the next connection of the  *)
(* player enters the same one.                                               *)
(*                                                                         *)
(* Scenes never destroy an entity, so an entity is known by the position in  *)
(* which it was created, from 1 on; entity index 0 is position 1.            *)
(***************************************************************************)
EXTENDS Naturals, Sequences, GamePlayers

CONSTANTS
  PlotLen,   \* lines of the plot, WAIT_TYPEs in scene1_task
  MaxViews   \* bound on the times one scene is entered

ASSUME SceneAssumption == PlotLen \in Nat \ {0} /\ MaxViews \in Nat

VARIABLES
  asserts,    \* the build checks its assertions
  aborted,    \* an assertion has failed
  plot,       \* per name: 0 no scene, 1..PlotLen the line waited at, PlotLen + 1 over
  views,      \* per name: the entities of the scene with their PlayerConn
  connid2eid, \* scene_t::connid2eid, 0 for none
  hero,       \* the entity `e` of scene1_task
  told        \* history: whose message made the plot speak, and to whom

scene == <<plot, views, connid2eid, hero>>
scenevars == <<asserts, aborted, game, scene, told>>

\* PlayerConn: connection, msgLastMsg as the number of its line, reward.
View == [conn : Conns, line : 0..PlotLen, mineral : Nat]

Silence == [by |-> None, to |-> None]

SceneInit ==
  /\ asserts \in BOOLEAN /\ aborted = FALSE
  /\ GameInit
  /\ plot = [n \in Names |-> 0] /\ views = [n \in Names |-> << >>]
  /\ connid2eid = [n \in Names |-> [c \in Conns |-> 0]]
  /\ hero = [n \in Names |-> 0]
  /\ told = Silence

-----------------------------------------------------------------------------
(* Players come and go, see GameLogin *)

\* rpc_add_player
Join(c, n) == RpcAddPlayer(c, n) /\ UNCHANGED <<asserts, aborted, scene, told>>

\* on_msg, close.
Leave(c) == ClosePlayer(c) /\ UNCHANGED <<asserts, aborted, scene, told>>

-----------------------------------------------------------------------------
(* MsgEnterSingleScene *)

\* geteid_fromconnid, as component reads it: without an entry the default id,
\* whose index is that of the first entity, and the version is not looked at.
EntityOf(ids, d) == IF d = None \/ ids[d] = 0 THEN 1 ELSE ids[d]

\* npc1_say: the player's connection is told, and its entity keeps the line.
Say(vs, ids, d, line) ==
  LET e == EntityOf(ids, d) IN
  IF e \in DOMAIN vs THEN [vs EXCEPT ![e].line = line] ELSE vs

NewView(c) == [conn |-> c, line |-> 0, mineral |-> 0]

\* get_scene1 makes the scene, enter_scene the view, and the plot begins: it
\* looks up the entity of the player and speaks its first line.
EnterNew(c) ==
  LET n   == gplayers[c]
      ids == [connid2eid[n] EXCEPT ![c] = 1]
  IN
  /\ n # None /\ plot[n] = 0 /\ MaxViews > 0
  /\ connid2eid' = [connid2eid EXCEPT ![n] = ids]
  /\ hero' = [hero EXCEPT ![n] = EntityOf(ids, name2id[n])]
  /\ views' = [views EXCEPT ![n] = Say(<<NewView(c)>>, ids, name2id[n], 1)]
  /\ plot' = [plot EXCEPT ![n] = 1]
  /\ told' = [by |-> c, to |-> name2id[n]]
  /\ UNCHANGED <<asserts, aborted, game>>

\* pack_addRoleRet: no entity of a scene has a DefenceCompoent, so its
\* assertion fails as soon as there is an entity to be packed.
EnterAborts(c) ==
  LET n == gplayers[c] IN
  /\ n # None /\ plot[n] # 0 /\ asserts
  /\ aborted' = TRUE
  /\ UNCHANGED <<asserts, game, scene, told>>

\* Variant: the plot starts again.
EnterAgainRestarts(c) ==
  LET n == gplayers[c]
      e == Len(views[n]) + 1
  IN
  /\ n # None /\ plot[n] # 0 /\ ~asserts /\ e <= MaxViews
  /\ views' = [views EXCEPT ![n] = Append(@, [NewView(c) EXCEPT !.line = 1])]
  /\ connid2eid' = [connid2eid EXCEPT ![n][c] = e]
  /\ plot' = [plot EXCEPT ![n] = 1]
  /\ UNCHANGED <<asserts, aborted, game, hero, told>>

\* Variant: an entry of the connection is kept, as emplace would.
EnterAgainEmplaces(c) ==
  LET n == gplayers[c]
      e == Len(views[n]) + 1
  IN
  /\ n # None /\ plot[n] # 0 /\ ~asserts /\ e <= MaxViews
  /\ views' = [views EXCEPT ![n] = Append(@, NewView(c))]
  /\ connid2eid' = [connid2eid EXCEPT ![n][c] = IF @ = 0 THEN e ELSE @]
  /\ UNCHANGED <<asserts, aborted, game, plot, hero, told>>

\* The scene is there, and the plot stays where it is; the player gets one
\* more view, and earlier ones remain.
EnterAgain(c) ==
  LET n == gplayers[c]
      e == Len(views[n]) + 1
  IN
  /\ n # None /\ plot[n] # 0 /\ ~asserts /\ e <= MaxViews
  /\ views' = [views EXCEPT ![n] = Append(@, NewView(c))]
  /\ connid2eid' = [connid2eid EXCEPT ![n][c] = e]
  /\ UNCHANGED <<asserts, aborted, game, plot, hero, told>>

\* players.at or scene_configs.at throws.
EnterRefused(c) == UNCHANGED scenevars

-----------------------------------------------------------------------------
(* MsgPlotEnd *)

\* ++S->gen up to the next line.
PlotNext(c) ==
  LET n == gplayers[c] IN
  /\ n # None /\ plot[n] \in 1..(PlotLen - 1)
  /\ plot' = [plot EXCEPT ![n] = @ + 1]
  /\ views' = [views EXCEPT ![n] = Say(@, connid2eid[n], name2id[n], plot[n] + 1)]
  /\ told' = [by |-> c, to |-> name2id[n]]
  /\ UNCHANGED <<asserts, aborted, game, connid2eid, hero>>

\* ++S->gen to the end, with the reward for the entity found at the beginning.
PlotOver(c) ==
  LET n == gplayers[c] IN
  /\ n # None /\ plot[n] = PlotLen
  /\ plot' = [plot EXCEPT ![n] = @ + 1]
  /\ views' = [views EXCEPT ![n][hero[n]].mineral = @ + 1]
  /\ told' = [by |-> c, to |-> name2id[n]]
  /\ UNCHANGED <<asserts, aborted, game, connid2eid, hero>>

\* players.at throws, or there is no scene, or its plot is over.
PlotIgnored(c) ==
  /\ gplayers[c] # None => plot[gplayers[c]] \in {0, PlotLen + 1}
  /\ UNCHANGED scenevars

-----------------------------------------------------------------------------

SceneNext ==
  \/ /\ ~aborted
     /\ \E c \in Conns :
          \/ \E n \in Names : Join(c, n)
          \/ Leave(c)
          \/ EnterNew(c) \/ EnterAborts(c) \/ EnterAgain(c) \/ EnterRefused(c)
          \/ PlotNext(c) \/ PlotOver(c) \/ PlotIgnored(c)
  \/ aborted /\ UNCHANGED scenevars

SceneSpec == SceneInit /\ [][SceneNext]_scenevars

-----------------------------------------------------------------------------
(* Properties *)

\* Every variable keeps its type.
SceneTypeOK ==
  /\ asserts \in BOOLEAN /\ aborted \in BOOLEAN /\ GameTypeOK
  /\ plot \in [Names -> 0..(PlotLen + 1)]
  /\ views \in [Names -> Seq(View)]
  /\ connid2eid \in [Names -> [Conns -> Nat]] /\ hero \in [Names -> Nat]
  /\ told \in [by : Conns \cup {None}, to : Conns \cup {None}]
  /\ \A n \in Names :
       /\ hero[n] <= Len(views[n])
       /\ \A c \in Conns : connid2eid[n][c] <= Len(views[n])

\* scene1_task: a player is rewarded once, in the view that began the plot,
\* however often the player comes back, enters again or repeats PlotEnd; and
\* the last assertion of the task holds.
RewardOnce ==
  \A n \in Names :
    \A i \in 1..Len(views[n]) :
      views[n][i].mineral = IF i = 1 /\ plot[n] = PlotLen + 1 THEN 1 ELSE 0

\* npc1_say, plotend, say: the plot talks to the connection whose message made
\* it go on, although it looks the connection up by the player's name.
PlotToPlayer == told.by = told.to

\* The views of a connection in the scene of n.
ViewsOf(n, c) == {j \in 1..Len(views[n]) : views[n][j].conn = c}

LineStep ==
  \A n \in Names : \A i \in 1..Len(views[n]) :
    views'[n][i].line # views[n][i].line =>
      IF ViewsOf(n, told'.to) = {} THEN i = 1
      ELSE i \in ViewsOf(n, told'.to) /\ \A j \in ViewsOf(n, told'.to) : j <= i

\* npc1_say: a line goes into the newest view of the connection that is told,
\* and into no other, however often connections come back and take over.  Only if
\* that connection has not entered the scene, the first view gets it, whosever
\* it is.
LineToPlayer == [][LineStep]_scenevars

=============================================================================
