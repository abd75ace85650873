----------------------------- MODULE GamePlayers -----------------------------
(***************************************************************************)
(* game_t of the demo (example/game_demo.cpp): which connection plays under *)
(* which name.  GameLogin says when players come and go, GameScene what     *)
(* they do meanwhile.                                                       *)
(***************************************************************************)
CONSTANTS
  Conns,      \* connection ids, as rpc_get_allocid hands them out
  Names,      \* player names
  None        \* no player, no name, no connection

ASSUME PlayersAssumption == None \notin Conns /\ None \notin Names

VARIABLES
  gplayers,   \* game_t::players: name by connection
  name2id     \* game_t::name2id

game == <<gplayers, name2id>>

GameInit ==
  /\ gplayers = [c \in Conns |-> None] /\ name2id = [n \in Names |-> None]

\* Variant: the player who had the name stays.
RpcAddPlayerKeepsOld(c, n) ==
  /\ gplayers' = [gplayers EXCEPT ![c] = n]
  /\ name2id' = [name2id EXCEPT ![n] = c]

\* rpc_add_player: the player who had the name goes.
RpcAddPlayer(c, n) ==
  /\ gplayers' = [d \in Conns |-> IF d = c THEN n
                                  ELSE IF d = name2id[n] THEN None ELSE gplayers[d]]
  /\ name2id' = [name2id EXCEPT ![n] = c]

\* on_msg, close; nothing for a connection that does not play.
ClosePlayer(c) ==
  /\ name2id' = [n \in Names |-> IF n = gplayers[c] THEN None ELSE name2id[n]]
  /\ gplayers' = [gplayers EXCEPT ![c] = None]

GameTypeOK ==
  /\ gplayers \in [Conns -> Names \cup {None}]
  /\ name2id \in [Names -> Conns \cup {None}]

\* rpc_add_player and close: whoever plays under a name is the one the name
\* leads to, so no two connections ever play under one name.
OnePlayerPerName ==
  \A c \in Conns : gplayers[c] # None => name2id[gplayers[c]] = c

=============================================================================
