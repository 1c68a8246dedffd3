---------------------------- MODULE MCTurnLocks -----------------------------
(***************************************************************************)
(* Three goroutines on two chats: two contend for one chat while the third *)
(* comes, goes, or uses the other; as many addresses as goroutines, so an  *)
(* allocation always finds one and freed ones are reused.                  *)
(***************************************************************************)
EXTENDS TurnLocks
=============================================================================
