------------------------------ MODULE MCFlashLog ------------------------------
(***************************************************************************)
(* FlashLog with two body pieces (so that a torn body and a body with a      *)
(* missing last piece differ), three mutations and six generations: enough   *)
(* for two persisted versions in the two slots, a third over the older one,  *)
(* and a retry of each.                                                      *)
(***************************************************************************)
EXTENDS FlashLog

MCPieces        == 2
MCMaxVersion    == 3
MCMaxGeneration == 6
=============================================================================
