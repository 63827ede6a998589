------------------------------ MODULE MCSceneTokens ------------------------------
(* Small instance: two commands that replace the brand, two binds, and two   *)
(* of everything that is counted.                                            *)
EXTENDS SceneTokens
=============================================================================
