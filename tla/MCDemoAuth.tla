---------------------------- MODULE MCDemoAuth ----------------------------
(***************************************************************************)
(* A small demo-server: the tasks, clock and bounds are in the .cfg files. *)
(***************************************************************************)
EXTENDS DemoAuth, MCLoginData

============================================================================
