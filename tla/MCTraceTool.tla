---------------------------- MODULE MCTraceTool ----------------------------
(***************************************************************************)
(* Two task names, one of them recurring, up to three fibers, three cycles, *)
(* two sessions and one crash; a long name can be written as well.          *)
(***************************************************************************)
EXTENDS TraceTool

MCTasks == {"a", "R&x", "long"}

MCRecurring == {"R&x"}

MCLongTasks == {"long"}
=============================================================================
