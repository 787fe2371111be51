--------------------------- MODULE MCProcessRefs ---------------------------
(***************************************************************************)
(* ProcessRefs on its own: two processes and three threads, one of them    *)
(* started by the program itself.                                          *)
(***************************************************************************)
EXTENDS ProcessRefs
=============================================================================
