------------------------- MODULE MCPatchTransaction -------------------------
(***************************************************************************)
(* Two tasks.  The patch of the first updates a file, creates one and      *)
(* deletes one; its repair changes the created file again; the patch of the*)
(* second updates the first file.                                          *)
(***************************************************************************)
EXTENDS PatchTransaction

CONSTANTS source, test, obsolete, first, repair, other, t1, t2, old, new

Op(path, before, after) == [path |-> path, before |-> before, after |-> after]

MCTaskOf == [p \in Patch |-> IF p = other THEN t2 ELSE t1]

MCChanges == [p \in Patch |->
  CASE p = first -> <<Op(source, old, new), Op(test, Absent, old), Op(obsolete, old, Absent)>>
    [] p = repair -> <<Op(test, old, new)>>
    [] p = other -> <<Op(source, new, old), Op(obsolete, Absent, new)>>]
=============================================================================
