------------------------------ MODULE MCEditor ------------------------------
(* A workspace of two paths, one of them free, and two patches that have   *)
(* the four kinds of sections between them.                                *)
EXTENDS EditorTasks, TLC

CONSTANTS fileF, fileG   \* the paths

MCWorkspaces == {(fileF :> "old") @@ (fileG :> Absent)}

Section(old, new) == [old |-> old, new |-> new]

MCReviews == {
    <<Section(fileF, NoFile), Section(NoFile, fileG)>>,   \* a deletion, a new file
    <<Section(fileF, fileG), Section(fileG, fileG)>>      \* a rename, then a change
  }
=============================================================================
