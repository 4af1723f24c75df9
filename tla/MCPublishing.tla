--------------------------- MODULE MCPublishing ---------------------------
(***************************************************************************)
(* A team's editor and admin publish and protect workflows; callers with    *)
(* and without a key run them, with tokens bought for a password, while     *)
(* time passes.                                                            *)
(***************************************************************************)
EXTENDS Publishing, TLC

CONSTANTS ed, ad \* the built-in roles editor and admin of the seed migration

EditorAndAdmin == [p \in Publisher |->
    {"view", "run", "edit", "export"} \cup IF p = ad THEN {"protect_export", "delete"} ELSE {}]

Symmetric == Permutations(Workflow)

=============================================================================
