---------------------------- MODULE MCDbRestore ----------------------------
(* DbRestore for TLC.                                                       *)
EXTENDS DbRestore, TLC

CONSTANTS b0, b1

\* A backup of an older version, and one that is damaged.
MCUpload ==
    {[base |-> b1, rows |-> {}, tables |-> FALSE], Spoilt}

\* Restores are interchangeable, and so are statements.
HandlerAndWriterSymmetry == Permutations(Handler) \cup Permutations(Writer)
=============================================================================
