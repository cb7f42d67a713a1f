----------------------------- MODULE MCWorkspace -----------------------------
EXTENDS Workspace

\* A text of two chunks, one that cannot be read, a csv file and a workbook.
Docs == {[kind |-> "text", ok |-> TRUE, n |-> 2], [kind |-> "text", ok |-> FALSE, n |-> 0],
         [kind |-> "csv", ok |-> TRUE, n |-> 0], [kind |-> "xlsx", ok |-> TRUE, n |-> 1]}

Symmetry == Permutations(Thread) \cup Permutations(Exec) \cup Permutations(Review)
=============================================================================
