--------------------------- MODULE MCRefusedTables ---------------------------
EXTENDS RefusedTables

row(r, wide) == [k |-> "row", row |-> r, wide |-> wide]
ddl(s)       == [k |-> "ddl", shape |-> s]

\* A wide row and a narrow one, alone and together; the row narrowed; the
\* three shapes.
MCTransactions ==
    {<<row(1, TRUE)>>, <<row(2, FALSE)>>, <<row(1, TRUE), row(2, FALSE)>>,
     <<row(1, FALSE)>>, <<ddl("ok")>>, <<ddl("many"), row(2, FALSE)>>, <<ddl("exotic")>>}
=============================================================================
