------------------------------ MODULE MCSesiMap ------------------------------
EXTENDS SesiMapProperties

\* A cell is emptied, or two indexes are set or added.  Two stay in the cell,
\* four make a list, whose block of seven then holds six and not eight; a
\* list of four that was written back has no room for more.
BatchesValue == {<< >>, <<1, 2>>}
\* Room for two entries without lists, or for one with a list.
LimitsValue == {36}
=============================================================================
