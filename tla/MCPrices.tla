------------------------------ MODULE MCPrices ------------------------------
EXTENDS Prices

\* A file with blanks to trim, an empty line, and a name on two lines.
MCLines == << <<"A">>, <<" ", "A">>, <<" ">>, <<"B", " ">> >>
=============================================================================
