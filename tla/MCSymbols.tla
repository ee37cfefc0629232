------------------------------ MODULE MCSymbols ------------------------------
EXTENDS Symbols

CONSTANTS n1

MCNames == {n1}

=============================================================================
