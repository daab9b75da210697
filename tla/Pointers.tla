------------------------------ MODULE Pointers ------------------------------
CONSTANT NULL    \* the null pointer
=============================================================================
