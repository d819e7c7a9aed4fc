----------------------------- MODULE MCWrapProxy -----------------------------
EXTENDS WrapProxy
=============================================================================
