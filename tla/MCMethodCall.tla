----------------------------- MODULE MCMethodCall -----------------------------
EXTENDS MethodCall

\* Twice the one and the sum of the other with itself are out of range.
SmallInts == {-8, 9}
================================================================================
