------------------------------- MODULE MCSrt --------------------------------
EXTENDS SrtProps, TLC

Simetria == Permutations(Cpu)
=============================================================================
