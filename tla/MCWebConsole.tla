---- MODULE MCWebConsole ----
EXTENDS WebConsole, TLC
Sym == Permutations(Slots)
====
