------------------------------ MODULE MC_Callers ------------------------------
(* Small process tables: init, and below it two or three processes.         *)
EXTENDS Callers, TLC

CONSTANTS c1, c2, key

AllSlots == Context \X Fingerprint

DecryptSlots == {k \in AllSlots : k[2] = DecryptFp}

Chain == <<0, 1, 2>>

Lines == <<{1}, {1, 2}, {1, 2, 3}>>

NoTerminal == <<0, 0, 0>>

\* Two processes on a terminal, or one of them without.
Terminals ==
    {[mode |-> "per-session", parent |-> Chain, line |-> Lines, tty |-> <<0, t, 7>>, apps |-> {},
      asked |-> {key}] :
        t \in {0, 7}}

\* The older of the two is an application, or none is.
Applications ==
    {[mode |-> "per-app", parent |-> Chain, line |-> Lines, tty |-> NoTerminal, apps |-> a,
      asked |-> {DecryptFp}] :
        a \in {{}, {2}}}

AllWorlds == Terminals \cup Applications

\* The connections are interchangeable.
Swaps == Permutations(Session)
=============================================================================
