----------------------------- MODULE MC_SshAgent -----------------------------
(* Small instances of SshAgent: which connection comes from which context, *)
(* and what it asks for.                                                    *)
EXTENDS SshAgent

CONSTANTS s1, s2, k1, k2, tty1, tty2

\* Both connections come from one terminal.
OneTerminal == [s \in Session |-> tty1]

\* The first connection comes from a terminal of its own.
Apart == [s \in Session |-> IF s = s1 THEN tty1 ELSE tty2]

\* Approvals are not remembered (cache mode none, or no peer pid).
Uncached == [s \in Session |-> NoContext]

Anyone(ops) == [a \in Actor |-> ops]

StoreOps == Anyone((SessionOp \cup CommandOp) \ {"decrypt", "auth"})

\* One connection changes the keys, the other asks for approvals and locks.
AgentOps ==
    [a \in Actor |-> IF a = s1 THEN SessionOp \ {"list", "encrypt"}
                     ELSE {"sign", "decrypt", "lock"}]

DecryptLockOps == Anyone({"decrypt", "lock"})
=============================================================================
