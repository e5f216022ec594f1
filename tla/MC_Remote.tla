------------------------------ MODULE MC_Remote ------------------------------
(* Two servers, one of the commands at a time, and another HTTP client.     *)
EXTENDS Remote

CONSTANTS a, b, c1, f1, word, other, seed

Raw(text) == [t |-> "raw", sealed |-> text]

First  == Raw(<<word>>)
Second == Raw(<<other>>)
Bad    == Raw(Spoilt)
Nested == Raw(<<other, First>>)
Totp   == [t |-> "totp", sealed |-> <<seed>>]
NoSeed == [t |-> "totp", sealed |-> <<word>>]
Typo   == [t |-> "unknown", sealed |-> <<word>>]

Words == {word, other, seed}

AllReferences == {First, Second, Bad, Nested, Totp, NoSeed, Typo}

Seeds == {<<seed>>}

Asking(op, t, args, file, env, token) ==
    [op |-> op, t |-> t, args |-> args, file |-> file, env |-> env, token |-> token]

Create(t, token)  == Asking("create", t, <<<<word>>>>, <<>>, <<>>, token)
Read(r, token)    == Asking("read", "raw", <<<<r>>>>, <<>>, <<>>, token)
Auth              == Asking("auth", "raw", <<>>, <<>>, <<>>, TRUE)
Inject(args, file, env) == Asking("inject", "raw", args, file, env, TRUE)

\* References twice, in words, unreadable, in variables beside one without.
Mixed ==
    Inject(<<<<word>>, <<word, Second, Second>>>>, <<Bad, other, First>>,
           <<<<Second>>, <<word>>, <<First, Totp>>>>)

OnlyFile == Inject(<<>>, <<First, NoSeed>>, <<>>)

InNested == Inject(<<<<Nested>>, <<First>>>>, <<>>, <<>>)

AllJobs ==
    {Create("raw", TRUE), Read(Totp, TRUE), Read(Typo, TRUE), Auth, Mixed,
     OnlyFile, InNested, Read(First, FALSE)}

SomeForeign == {Create("raw", TRUE), Read(First, TRUE), Read(First, FALSE)}

JustCreate == {Create("raw", TRUE)}

JustAuth == {Auth}
=============================================================================
