---------------------------- MODULE SecretStrings ----------------------------
(***************************************************************************)
(* Secrets as text (src/core.rs) and the substitution of vt-yubi inject    *)
(* (src/cli.rs).  A text is a sequence of words and of references          *)
(* "vt://mac/<type><base64>"; a reference is the type of the secret and    *)
(* the text that was sealed in it.  References that occur are copied whole *)
(* or cut off where nothing is beside them: none is the beginning of       *)
(* another one.                                                            *)
(***************************************************************************)
EXTENDS SequencesExt

CONSTANTS
    Word,      \* what a text holds between its references
    Reference, \* the references that occur, [t, sealed]
    Spoilt,    \* sealed under another passphrase, or cut off
    Base32,    \* the texts a one-time password can be computed from
    Code,      \* a one-time password
    ErrorText  \* the err_message of an item

Token == Word \cup Reference \cup {Code, ErrorText}

Text == Seq(Token)

ASSUME TextAssumption ==
    /\ Spoilt \notin Text
    /\ \A r \in Reference : r.sealed \in Text \cup {Spoilt}

IsReference(token) == token \in Reference

-----------------------------------------------------------------------------
(* The server.  Every item has a result of its own, in the same place.      *)

Result(text) == [ok |-> TRUE, text |-> text]

Error == [ok |-> FALSE, text |-> <<>>]

\* do_encrypt of one item.
Sealed(text, type) == Result(<<[t |-> type, sealed |-> text]>>)

\* do_decrypt of one item.
Opened(r) ==
    IF r.t = "unknown" \/ r.sealed = Spoilt THEN Error
    ELSE IF r.t = "raw" THEN Result(r.sealed)
    ELSE IF r.sealed \in Base32 THEN Result(<<Code>>)
    ELSE Error

DoDecrypt(items) == [i \in DOMAIN items |-> Opened(items[i])]

-----------------------------------------------------------------------------
(* decrypt_from_multi_str.                                                  *)

\* vt_pattern.find_iter, in one text.
References(text) ==
    FlattenSeq([i \in DOMAIN text |->
        IF IsReference(text[i]) THEN <<text[i]>> ELSE <<>>])

\* encrypted_vec: the references of all texts, in order.
Items(texts) == FlattenSeq([i \in DOMAIN texts |-> References(texts[i])])

\* str::replace.
Replaced(text, r, value) ==
    FlattenSeq([i \in DOMAIN text |-> IF text[i] = r THEN value ELSE <<text[i]>>])

\* The text that stands for a result, be it the secret or the error.
Value(result) == IF result.ok THEN result.text ELSE <<ErrorText>>

\* Fault: the results that failed are filtered out.
ValuesOfTheGood(items, results) ==
    LET good == SelectSeq(results, LAMBDA x : x.ok)
    IN  [r \in ToSet(items) |->
            LET i == CHOOSE j \in DOMAIN items : items[j] = r
            IN  IF i \in DOMAIN good THEN Value(good[i]) ELSE <<r>>]

\* secret_map.
SecretMap(items, results) ==
    [r \in ToSet(items) |->
        Value(results[CHOOSE i \in DOMAIN items : items[i] = r])]

\* The orders in which a HashMap may yield its keys.
Orders(map) == SetToSeqs(DOMAIN map)

\* result_str, one reference after the other.
Substituted(text, map, order) ==
    LET done[k \in 0..Len(order)] ==
            IF k = 0 THEN text ELSE Replaced(done[k - 1], order[k], map[order[k]])
    IN  done[Len(order)]

-----------------------------------------------------------------------------
(* inject: its arguments, then the file, then the environment variables     *)
(* that hold a reference go into one list, and come out of it again.        *)

HoldsReference(text) == \E i \in DOMAIN text : IsReference(text[i])

\* env_vt_vars, as positions in the environment.
VtVars(env) ==
    FlattenSeq([i \in DOMAIN env |-> IF HoldsReference(env[i]) THEN <<i>> ELSE <<>>])

InjectTexts(job) ==
    job.args \o <<job.file>>
        \o [k \in DOMAIN VtVars(job.env) |-> job.env[VtVars(job.env)[k]]]

\* pop(), once for every variable after the k-th and once for the k-th.
PoppedFor(texts, k, count) == texts[Len(texts) - (count - k)]

(* What the program is run with, when the decrypted list is `texts`.        *)
Taken(job, texts) ==
    LET vars == VtVars(job.env)
    IN  [args |-> SubSeq(texts, 1, Len(job.args)),
         file |-> texts[Len(texts) - Len(vars)],
         env  |-> [i \in DOMAIN job.env |->
                      IF HoldsReference(job.env[i])
                        THEN PoppedFor(texts, CHOOSE k \in DOMAIN vars : vars[k] = i, Len(vars))
                        ELSE job.env[i]]]

InjectOutcomes(job, results) ==
    LET texts == InjectTexts(job)
        map   == SecretMap(Items(texts), results)
    IN  {Taken(job, [i \in DOMAIN texts |-> Substituted(texts[i], map, order)]) :
            order \in Orders(map)}

-----------------------------------------------------------------------------
(* The reference: every reference stands for its own value, once.           *)

Meaning(text) ==
    FlattenSeq([i \in DOMAIN text |->
        IF IsReference(text[i]) THEN Value(Opened(text[i])) ELSE <<text[i]>>])

Meant(job) ==
    [args |-> [i \in DOMAIN job.args |-> Meaning(job.args[i])],
     file |-> Meaning(job.file),
     env  |-> [i \in DOMAIN job.env |-> Meaning(job.env[i])]]

(* No secret that is asked for contains a reference that is asked for.      *)
Flat(job) ==
    LET asked == ToSet(Items(InjectTexts(job)))
    IN  \A r \in asked : ToSet(Value(Opened(r))) \cap asked = {}
=============================================================================
