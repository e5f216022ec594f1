----------------------------- MODULE SecretsIndex -----------------------------
(***************************************************************************)
(* The index of secrets, secrets.json, as the commands create, list,       *)
(* delete and read of src/cli.rs use it.  list numbers what it prints;     *)
(* delete and read take such a number.  Every command that changes the     *)
(* index loads it, changes its copy, truncates the file and writes it.     *)
(***************************************************************************)
EXTENDS SequencesExt

CONSTANTS
    Proc,       \* processes of the command line
    Word,       \* what a description may contain
    Search,     \* the keywords users search for, a subset of Word
    Everything, \* list without --search
    NoListing,  \* no list since the index changed
    MaxId,      \* no more secrets than this are created (bound)
    Crashes     \* may processes die between two steps?

ASSUME SearchAssumption ==
    Search \subseteq Word /\ Everything \notin Word /\ NoListing \notin Word \cup {Everything}
ASSUME BoundAssumption == MaxId \in Nat /\ Crashes \in BOOLEAN

VARIABLES
    file,    \* the entries of secrets.json
    whole,   \* FALSE while, or because, the file is truncated
    pc,      \* where each process is
    op,      \* the command it runs
    snap,    \* the entries it is about to save
    number,  \* the number the user gave to delete or read
    meant,   \* the entry it stands for in the listing, while that is true
    picked,  \* the entries delete and read have picked, with what was meant
    seen,    \* what the user listed, while the listing is true
    nextId   \* the next secret

vars == <<file, whole, pc, op, snap, number, meant, picked, seen, nextId>>

Entry == [id : 1..MaxId, word : Word]

NoEntry == [id |-> 0, word |-> Everything]

Continue(p, label) == pc' = [pc EXCEPT ![p] = label]

Init ==
    /\ file = <<>> /\ whole = TRUE
    /\ pc = [p \in Proc |-> "idle"]
    /\ op = [p \in Proc |-> "none"]
    /\ snap = [p \in Proc |-> <<>>]
    /\ number = [p \in Proc |-> 0]
    /\ meant = [p \in Proc |-> NoEntry]
    /\ picked = {}
    /\ seen = NoListing
    /\ nextId = 1

-----------------------------------------------------------------------------
Matches(e, keyword) == keyword \in {Everything, e.word}

\* The entry that list prints under number n: the n-th of those that match.
Shown(entries, keyword, n) ==
    LET nth == {i \in 1..Len(entries) :
                   /\ Matches(entries[i], keyword)
                   /\ Cardinality({j \in 1..i : Matches(entries[j], keyword)}) = n}
    IN  IF nth = {} THEN NoEntry ELSE entries[CHOOSE i \in nth : TRUE]

\* list fails on a broken file.
List ==
    /\ whole
    /\ seen' \in Search \cup {Everything}
    /\ UNCHANGED <<file, whole, pc, op, snap, number, meant, picked, nextId>>

\* Nth(entries, 0) and what lies beyond the end is an invalid number.
Nth(entries, n) == IF n \in 1..Len(entries) THEN entries[n] ELSE NoEntry

\* A number is given to delete or read; the listing may show an entry there.
Pick(p, o) ==
    /\ pc[p] = "idle"
    /\ \E n \in 0..(MaxId + 1) :
          /\ number' = [number EXCEPT ![p] = n]
          /\ meant' = [meant EXCEPT ![p] =
                         IF seen = NoListing THEN NoEntry ELSE Shown(file, seen, n)]
    /\ op' = [op EXCEPT ![p] = o]
    /\ Continue(p, "load")
    /\ UNCHANGED <<file, whole, snap, picked, seen, nextId>>

Done(p) ==
    /\ Continue(p, "idle")
    /\ op' = [op EXCEPT ![p] = "none"]
    /\ snap' = [snap EXCEPT ![p] = <<>>]
    /\ number' = [number EXCEPT ![p] = 0]

Finish(p) == Done(p) /\ meant' = [meant EXCEPT ![p] = NoEntry]

\* The entry a command picks from the index it loaded.
\* Fault: the number is taken for an offset from 0.
AtOffset(entries, n) == IF n < Len(entries) THEN entries[n + 1] ELSE NoEntry

AtNumber(entries, n) == Nth(entries, n)

\* Fault: the number is not made an offset.
WithoutNext(entries, n) == RemoveAt(entries, n + 1)

Without(entries, n) == RemoveAt(entries, n)

\* The pick is recorded if the listing it goes by is true at that moment.
Record(p, e) ==
    picked' = IF meant[p] # NoEntry THEN picked \cup {<<meant[p], e>>} ELSE picked

(* delete: a broken or an empty index and a number out of range end it;     *)
(* otherwise the entry at that position of the whole index goes.            *)
DeleteLoad(p) ==
    /\ pc[p] = "load" /\ op[p] = "delete"
    /\ IF ~whole \/ AtNumber(file, number[p]) = NoEntry
         THEN Finish(p) /\ UNCHANGED picked
         ELSE /\ Record(p, AtNumber(file, number[p]))
              /\ snap' = [snap EXCEPT ![p] = Without(file, number[p])]
              /\ Continue(p, "truncate")
              /\ UNCHANGED <<op, number, meant>>
    /\ UNCHANGED <<file, whole, seen, nextId>>

\* read by number: resolve_read_target.
ReadLoad(p) ==
    /\ pc[p] = "load" /\ op[p] = "read"
    /\ IF ~whole \/ AtNumber(file, number[p]) = NoEntry
         THEN UNCHANGED picked
         ELSE Record(p, AtNumber(file, number[p]))
    /\ Finish(p)
    /\ UNCHANGED <<file, whole, seen, nextId>>

\* Fault: a secret that was given no description is indexed as well.
WithUndescribed(e) == Append(file, [e EXCEPT !.word = Everything])

\* create takes an index it cannot load for an empty one.
WithNew(e) == Append(IF whole THEN file ELSE <<>>, e)

\* create -d: the secret has been encrypted, its entry is added to the index.
CreateLoad(p) ==
    /\ pc[p] = "idle" /\ nextId <= MaxId
    /\ \E w \in Word :
          snap' = [snap EXCEPT ![p] = WithNew([id |-> nextId, word |-> w])]
    /\ nextId' = nextId + 1
    /\ op' = [op EXCEPT ![p] = "create"]
    /\ Continue(p, "truncate")
    /\ UNCHANGED <<file, whole, number, meant, picked, seen>>

\* The index is about to differ from what the user looked at.
ListingOutdated == seen' = NoListing /\ meant' = [q \in Proc |-> NoEntry]

Truncate(p) ==
    /\ pc[p] = "truncate"
    /\ file' = <<>> /\ whole' = FALSE
    /\ ListingOutdated
    /\ Continue(p, "write")
    /\ UNCHANGED <<op, snap, number, picked, nextId>>

(* The whole text is written from the start of the file: the tail of a      *)
(* longer text that another process wrote since the truncation may stay.    *)
Write(p) ==
    /\ pc[p] = "write"
    /\ file' = snap[p]
    /\ whole' \in IF whole THEN BOOLEAN ELSE {TRUE}
    /\ Done(p)
    /\ ListingOutdated
    /\ UNCHANGED <<picked, nextId>>

Die(p) ==
    /\ Crashes /\ pc[p] # "idle"
    /\ Finish(p)
    /\ UNCHANGED <<file, whole, picked, seen, nextId>>

Next ==
    \/ List
    \/ \E p \in Proc :
          \/ \E o \in {"delete", "read"} : Pick(p, o)
          \/ DeleteLoad(p) \/ ReadLoad(p) \/ CreateLoad(p)
          \/ Truncate(p) \/ Write(p) \/ Die(p)

Spec == Init /\ [][Next]_vars

-----------------------------------------------------------------------------
\* The index holds described secrets; the other variables keep their types.
TypeOK ==
    /\ file \in Seq(Entry)
    /\ whole \in BOOLEAN
    /\ pc \in [Proc -> {"idle", "load", "truncate", "write"}]
    /\ op \in [Proc -> {"none", "create", "delete", "read"}]
    /\ snap \in [Proc -> Seq(Entry)]
    /\ number \in [Proc -> 0..(MaxId + 1)]
    /\ meant \in [Proc -> Entry \cup {NoEntry}]
    /\ picked \subseteq Entry \X Entry
    /\ seen \in Search \cup {Everything, NoListing}
    /\ nextId \in 1..(MaxId + 1)

(* delete and read act on the entry that the listing shows at the number    *)
(* they are given ("by its number (shown in `vt list`)", main.rs:78), as    *)
(* long as nothing changed the index since it was listed.                   *)
PicksWhatWasShown == \A pair \in picked : pair[1] = pair[2]

(* delete takes that entry out of the index, and no other one.              *)
DeletesWhatWasShown ==
    [][\A p \in Proc :
          pc[p] = "load" /\ pc'[p] = "truncate" /\ meant[p] # NoEntry =>
              ToSet(snap'[p]) = ToSet(file) \ {meant[p]}]_vars
=============================================================================
