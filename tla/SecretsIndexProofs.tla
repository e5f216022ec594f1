-------------------------- MODULE SecretsIndexProofs --------------------------
(***************************************************************************)
(* The index of secrets, for any number of processes, entries and deaths.  *)
(* TypeOK is inductive as it stands.  The numbers of vt-yubi list mean the *)
(* same to delete and read while the index stays as it was listed, as long *)
(* as nobody searches.                                                     *)
(*                                                                         *)
(* PicksWhatWasShown speaks of what was picked.  It is inductive together  *)
(* with what makes the next pick right: nothing but the whole index is     *)
(* listed, and a number somebody has read off the listing stands for the   *)
(* entry at that position of the index (Pending).                          *)
(***************************************************************************)
EXTENDS SecretsIndex, SequenceTheorems, FiniteSetTheorems, TLAPS

\* No entry of the index is the one that stands for none.
LEMMA EntriesAreSome == NoEntry \notin Entry
  BY BoundAssumption DEF NoEntry, Entry

\* The entry at a position, or none.
LEMMA NthType ==
    ASSUME NEW entries \in Seq(Entry), NEW n \in 0..(MaxId + 1)
    PROVE  /\ Nth(entries, n) \in Entry \cup {NoEntry}
           /\ Nth(entries, n) # NoEntry => n \in 1..Len(entries)
  BY EntriesAreSome DEF Nth

\* The entry listed under a number, or none.
LEMMA ShownType ==
    ASSUME NEW entries \in Seq(Entry), NEW k, NEW n
    PROVE  Shown(entries, k, n) \in Entry \cup {NoEntry}
<1>. DEFINE nth == {i \in 1..Len(entries) :
                       /\ Matches(entries[i], k)
                       /\ Cardinality({j \in 1..i : Matches(entries[j], k)}) = n}
            first == CHOOSE i \in nth : TRUE
<1>1. Shown(entries, k, n) = IF nth = {} THEN NoEntry ELSE entries[first]
  BY DEF Shown
<1>2. nth \subseteq 1..Len(entries)
  OBVIOUS
<1>3. nth # {} => first \in nth
  OBVIOUS
<1>. HIDE DEF nth, first
<1>4. CASE nth # {}
  <2>1. entries[first] \in Entry
    BY <1>2, <1>3, <1>4, ElementOfSeq
  <2>. QED BY <1>1, <1>4, <2>1
<1>. QED BY <1>1, <1>4

\* What delete leaves.
LEMMA WithoutType ==
    ASSUME NEW entries \in Seq(Entry), NEW n \in 1..Len(entries)
    PROVE  /\ Without(entries, n) \in Seq(Entry)
           /\ Len(Without(entries, n)) = Len(entries) - 1
           /\ \A i \in 1..(Len(entries) - 1) :
                 Without(entries, n)[i] = entries[IF i < n THEN i ELSE i + 1]
<1>. /\ Len(entries) \in Nat /\ n \in Int
     /\ \A i \in 1..Len(entries) : entries[i] \in Entry
  OBVIOUS
<1>. DEFINE before == SubSeq(entries, 1, n - 1)
            after  == SubSeq(entries, n + 1, Len(entries))
<1>1. /\ before \in Seq(Entry) /\ Len(before) = n - 1
      /\ \A i \in 1..(n - 1) : before[i] = entries[i]
  BY SubSeqProperties
<1>2. /\ after \in Seq(Entry) /\ Len(after) = Len(entries) - n
      /\ \A i \in 1..(Len(entries) - n) : after[i] = entries[n + i]
  BY SubSeqProperties
<1>3. Without(entries, n) = before \o after
  BY DEF Without, RemoveAt
<1>. HIDE DEF before, after
<1>4. /\ before \o after \in Seq(Entry)
      /\ Len(before \o after) = Len(entries) - 1
      /\ \A i \in 1..(Len(entries) - 1) :
            (before \o after)[i] = IF i <= n - 1 THEN before[i] ELSE after[i - (n - 1)]
  <2>1. Len(before) + Len(after) = Len(entries) - 1
    BY <1>1, <1>2
  <2>2. /\ before \o after \in Seq(Entry)
        /\ Len(before \o after) = Len(before) + Len(after)
        /\ \A i \in 1..(Len(before) + Len(after)) :
              (before \o after)[i] =
                  IF i <= Len(before) THEN before[i] ELSE after[i - Len(before)]
    BY <1>1, <1>2, ConcatProperties
  <2>3. Len(before) = n - 1
    BY <1>1
  <2>. QED BY <2>1, <2>2, <2>3
<1>5. ASSUME NEW i \in 1..(Len(entries) - 1)
      PROVE  (before \o after)[i] = entries[IF i < n THEN i ELSE i + 1]
  <2>1. CASE i < n
    <3>1. i \in 1..(n - 1) /\ i <= n - 1
      BY <2>1
    <3>. QED BY <1>1, <1>4, <2>1, <3>1
  <2>2. CASE ~(i < n)
    <3>1. i - (n - 1) \in 1..(Len(entries) - n) /\ n + (i - (n - 1)) = i + 1
      BY <2>2
    <3>2. (before \o after)[i] = after[i - (n - 1)]
      BY <1>4, <2>2
    <3>3. after[i - (n - 1)] = entries[n + (i - (n - 1))]
      BY <1>2, <3>1
    <3>. QED BY <2>2, <3>1, <3>2, <3>3
  <2>. QED BY <2>1, <2>2
<1>. QED BY <1>3, <1>4, <1>5

\* Every command leaves the index, and what it is about to save, an index.
LEMMA NextTyped == ASSUME TypeOK, [Next]_vars PROVE TypeOK'
<1>. USE DEF TypeOK
<1>0. /\ MaxId \in Nat /\ nextId \in Nat
      /\ <<>> \in Seq(Entry)
      /\ NoEntry \notin Entry
  BY BoundAssumption, EntriesAreSome, EmptySeq
<1>. USE <1>0
<1>1. CASE UNCHANGED vars
  BY <1>1 DEF vars
<1>2. CASE List
  BY <1>2 DEF List
<1>3. ASSUME NEW p \in Proc, NEW o \in {"delete", "read"}, Pick(p, o) PROVE TypeOK'
  BY <1>3, ShownType DEF Pick, Continue
<1>4. ASSUME NEW p \in Proc, DeleteLoad(p) PROVE TypeOK'
  <2>1. CASE Finish(p) /\ UNCHANGED picked
    BY <1>4, <2>1 DEF DeleteLoad, Finish, Done, Continue
  <2>2. CASE ~(Finish(p) /\ UNCHANGED picked)
    <3>1. /\ AtNumber(file, number[p]) \in Entry
          /\ Without(file, number[p]) \in Seq(Entry)
      BY <1>4, <2>2, NthType, WithoutType DEF DeleteLoad, AtNumber
    <3>2. picked' \subseteq Entry \X Entry
      BY <1>4, <2>2, <3>1 DEF DeleteLoad, Record
    <3>3. /\ snap' = [snap EXCEPT ![p] = Without(file, number[p])]
          /\ Continue(p, "truncate")
          /\ UNCHANGED <<op, number, meant, file, whole, seen, nextId>>
      BY <1>4, <2>2 DEF DeleteLoad
    <3>. QED BY <3>1, <3>2, <3>3 DEF Continue
  <2>. QED BY <2>1, <2>2
<1>5. ASSUME NEW p \in Proc, ReadLoad(p) PROVE TypeOK'
  <2>1. picked' \subseteq Entry \X Entry
    BY <1>5, NthType DEF ReadLoad, Record, AtNumber
  <2>. QED BY <1>5, <2>1 DEF ReadLoad, Finish, Done, Continue
<1>6. ASSUME NEW p \in Proc, CreateLoad(p) PROVE TypeOK'
  <2>1. \A w \in Word : WithNew([id |-> nextId, word |-> w]) \in Seq(Entry)
    BY <1>6, AppendProperties DEF CreateLoad, WithNew, Entry
  <2>. QED BY <1>6, <2>1 DEF CreateLoad, Continue
<1>7. ASSUME NEW p \in Proc, Truncate(p) PROVE TypeOK'
  BY <1>7 DEF Truncate, ListingOutdated, Continue
<1>8. ASSUME NEW p \in Proc, Write(p) PROVE TypeOK'
  <2>1. file' \in Seq(Entry) /\ whole' \in BOOLEAN
    BY <1>8 DEF Write
  <2>. QED BY <1>8, <2>1 DEF Write, ListingOutdated, Done, Continue
<1>9. ASSUME NEW p \in Proc, Die(p) PROVE TypeOK'
  BY <1>9 DEF Die, Finish, Done, Continue
<1>. QED
  BY <1>1, <1>2, <1>3, <1>4, <1>5, <1>6, <1>7, <1>8, <1>9 DEF Next

(* secrets.json never holds anything but described secrets, and nor does    *)
(* what a command is about to save (cli.rs:334-420), however many commands  *)
(* run beside each other and die.                                           *)
THEOREM Typing == Spec => []TypeOK
<1>1. Init => TypeOK
  BY BoundAssumption, EmptySeq DEF Init, TypeOK
<1>. QED BY <1>1, NextTyped, PTL DEF Spec

-----------------------------------------------------------------------------
(* What the numbers stand for.                                              *)

\* A number somebody has read off the listing stands for an entry.
Pending == \A p \in Proc : meant[p] # NoEntry => meant[p] = Nth(file, number[p])

Truthful == TypeOK /\ Pending /\ PicksWhatWasShown

\* Without --search the n-th entry listed is the n-th entry.
LEMMA WholeListing ==
    ASSUME NEW entries \in Seq(Entry), NEW n \in Nat
    PROVE  Shown(entries, Everything, n) = Nth(entries, n)
<1>1. \A i \in 1..Len(entries) :
         Cardinality({j \in 1..i : Matches(entries[j], Everything)}) = i
  <2>. SUFFICES ASSUME NEW i \in 1..Len(entries)
                PROVE  Cardinality({j \in 1..i : Matches(entries[j], Everything)}) = i
    OBVIOUS
  <2>1. {j \in 1..i : Matches(entries[j], Everything)} = 1..i
    BY DEF Matches
  <2>2. Cardinality(1..i) = i
    BY FS_Interval
  <2>. QED BY <2>1, <2>2
<1>. DEFINE nth == {i \in 1..Len(entries) :
                       /\ Matches(entries[i], Everything)
                       /\ Cardinality({j \in 1..i : Matches(entries[j], Everything)}) = n}
            first == CHOOSE i \in nth : TRUE
<1>2. nth = {i \in 1..Len(entries) : i = n}
  BY <1>1 DEF Matches
<1>3. Shown(entries, Everything, n) = IF nth = {} THEN NoEntry ELSE entries[first]
  BY DEF Shown
<1>4. nth # {} => first \in nth
  OBVIOUS
<1>. HIDE DEF nth, first
<1>5. CASE n \in 1..Len(entries)
  <2>1. nth # {} /\ first = n
    BY <1>2, <1>4, <1>5
  <2>. QED BY <1>3, <1>5, <2>1 DEF Nth
<1>6. CASE n \notin 1..Len(entries)
  <2>1. nth = {}
    BY <1>2, <1>6
  <2>. QED BY <1>3, <1>6, <2>1 DEF Nth
<1>. QED BY <1>5, <1>6

\* A command picks the entry that was meant, if one was.
LEMMA RecordKeepsTruth ==
    ASSUME Truthful, NEW p \in Proc, Record(p, AtNumber(file, number[p]))
    PROVE  PicksWhatWasShown'
  BY DEF Truthful, Pending, PicksWhatWasShown, Record, AtNumber

\* A process that ends no longer means any entry; the others mean what they did.
LEMMA FinishKeepsPending ==
    ASSUME TypeOK, Pending, NEW p \in Proc, Finish(p), UNCHANGED file
    PROVE  Pending'
  BY DEF TypeOK, Pending, Finish, Done, Nth

\* Every command, and every death, keeps what is meant and picked truthful.
LEMMA NextTruthful ==
    ASSUME Search = {}, Truthful, [Next]_vars
    PROVE  Truthful'
<1>. USE DEF Truthful
<1>0. TypeOK'
  BY NextTyped
<1>. USE <1>0
<1>1. CASE UNCHANGED vars
  BY <1>1 DEF vars, Pending, PicksWhatWasShown, Nth
<1>2. CASE List
  BY <1>2 DEF List, Pending, PicksWhatWasShown, Nth
<1>3. ASSUME NEW p \in Proc, NEW o \in {"delete", "read"}, Pick(p, o)
      PROVE  Truthful'
  <2>1. PICK n \in 0..(MaxId + 1) :
           /\ number' = [number EXCEPT ![p] = n]
           /\ meant' = [meant EXCEPT ![p] =
                 IF seen = NoListing THEN NoEntry ELSE Shown(file, seen, n)]
    BY <1>3 DEF Pick
  <2>2. n \in Nat /\ file \in Seq(Entry) /\ seen \in {Everything, NoListing}
    BY BoundAssumption DEF TypeOK
  <2>3. seen # NoListing => Shown(file, seen, n) = Nth(file, n)
    BY <2>2, WholeListing
  <2>4. UNCHANGED <<file, picked>>
    BY <1>3 DEF Pick
  <2>5. meant'[p] # NoEntry => meant'[p] = Nth(file, number'[p])
    BY <2>1, <2>3 DEF TypeOK
  <2>6. \A q \in Proc \ {p} : meant'[q] = meant[q] /\ number'[q] = number[q]
    BY <2>1 DEF TypeOK
  <2>7. \A q \in Proc : meant'[q] # NoEntry => meant'[q] = Nth(file, number'[q])
    BY <2>5, <2>6 DEF Pending
  <2>. QED BY <2>4, <2>7 DEF Pending, PicksWhatWasShown, Nth
<1>4. ASSUME NEW p \in Proc, DeleteLoad(p)
      PROVE  Truthful'
  <2>1. PicksWhatWasShown'
    BY <1>4, RecordKeepsTruth DEF DeleteLoad, PicksWhatWasShown
  <2>2. Pending'
    BY <1>4, FinishKeepsPending DEF DeleteLoad, Pending, Nth
  <2>. QED BY <2>1, <2>2
<1>5. ASSUME NEW p \in Proc, ReadLoad(p)
      PROVE  Truthful'
  <2>1. PicksWhatWasShown'
    BY <1>5, RecordKeepsTruth DEF ReadLoad, PicksWhatWasShown
  <2>2. Pending'
    BY <1>5, FinishKeepsPending DEF ReadLoad
  <2>. QED BY <2>1, <2>2
<1>6. ASSUME NEW p \in Proc, CreateLoad(p)
      PROVE  Truthful'
  BY <1>6 DEF CreateLoad, Pending, PicksWhatWasShown, Nth
<1>7. ASSUME NEW p \in Proc, Truncate(p) \/ Write(p)
      PROVE  Truthful'
  BY <1>7 DEF Truncate, Write, ListingOutdated, Pending, PicksWhatWasShown
<1>8. ASSUME NEW p \in Proc, Die(p)
      PROVE  Truthful'
  BY <1>8, FinishKeepsPending DEF Die, PicksWhatWasShown
<1>. QED
  BY <1>1, <1>2, <1>3, <1>4, <1>5, <1>6, <1>7, <1>8 DEF Next

(* delete and read act on the entry that `vt list`, without --search, shows *)
(* at the number they are given (cli.rs:363-420, 441-465), unless a command *)
(* has begun to change the index since.                                     *)
THEOREM NumbersMeanWhatIsShown ==
    ASSUME Search = {}
    PROVE  Spec => []PicksWhatWasShown
<1>1. Init => Truthful
  BY BoundAssumption, EmptySeq DEF Init, Truthful, TypeOK, Pending, PicksWhatWasShown
<1>2. Truthful /\ [Next]_vars => Truthful'
  BY NextTruthful
<1>3. Truthful => PicksWhatWasShown
  BY DEF Truthful
<1>. QED BY <1>1, <1>2, <1>3, PTL DEF Spec

-----------------------------------------------------------------------------
(* What delete removes.                                                     *)

\* No two entries are of one secret, and the next secret has no entry yet.
Unique(entries, next) ==
    /\ \A i, j \in 1..Len(entries) : entries[i].id = entries[j].id => i = j
    /\ \A i \in 1..Len(entries) : entries[i].id < next

Numbered == Unique(file, nextId) /\ \A p \in Proc : Unique(snap[p], nextId)

\* The secrets are numbered.
LEMMA IdType ==
    ASSUME NEW entries \in Seq(Entry), NEW i \in 1..Len(entries)
    PROVE  entries[i].id \in Nat
<1>1. entries[i] \in Entry
  BY ElementOfSeq
<1>. QED BY <1>1, BoundAssumption DEF Entry

\* An index of numbered secrets takes another one.
LEMMA AppendUnique ==
    ASSUME NEW entries \in Seq(Entry), NEW k \in Nat, Unique(entries, k),
           NEW e \in Entry, e.id = k
    PROVE  Unique(Append(entries, e), k + 1)
<1>1. /\ Len(Append(entries, e)) = Len(entries) + 1 /\ Len(entries) \in Nat
      /\ \A i \in 1..Len(entries) : Append(entries, e)[i] = entries[i]
      /\ Append(entries, e)[Len(entries) + 1] = e
  BY AppendProperties
<1>. QED BY <1>1, IdType DEF Unique

\* The entries that delete leaves are still of different secrets.
LEMMA WithoutUnique ==
    ASSUME NEW entries \in Seq(Entry), NEW n \in 1..Len(entries), NEW k,
           Unique(entries, k)
    PROVE  Unique(Without(entries, n), k)
<1>. DEFINE shorter == Without(entries, n)
            at(i) == IF i < n THEN i ELSE i + 1
<1>1. /\ Len(entries) \in Nat /\ n \in Int /\ Len(shorter) = Len(entries) - 1
      /\ \A i \in 1..(Len(entries) - 1) : shorter[i] = entries[at(i)]
  BY WithoutType
<1>. SUFFICES Unique(shorter, k)
  OBVIOUS
<1>. HIDE DEF shorter
<1>2. \A i \in 1..(Len(entries) - 1) : at(i) \in 1..Len(entries)
  BY <1>1
<1>3. \A i, j \in 1..(Len(entries) - 1) : at(i) = at(j) => i = j
  BY <1>1
<1>. HIDE DEF at
<1>. QED BY <1>1, <1>2, <1>3 DEF Unique

\* Taking the n-th entry out leaves every other entry, and no other.
LEMMA WithoutContents ==
    ASSUME NEW entries \in Seq(Entry), NEW n \in 1..Len(entries), NEW k,
           Unique(entries, k)
    PROVE  ToSet(Without(entries, n)) = ToSet(entries) \ {entries[n]}
<1>. DEFINE shorter == Without(entries, n)
<1>0. Len(entries) \in Nat /\ n \in Int
  OBVIOUS
<1>1. /\ shorter \in Seq(Entry)
      /\ Len(shorter) = Len(entries) - 1
      /\ \A i \in 1..(Len(entries) - 1) : shorter[i] = entries[IF i < n THEN i ELSE i + 1]
  BY WithoutType
<1>. USE <1>0
<1>2. /\ DOMAIN entries = 1..Len(entries)
      /\ DOMAIN shorter = 1..(Len(entries) - 1)
  BY <1>1, LenProperties
<1>. HIDE DEF shorter
<1>3. ASSUME NEW i \in DOMAIN shorter PROVE shorter[i] \in ToSet(entries) \ {entries[n]}
  <2>. DEFINE m == IF i < n THEN i ELSE i + 1
  <2>1. m \in 1..Len(entries) /\ m # n
    BY <1>1, <1>2
  <2>2. shorter[i] = entries[m]
    BY <1>1, <1>2
  <2>. HIDE DEF m
  <2>. QED BY <1>2, <2>1, <2>2 DEF ToSet, Unique
<1>4. ASSUME NEW j \in DOMAIN entries, entries[j] # entries[n] PROVE entries[j] \in ToSet(shorter)
  <2>. DEFINE m == IF j < n THEN j ELSE j - 1
  <2>1. j # n
    BY <1>4
  <2>2. m \in 1..(Len(entries) - 1) /\ (IF m < n THEN m ELSE m + 1) = j
    BY <1>1, <1>2, <2>1
  <2>. HIDE DEF m
  <2>3. shorter[m] = entries[j]
    BY <1>1, <2>2
  <2>. QED BY <1>2, <2>2, <2>3 DEF ToSet
<1>. QED BY <1>3, <1>4 DEF ToSet, shorter

\* No command indexes a secret twice.
LEMMA NextNumbered == ASSUME TypeOK, Numbered, [Next]_vars PROVE Numbered'
<1>. USE DEF Numbered
<1>0. nextId \in Nat /\ nextId' \in Nat
  BY BoundAssumption, NextTyped DEF TypeOK
<1>1. CASE UNCHANGED vars
  BY <1>1 DEF vars, Unique
<1>2. CASE List
  BY <1>2 DEF List, Unique
<1>3. ASSUME NEW p \in Proc, NEW o \in {"delete", "read"}, Pick(p, o) PROVE Numbered'
  BY <1>3 DEF Pick, Unique
<1>4. ASSUME NEW p \in Proc, Finish(p), UNCHANGED <<file, nextId>> PROVE Numbered'
  BY <1>4 DEF Finish, Done, TypeOK, Unique
<1>5. ASSUME NEW p \in Proc, DeleteLoad(p) PROVE Numbered'
  <2>1. CASE Finish(p)
    BY <1>4, <1>5, <2>1 DEF DeleteLoad
  <2>2. CASE ~Finish(p)
    <3>1. number[p] \in 1..Len(file) /\ UNCHANGED <<file, nextId>>
          /\ snap' = [snap EXCEPT ![p] = Without(file, number[p])]
      BY <1>5, <2>2, NthType DEF DeleteLoad, AtNumber, TypeOK
    <3>2. Unique(Without(file, number[p]), nextId)
      BY <3>1, WithoutUnique DEF TypeOK
    <3>. QED BY <3>1, <3>2 DEF TypeOK, Unique
  <2>. QED BY <2>1, <2>2
<1>6. ASSUME NEW p \in Proc, ReadLoad(p) \/ Die(p) PROVE Numbered'
  BY <1>4, <1>6 DEF ReadLoad, Die
<1>7. ASSUME NEW p \in Proc, CreateLoad(p) PROVE Numbered'
  <2>1. PICK w \in Word : snap' = [snap EXCEPT ![p] = WithNew([id |-> nextId, word |-> w])]
    BY <1>7 DEF CreateLoad
  <2>2. nextId' = nextId + 1 /\ UNCHANGED file
    BY <1>7 DEF CreateLoad
  <2>3. \A entries \in Seq(Entry) : Unique(entries, nextId) => Unique(entries, nextId + 1)
    BY <1>0, IdType DEF Unique
  <2>4. [id |-> nextId, word |-> w] \in Entry
    BY <1>0, <1>7 DEF CreateLoad, Entry, TypeOK
  <2>5. Unique(WithNew([id |-> nextId, word |-> w]), nextId + 1)
    <3>1. /\ file \in Seq(Entry) /\ <<>> \in Seq(Entry)
          /\ Unique(file, nextId) /\ Unique(<<>>, nextId)
      BY EmptySeq DEF TypeOK, Unique
    <3>. QED BY <1>0, <2>4, <3>1, AppendUnique DEF WithNew
  <2>. QED BY <2>1, <2>2, <2>3, <2>5 DEF TypeOK
<1>8. ASSUME NEW p \in Proc, Truncate(p) PROVE Numbered'
  BY <1>8 DEF Truncate, Unique
<1>9. ASSUME NEW p \in Proc, Write(p) PROVE Numbered'
  <2>1. file' = snap[p] /\ snap' = [snap EXCEPT ![p] = <<>>] /\ nextId' = nextId
    BY <1>9 DEF Write, Done
  <2>2. Unique(<<>>, nextId)
    BY EmptySeq DEF Unique
  <2>. QED BY <2>1, <2>2 DEF TypeOK
<1>. QED BY <1>1, <1>2, <1>3, <1>5, <1>6, <1>7, <1>8, <1>9 DEF Next

(* And delete takes the entry shown out of the index, and no other one      *)
(* (cli.rs:403-416): `entries.remove(number - 1)` hits what the user saw.   *)
THEOREM DeletionHitsWhatIsShown ==
    ASSUME Search = {}
    PROVE  Spec => DeletesWhatWasShown
<1>. DEFINE Inv == Truthful /\ Numbered
            Hits == \A p \in Proc :
                       pc[p] = "load" /\ pc'[p] = "truncate" /\ meant[p] # NoEntry =>
                           ToSet(snap'[p]) = ToSet(file) \ {meant[p]}
<1>1. Init => Inv
  BY BoundAssumption, EmptySeq
  DEF Init, Truthful, TypeOK, Pending, PicksWhatWasShown, Numbered, Unique
<1>2. Inv /\ [Next]_vars => Inv'
  BY NextTruthful, NextNumbered DEF Truthful
<1>3. Inv /\ [Next]_vars => [Hits]_vars
  <2>. SUFFICES ASSUME Inv, Next, NEW p \in Proc, pc[p] = "load", pc'[p] = "truncate",
                       meant[p] # NoEntry
                PROVE  ToSet(snap'[p]) = ToSet(file) \ {meant[p]}
    OBVIOUS
  <2>1. DeleteLoad(p) /\ ~Finish(p)
    BY DEF Next, List, Pick, DeleteLoad, ReadLoad, CreateLoad, Truncate, Write, Die,
           Finish, Done, Continue, Truthful, TypeOK
  <2>2. number[p] \in 1..Len(file) /\ snap'[p] = Without(file, number[p])
    BY <2>1, NthType DEF DeleteLoad, AtNumber, Truthful, TypeOK
  <2>3. meant[p] = file[number[p]]
    BY <2>2 DEF Truthful, Pending, Nth
  <2>. QED BY <2>2, <2>3, WithoutContents DEF Truthful, TypeOK, Numbered
<1>. QED BY <1>1, <1>2, <1>3, PTL DEF Spec, DeletesWhatWasShown
=============================================================================
