--------------------------- MODULE InjectionProofs ---------------------------
(***************************************************************************)
(* Injections one after the other (Careful), by any number of processes,   *)
(* whatever dies and fails: the references are not lost, and a command     *)
(* that could not run leaves nothing decrypted: not even when something    *)
(* died or failed before, unless its own undo is refused.                  *)
(*                                                                         *)
(* The invariant follows the one injection that is under way from its read *)
(* to the end of its child: until the file is truncated it holds the       *)
(* references, from then on the backup does, until one of process and      *)
(* child renames it back.                                                  *)
(***************************************************************************)
EXTENDS Injection, TLAPS

Saving == {"copy", "copying", "truncate", "write"}

Label ==
    Resting \cup {"read", "decrypt", "fork", "exec", "kill", "restore"} \cup Saving

\* The injection of p is not over: it runs, or its child sleeps.
Active(p) == pc[p] \notin Resting \/ child[p] # "none"

OneAtATime == \A p, q \in Proc : Active(p) /\ Active(q) => p = q

\* Two names never stand for the same file.
NamesApart == \A m, n \in Name : dir[m] = dir[n] /\ dir[m] # 0 => m = n

\* The files a process has open are those of the names it works on.
OpenFiles(p) ==
    /\ pc[p] = "copying" =>
          from[p] = dir["file"] /\ to[p] = dir["backup"] /\ to[p] # 0
    /\ pc[p] = "write" => from[p] = 0 /\ to[p] = dir[job[p].target] /\ to[p] # 0
    /\ pc[p] \notin {"copying", "write"} => from[p] = 0 /\ to[p] = 0

\* Where the code can be with this job, and when it has a child.
JobFits(p) ==
    /\ pc[p] \in {"copy", "copying"} => Replaces(p)
    /\ pc[p] \in {"truncate", "write"} => job[p].target # "stdout"
    /\ child[p] # "none" =>
          pc[p] \in Resting \cup {"exec", "kill"} /\ job[p].target # "stdout"

\* The backup can be renamed, or has been.
BackedUp == Holds("backup", "vt") \/ (dir["backup"] = 0 /\ Holds("file", "vt"))

References(p) ==
    /\ pc[p] \in {"read", "decrypt", "copy", "copying"} => Holds("file", "vt")
    /\ pc[p] \in {"truncate", "write", "fork"} /\ Replaces(p) => Holds("backup", "vt")
    /\ Active(p) /\ ~Replaces(p) => Holds("file", "vt")
    /\ (pc[p] \in {"exec", "kill", "restore"} \/ child[p] # "none") /\ Replaces(p) => BackedUp

Whole ==
    /\ TypeOK /\ OneAtATime /\ NamesApart
    /\ \A p \in Proc : OpenFiles(p) /\ JobFits(p) /\ References(p)
    /\ ReferencesKept

-----------------------------------------------------------------------------
\* It starts whole.
LEMMA WholeInit == ASSUME MaxInode > 3, Init PROVE Whole
<1>. USE InodeAssumption DEF Init
<1>1. TypeOK
  <2>1. dir \in [Name -> Inode \cup {0}] /\ dir["file"] # 0
    BY DEF Name, Inode
  <2>2. data \in [Inode -> Content]
    BY DEF Content
  <2>3. from \in [Proc -> Inode \cup {0}] /\ to \in [Proc -> Inode \cup {0}]
    OBVIOUS
  <2>. QED BY <2>1, <2>2, <2>3 DEF TypeOK, Content, Resting
<1>2. NamesApart /\ ReferencesKept
  BY DEF NamesApart, ReferencesKept, Holds, Inode, Name
<1>3. OneAtATime /\ \A p \in Proc : OpenFiles(p) /\ JobFits(p) /\ References(p)
  BY DEF OneAtATime, Active, OpenFiles, JobFits, References, Resting
<1>. QED BY <1>1, <1>2, <1>3 DEF Whole

(* A file is found for a name that has none: there are three names, and at  *)
(* that moment nobody has another file open.                                *)
LEMMA FileFound ==
    ASSUME Whole, MaxInode > 3, \A q \in Proc : from[q] = 0 /\ to[q] = 0
    PROVE  \E f \in Inode : f \notin Used
<1>. USE InodeAssumption
<1>1. Used \subseteq {dir["file"], dir["backup"], dir["out"], 0}
  BY DEF Used, Name
<1>2. \E f \in 1..4 : f \notin {dir["file"], dir["backup"], dir["out"], 0}
  <2>1. dir["file"] \in Nat /\ dir["backup"] \in Nat /\ dir["out"] \in Nat
    BY DEF Whole, TypeOK, Name, Inode
  <2>. QED BY <2>1
<1>. QED BY <1>1, <1>2 DEF Inode

(* Only the process whose turn it is changes: of the others nothing is      *)
(* under way, and so nothing is to be shown.                                *)
LEMMA OneChanges ==
    ASSUME Whole, NEW p \in Proc, \A q \in Proc : Active(q) => q = p,
           \A q \in Proc \ {p} :
              UNCHANGED <<pc[q], child[q], from[q], to[q]>>,
           TypeOK', NamesApart', ReferencesKept',
           OpenFiles(p)', JobFits(p)', References(p)'
    PROVE  Whole'
<1>1. ASSUME NEW q \in Proc, q # p
      PROVE  ~Active(q)' /\ pc'[q] \in Resting /\ child'[q] = "none"
             /\ from'[q] = 0 /\ to'[q] = 0
  <2>1. ~Active(q)
    BY <1>1
  <2>2. OpenFiles(q)
    BY DEF Whole
  <2>. QED BY <1>1, <2>1, <2>2 DEF Active, OpenFiles, Resting
<1>2. OneAtATime'
  BY <1>1 DEF OneAtATime
<1>3. ASSUME NEW q \in Proc PROVE (OpenFiles(q) /\ JobFits(q) /\ References(q))'
  <2>1. CASE q = p
    BY <2>1
  <2>2. CASE q # p
    BY <1>1, <2>2 DEF OpenFiles, JobFits, References, Active, Resting
  <2>. QED BY <2>1, <2>2
<1>. QED BY <1>2, <1>3 DEF Whole

\* Somebody's turn is nobody else's.
LEMMA Turn ==
    ASSUME Whole, NEW p \in Proc, Active(p)
    PROVE  \A q \in Proc : Active(q) => q = p
  BY DEF Whole, OneAtATime

-----------------------------------------------------------------------------
(* The steps that leave the files alone.                                    *)

\* A careful user injects when nothing is under way and the file is whole.
LEMMA StartWhole ==
    ASSUME Whole, Careful, NEW p \in Proc, Start(p) PROVE Whole'
<1>. USE DEF Start, Go, disk
<1>1. \A q \in Proc : ~Active(q)
  BY DEF Active
<1>2. TypeOK'
  BY DEF Whole, TypeOK, Resting
<1>3. NamesApart' /\ ReferencesKept'
  BY DEF Whole, NamesApart, ReferencesKept, Holds
<1>4. (OpenFiles(p) /\ JobFits(p) /\ References(p))'
  BY DEF Whole, TypeOK, OpenFiles, JobFits, References, Holds, Resting, Active
<1>5. \A q \in Proc \ {p} : UNCHANGED <<pc[q], child[q], from[q], to[q]>>
  BY DEF Whole, TypeOK
<1>. QED BY <1>1, <1>2, <1>3, <1>4, <1>5, OneChanges

\* Reading, decrypting, forking, executing and killing the child.
LEMMA QuietStepWhole ==
    ASSUME Whole, NEW p \in Proc,
           Read(p) \/ Decrypt(p) \/ Fork(p) \/ Exec(p) \/ KillChild(p) \/ ChildDies(p)
    PROVE  Whole'
<1>. USE DEF Read, Decrypt, Fork, Exec, KillChild, ChildDies, Go, disk
<1>1. Active(p)
  BY DEF Active, Resting
<1>2. UNCHANGED disk
  OBVIOUS
<1>3. TypeOK'
  <2>1. data[dir["file"]] \in Content
    BY DEF Whole, TypeOK, Name
  <2>. QED BY <2>1 DEF Whole, TypeOK, Resting, AfterDecrypt, Content
<1>4. NamesApart' /\ ReferencesKept'
  BY <1>2 DEF Whole, NamesApart, ReferencesKept, Holds
<1>5. OpenFiles(p)'
  BY DEF Whole, TypeOK, OpenFiles, AfterDecrypt, Resting
<1>6. JobFits(p)'
  BY DEF Whole, TypeOK, Job, JobFits, AfterDecrypt, Replaces, CleansUp, Resting
<1>7. References(p)'
  BY DEF Whole, TypeOK, Job, References, JobFits, Active, BackedUp, Holds, AfterDecrypt,
         Replaces, CleansUp, Resting
<1>8. \A q \in Proc \ {p} : UNCHANGED <<pc[q], child[q], from[q], to[q]>>
  BY DEF Whole, TypeOK
<1>. QED BY <1>1, <1>3, <1>4, <1>5, <1>6, <1>7, <1>8, Turn, OneChanges

\* An injection that is broken off lets go of its files and leaves them as they are.
LEMMA BrokenOffWhole ==
    ASSUME Whole, NEW p \in Proc, SaveFails(p) \/ Die(p) PROVE Whole'
<1>. USE DEF SaveFails, Die, Go, Close
<1>1. Active(p)
  BY DEF Active, Resting
<1>2. TypeOK'
  BY DEF Whole, TypeOK, Resting
<1>3. NamesApart' /\ ReferencesKept'
  BY DEF Whole, NamesApart, ReferencesKept, Holds
<1>4. OpenFiles(p)' /\ JobFits(p)'
  BY DEF Whole, TypeOK, OpenFiles, JobFits, Resting
<1>5. References(p)'
  BY DEF Whole, TypeOK, References, JobFits, Active, BackedUp, Holds, Replaces, Resting
<1>6. \A q \in Proc \ {p} : UNCHANGED <<pc[q], child[q], from[q], to[q]>>
  BY DEF Whole, TypeOK
<1>. QED BY <1>1, <1>2, <1>3, <1>4, <1>5, <1>6, Turn, OneChanges

-----------------------------------------------------------------------------
(* The steps that change the files.                                         *)

\* What Create does, for a name that is not open.
LEMMA Created ==
    ASSUME Whole, MaxInode > 3, NEW p \in Proc, NEW n \in Name, Create(p, n),
           \A q \in Proc : from[q] = 0 /\ to[q] = 0
    PROVE  /\ to'[p] = dir'[n] /\ dir'[n] # 0
           /\ dir' \in [Name -> Inode \cup {0}] /\ data' \in [Inode -> Content]
           /\ to' = [to EXCEPT ![p] = dir'[n]] /\ to' \in [Proc -> Inode \cup {0}]
           /\ \A m \in Name \ {n} : dir'[m] = dir[m] /\ dir'[m] # dir'[n]
           /\ \A m \in Name \ {n} : dir[m] # 0 => data'[dir[m]] = data[dir[m]]
           /\ NamesApart'
<1>. USE InodeAssumption
<1>. DEFINE i == IF dir[n] # 0 THEN dir[n] ELSE CHOOSE f \in Inode : f \notin Used
<1>1. i \in Inode /\ i # 0
  <2>1. CASE dir[n] # 0
    BY <2>1 DEF Whole, TypeOK
  <2>2. CASE dir[n] = 0
    BY <2>2, FileFound DEF Inode
  <2>. QED BY <2>1, <2>2
<1>2. \A m \in Name \ {n} : dir[m] # i
  <2>1. CASE dir[n] # 0
    BY <2>1 DEF Whole, NamesApart
  <2>2. CASE dir[n] = 0
    <3>1. i \notin Used
      BY <2>2, FileFound
    <3>. QED BY <3>1 DEF Used
  <2>. QED BY <2>1, <2>2
<1>3. /\ dir' = [dir EXCEPT ![n] = i]
      /\ data' = [data EXCEPT ![i] = "empty"]
      /\ to' = [to EXCEPT ![p] = i]
  BY DEF Create
<1>. HIDE DEF i
<1>4. dir' \in [Name -> Inode \cup {0}] /\ dir'[n] = i
  BY <1>1, <1>3 DEF Whole, TypeOK
<1>5. data' \in [Inode -> Content]
  BY <1>3 DEF Whole, TypeOK, Content
<1>6. to' \in [Proc -> Inode \cup {0}] /\ to'[p] = i
  BY <1>1, <1>3 DEF Whole, TypeOK
<1>7. \A m \in Name \ {n} : dir'[m] = dir[m]
  BY <1>3 DEF Whole, TypeOK
<1>8. NamesApart'
  BY <1>2, <1>4, <1>7 DEF Whole, NamesApart
<1>9. \A m \in Name \ {n} : dir[m] # 0 => data'[dir[m]] = data[dir[m]]
  BY <1>1, <1>2, <1>3 DEF Whole, TypeOK
<1>. QED BY <1>1, <1>2, <1>3, <1>4, <1>5, <1>6, <1>7, <1>8, <1>9

\* While nobody reads or writes, no file is open.
LEMMA NothingOpen ==
    ASSUME Whole, NEW p \in Proc, Active(p), pc[p] \notin {"copying", "write"}
    PROVE  \A q \in Proc : from[q] = 0 /\ to[q] = 0
<1>. SUFFICES ASSUME NEW q \in Proc PROVE from[q] = 0 /\ to[q] = 0
  OBVIOUS
<1>1. OpenFiles(q) /\ (q # p => ~Active(q))
  BY DEF Whole, OneAtATime
<1>. QED BY <1>1 DEF OpenFiles, Active, Resting

\* The backup is opened; the file is only read.
LEMMA CopyTruncateWhole ==
    ASSUME Whole, MaxInode > 3, NEW p \in Proc, CopyTruncate(p) PROVE Whole'
<1>. USE DEF CopyTruncate, Go
<1>1. Active(p)
  BY DEF Active, Resting
<1>2. \A q \in Proc : from[q] = 0 /\ to[q] = 0
  BY <1>1, NothingOpen
<1>3. JobFits(p) /\ References(p)
  BY DEF Whole
<1>4. /\ to'[p] = dir'["backup"] /\ dir'["backup"] # 0
      /\ dir' \in [Name -> Inode \cup {0}] /\ data' \in [Inode -> Content]
      /\ to' = [to EXCEPT ![p] = dir'["backup"]] /\ to' \in [Proc -> Inode \cup {0}]
      /\ dir'["file"] = dir["file"] /\ data'[dir["file"]] = data[dir["file"]]
      /\ NamesApart'
  BY <1>2, Created DEF Name, Whole, TypeOK
<1>5. Holds("file", "vt")'
  BY <1>3, <1>4 DEF References, Holds
<1>6. TypeOK'
  BY <1>4 DEF Whole, TypeOK, Resting, Name
<1>7. OpenFiles(p)'
  BY <1>4 DEF Whole, TypeOK, OpenFiles
<1>8. (JobFits(p) /\ References(p))'
  BY <1>1, <1>3, <1>5 DEF Whole, TypeOK, JobFits, References, Replaces, Active, Resting
<1>9. \A q \in Proc \ {p} : UNCHANGED <<pc[q], child[q], from[q], to[q]>>
  BY <1>4 DEF Whole, TypeOK
<1>. QED BY <1>1, <1>4, <1>5, <1>6, <1>7, <1>8, <1>9, Turn, OneChanges DEF ReferencesKept

\* The references are in the backup, too.
LEMMA CopyWhole == ASSUME Whole, NEW p \in Proc, Copy(p) PROVE Whole'
<1>. USE DEF Copy, Go, Close
<1>1. Active(p)
  BY DEF Active, Resting
<1>2. OpenFiles(p) /\ JobFits(p) /\ References(p)
  BY DEF Whole
<1>3. to[p] = dir["backup"] /\ to[p] \in Inode /\ data[from[p]] = "vt"
  BY <1>2 DEF OpenFiles, References, Holds, Whole, TypeOK
<1>4. TypeOK' /\ Holds("backup", "vt")'
  BY <1>3 DEF Whole, TypeOK, Resting, Name, Inode, Content, Holds
<1>5. NamesApart'
  BY DEF Whole, NamesApart
<1>6. (OpenFiles(p) /\ JobFits(p) /\ References(p))'
  BY <1>2, <1>4 DEF Whole, TypeOK, OpenFiles, JobFits, References, Replaces, Active, Resting
<1>7. \A q \in Proc \ {p} : UNCHANGED <<pc[q], child[q], from[q], to[q]>>
  BY DEF Whole, TypeOK
<1>. QED BY <1>1, <1>4, <1>5, <1>6, <1>7, Turn, OneChanges DEF ReferencesKept

\* The file, or the output file, is opened: the backup, or the file, stays.
LEMMA TruncateWhole ==
    ASSUME Whole, MaxInode > 3, NEW p \in Proc, Truncate(p) PROVE Whole'
<1>. USE DEF Truncate, Go
<1>1. Active(p)
  BY DEF Active, Resting
<1>2. \A q \in Proc : from[q] = 0 /\ to[q] = 0
  BY <1>1, NothingOpen
<1>3. JobFits(p) /\ References(p) /\ job[p].target \in {"file", "out"}
  BY DEF Whole, TypeOK, JobFits, Job
<1>. DEFINE n == job[p].target
<1>4. /\ to'[p] = dir'[n] /\ dir'[n] # 0
      /\ dir' \in [Name -> Inode \cup {0}] /\ data' \in [Inode -> Content]
      /\ to' = [to EXCEPT ![p] = dir'[n]] /\ to' \in [Proc -> Inode \cup {0}]
      /\ \A m \in Name \ {n} :
            dir'[m] = dir[m] /\ (dir[m] # 0 => data'[dir[m]] = data[dir[m]])
      /\ NamesApart'
  BY <1>2, <1>3, Created DEF Name
<1>5. IF Replaces(p) THEN Holds("backup", "vt")' ELSE Holds("file", "vt")'
  BY <1>1, <1>3, <1>4 DEF References, Holds, Replaces, Name
<1>6. TypeOK'
  <2>1. dir'["file"] # 0
    BY <1>3, <1>4 DEF Whole, TypeOK, Name
  <2>. QED BY <1>4, <2>1 DEF Whole, TypeOK, Resting
<1>7. OpenFiles(p)'
  BY <1>2, <1>4 DEF Whole, TypeOK, OpenFiles
<1>8. (JobFits(p) /\ References(p))'
  BY <1>1, <1>3, <1>5 DEF Whole, TypeOK, JobFits, References, Replaces, Active, Resting
<1>9. \A q \in Proc \ {p} : UNCHANGED <<pc[q], child[q], from[q], to[q]>>
  BY <1>4 DEF Whole, TypeOK
<1>. QED BY <1>1, <1>4, <1>5, <1>6, <1>7, <1>8, <1>9, Turn, OneChanges DEF ReferencesKept

\* The text is written to the file that was opened, and to no other.
LEMMA WriteWhole == ASSUME Whole, NEW p \in Proc, Write(p) PROVE Whole'
<1>. USE DEF Write, Go, Close
<1>1. Active(p)
  BY DEF Active, Resting
<1>2. OpenFiles(p) /\ JobFits(p) /\ References(p) /\ job[p].target \in {"file", "out"}
  BY DEF Whole, TypeOK, JobFits, Job
<1>3. to[p] = dir[job[p].target] /\ to[p] \in Inode
  BY <1>2 DEF OpenFiles, Whole, TypeOK
<1>4. IF Replaces(p) THEN Holds("backup", "vt")' ELSE Holds("file", "vt")'
  <2>1. \A m \in Name : m # job[p].target /\ dir[m] # 0 => dir[m] # to[p]
    BY <1>2, <1>3 DEF Whole, NamesApart, Name
  <2>. QED BY <1>1, <1>2, <1>3, <2>1 DEF References, Holds, Replaces, Name, Whole, TypeOK
<1>5. TypeOK'
  BY <1>3 DEF Whole, TypeOK, Resting, Name, Inode, Content
<1>6. NamesApart'
  BY DEF Whole, NamesApart
<1>7. (OpenFiles(p) /\ JobFits(p) /\ References(p))'
  BY <1>1, <1>2, <1>4 DEF Whole, TypeOK, OpenFiles, JobFits, References, Replaces, Active, Resting
<1>8. \A q \in Proc \ {p} : UNCHANGED <<pc[q], child[q], from[q], to[q]>>
  BY DEF Whole, TypeOK
<1>. QED BY <1>1, <1>4, <1>5, <1>6, <1>7, <1>8, Turn, OneChanges DEF ReferencesKept

\* The backup is renamed by the process or by its child, whoever comes first.
LEMMA UndoWhole == ASSUME Whole, NEW p \in Proc, Restore(p) \/ Wake(p) PROVE Whole'
<1>. USE DEF Restore, Wake, Go
<1>1. Active(p)
  BY DEF Active, Resting
<1>2. OpenFiles(p) /\ JobFits(p) /\ References(p)
  BY DEF Whole
<1>3. IF Replaces(p) THEN BackedUp ELSE Holds("file", "vt")
  BY <1>1, <1>2 DEF References
<1>u. (Undo(p) \/ UNCHANGED dir) /\ UNCHANGED <<data, from, to, job, text>>
  BY DEF UndoFails
<1>4. IF Replaces(p) THEN BackedUp' ELSE Holds("file", "vt")'
  <2>1. CASE Undo(p)
    BY <1>3, <1>u, <2>1 DEF Undo, BackedUp, Holds, Whole, TypeOK, Name, Replaces
  <2>2. CASE UNCHANGED dir
    BY <1>3, <1>u, <2>2 DEF BackedUp, Holds, Replaces
  <2>. QED BY <1>u, <2>1, <2>2
<1>5. TypeOK'
  <2>1. dir' \in [Name -> Inode \cup {0}] /\ dir'["file"] # 0
    BY <1>u DEF Undo, Whole, TypeOK, Name
  <2>. QED BY <1>u, <2>1 DEF Whole, TypeOK, Resting, UndoFails
<1>6. NamesApart'
  BY <1>u DEF Undo, Whole, TypeOK, NamesApart, Name
<1>7. OpenFiles(p)'
  BY <1>2 DEF Whole, TypeOK, OpenFiles, JobFits, Resting
<1>8. (JobFits(p) /\ References(p))'
  BY <1>1, <1>2, <1>4 DEF Whole, TypeOK, JobFits, References, Replaces, Active, Resting
<1>9. \A q \in Proc \ {p} : UNCHANGED <<pc[q], child[q], from[q], to[q]>>
  BY DEF Whole, TypeOK
<1>10. ReferencesKept'
  BY <1>4 DEF ReferencesKept, BackedUp
<1>. QED BY <1>1, <1>5, <1>6, <1>7, <1>8, <1>9, <1>10, Turn, OneChanges

-----------------------------------------------------------------------------
LEMMA NextWhole ==
    ASSUME Careful, MaxInode > 3, Whole, [Next]_vars PROVE Whole'
<1>1. CASE UNCHANGED vars
  BY <1>1 DEF vars, Whole, TypeOK, OneAtATime, Active, NamesApart, OpenFiles, JobFits,
              References, Replaces, BackedUp, ReferencesKept, Holds
<1>2. ASSUME NEW p \in Proc, Start(p) PROVE Whole'
  BY <1>2, StartWhole
<1>3. ASSUME NEW p \in Proc, Wake(p) \/ Restore(p) PROVE Whole'
  BY <1>3, UndoWhole
<1>4. ASSUME NEW p \in Proc, Die(p) \/ SaveFails(p) PROVE Whole'
  BY <1>4, BrokenOffWhole
<1>5. ASSUME NEW p \in Proc, Step(p) \/ ChildDies(p) PROVE Whole'
  BY <1>3, <1>4, <1>5, QuietStepWhole, CopyTruncateWhole, CopyWhole, TruncateWhole, WriteWhole
     DEF Step
<1>. QED BY <1>1, <1>2, <1>3, <1>4, <1>5 DEF Next

(* The inductive invariant, for users who inject one thing at a time.       *)
THEOREM Invariance == ASSUME Careful, MaxInode > 3 PROVE Spec => []Whole
<1>1. Init => Whole
  BY WholeInit
<1>2. Whole /\ [Next]_vars => Whole'
  BY NextWhole
<1>. QED BY <1>1, <1>2, PTL DEF Spec

(* Types; and the file with the references is never missing.                *)
THEOREM Typing == ASSUME Careful, MaxInode > 3 PROVE Spec => []TypeOK
<1>1. Whole => TypeOK
  BY DEF Whole
<1>. QED BY <1>1, Invariance, PTL

(* Whatever dies and fails, the references are in the file or its backup.   *)
THEOREM NothingLost == ASSUME Careful, MaxInode > 3 PROVE Spec => []ReferencesKept
<1>1. Whole => ReferencesKept
  BY DEF Whole
<1>. QED BY <1>1, Invariance, PTL

-----------------------------------------------------------------------------
(* What an injection leaves behind.                                         *)

\* What is not exposed while the injection of p is under way.
Tidy(p) ==
    /\ Replaces(p) => ~Holds("out", "plain")
    /\ job[p].target = "stdout" => ~Exposed
    /\ pc[p] \in {"read", "decrypt", "copy", "copying"} => ~Exposed
    /\ pc[p] = "exec" /\ child[p] = "none" => ~Exposed

\* Unless something died or failed, only an injection under way exposes anything.
Clean ==
    \/ mishap
    \/ /\ \A p \in Proc : Active(p) => Tidy(p)
       /\ (\A p \in Proc : ~Active(p)) => ~Exposed

\* At the start nothing is decrypted.
LEMMA CleanInit == ASSUME Init PROVE Clean
  BY InodeAssumption DEF Init, Clean, Active, Resting, Exposed, Holds, Name, Inode

(* A step of p, during which nobody else injects, leaves things clean if    *)
(* it does so for p.                                                        *)
LEMMA CleanAfter ==
    ASSUME Whole', NEW p \in Proc, \A q \in Proc \ {p} : ~Active(q)',
           Active(p)' => Tidy(p)', ~Active(p)' => ~Exposed'
    PROVE  Clean'
  BY DEF Clean

\* A file that holds the references exposes nothing.
LEMMA ReferencesHide == ASSUME Holds("file", "vt"), ~Holds("out", "plain") PROVE ~Exposed
  BY DEF Holds, Exposed

\* An injection begins with nothing exposed.
LEMMA StartClean ==
    ASSUME Careful, Whole, Clean, ~mishap, NEW p \in Proc, Start(p)
    PROVE  Active(p)' => Tidy(p)'
<1>1. ~Exposed
  BY DEF Start, Clean, Active
<1>2. ~Exposed'
  BY <1>1 DEF Start, disk, Exposed, Holds
<1>. QED BY <1>2 DEF Tidy, Exposed

(* The steps that leave the files alone; a refused decryption finds         *)
(* nothing exposed.                                                         *)
LEMMA QuietStepClean ==
    ASSUME Cleanups = {TRUE}, Whole, Clean, ~mishap, NEW p \in Proc,
           Read(p) \/ Decrypt(p) \/ Fork(p) \/ Exec(p) \/ KillChild(p), ~mishap'
    PROVE  /\ Active(p)' => Tidy(p)'
           /\ ~Active(p)' => ~Exposed'
           /\ pc'[p] = "failed" => ~Exposed'
<1>. USE DEF Read, Decrypt, Fork, Exec, KillChild, Go, disk
<1>1. Tidy(p) /\ JobFits(p)
  BY DEF Whole, Clean, Active, Resting
<1>2. Exposed' = Exposed /\ Holds("out", "plain")' = Holds("out", "plain")
  BY DEF Exposed, Holds
<1>3. job[p].cleanup = TRUE
  BY DEF Whole, TypeOK, Job
<1>4. CASE Read(p)
  BY <1>1, <1>2, <1>4 DEF Whole, TypeOK, Tidy, Replaces, Active, Resting
<1>5. CASE Decrypt(p)
  BY <1>1, <1>2, <1>5 DEF Whole, TypeOK, Tidy, Replaces, Active, Resting, AfterDecrypt
<1>6. CASE Fork(p)
  BY <1>1, <1>2, <1>3, <1>6 DEF Whole, TypeOK, Tidy, Replaces, Active, Resting, CleansUp
<1>7. CASE Exec(p)
  BY <1>1, <1>2, <1>7 DEF Whole, TypeOK, Tidy, Replaces, Active, Resting
<1>8. CASE KillChild(p)
  BY <1>1, <1>2, <1>8 DEF Whole, TypeOK, Tidy, Replaces, Active, Resting
<1>. QED BY <1>4, <1>5, <1>6, <1>7, <1>8

\* An injection into the file itself does not come near the output file.
LEMMA OutputUntouched ==
    ASSUME Whole, MaxInode > 3, NEW p \in Proc, Replaces(p), ~Holds("out", "plain"),
           CopyTruncate(p) \/ Copy(p) \/ Truncate(p) \/ Write(p)
    PROVE  ~Holds("out", "plain")'
<1>1. OpenFiles(p) /\ JobFits(p) /\ Active(p)
  BY DEF Whole, Active, Resting, CopyTruncate, Copy, Truncate, Write
<1>2. CASE CopyTruncate(p) \/ Truncate(p)
  <2>1. \A q \in Proc : from[q] = 0 /\ to[q] = 0
    BY <1>1, <1>2, NothingOpen DEF CopyTruncate, Truncate
  <2>2. PICK n \in {"file", "backup"} : Create(p, n)
    BY <1>2 DEF CopyTruncate, Truncate, Replaces
  <2>3. dir'["out"] = dir["out"] /\ (dir["out"] # 0 => data'[dir["out"]] = data[dir["out"]])
    BY <2>1, <2>2, Created DEF Name
  <2>. QED BY <2>3 DEF Holds
<1>3. CASE Copy(p) \/ Write(p)
  <2>1. dir["out"] # 0 => to[p] # dir["out"]
    BY <1>1, <1>3 DEF Copy, Write, OpenFiles, Replaces, Whole, NamesApart, Name
  <2>2. dir' = dir /\ (dir["out"] # 0 => data'[dir["out"]] = data[dir["out"]])
    BY <1>3, <2>1 DEF Copy, Write, Whole, TypeOK, Name
  <2>. QED BY <2>2 DEF Holds
<1>. QED BY <1>2, <1>3

\* The steps of a copy and of a save.
LEMMA SaveStepClean ==
    ASSUME Whole, Whole', Clean, MaxInode > 3, ~mishap, NEW p \in Proc,
           CopyTruncate(p) \/ Copy(p) \/ Truncate(p) \/ Write(p)
    PROVE  Active(p)' /\ Tidy(p)' /\ pc'[p] # "failed"
<1>. USE DEF CopyTruncate, Copy, Truncate, Write, Go
<1>1. Tidy(p) /\ JobFits(p) /\ References(p)'
  BY DEF Whole, Clean, Active, Resting
<1>2. Replaces(p)' = Replaces(p) /\ job' = job /\ job[p].target # "stdout"
  BY <1>1 DEF Replaces, JobFits
<1>3. pc'[p] \in {"copying", "truncate", "write", "fork"}
  BY DEF Whole, TypeOK
<1>4. pc'[p] = "copying" => Replaces(p) /\ Holds("file", "vt")'
  BY <1>1 DEF Whole, TypeOK, References, JobFits
<1>5. Replaces(p) => ~Holds("out", "plain")'
  BY <1>1, OutputUntouched DEF Tidy
<1>6. pc'[p] = "copying" => ~Exposed'
  BY <1>4, <1>5, ReferencesHide DEF Exposed, Holds
<1>. QED BY <1>2, <1>3, <1>5, <1>6 DEF Tidy, Active, Resting

\* What process or child undo is no longer exposed.
LEMMA UndoClean ==
    ASSUME Whole, Clean, ~mishap, NEW p \in Proc, Restore(p) \/ Wake(p), ~mishap'
    PROVE  ~Exposed'
<1>1. Tidy(p) /\ References(p) /\ Active(p)
  BY DEF Whole, Clean, Active, Resting, Restore, Wake
<1>2. Undo(p) /\ data' = data
  BY DEF Restore, Wake, UndoFails
<1>3. job[p].target \in {"file", "out", "stdout"}
  BY DEF Whole, TypeOK, Job
<1>4. CASE Replaces(p)
  <2>1. BackedUp /\ ~Holds("out", "plain")
    BY <1>1, <1>4 DEF References, Tidy, Restore, Wake
  <2>. QED BY <1>2, <1>4, <2>1 DEF Undo, BackedUp, Holds, Exposed, Replaces, Whole, TypeOK, Name
<1>5. CASE job[p].target = "out"
  <2>1. Holds("file", "vt")
    BY <1>1, <1>5 DEF References, Replaces
  <2>. QED BY <1>2, <1>5, <2>1 DEF Undo, Holds, Exposed, Replaces, Whole, TypeOK, Name
<1>6. CASE job[p].target = "stdout"
  BY <1>1, <1>2, <1>6 DEF Undo, Tidy, Replaces, Holds, Exposed
<1>. QED BY <1>3, <1>4, <1>5, <1>6 DEF Replaces

\* A failure is reported only when nothing is exposed, or something went wrong.
Honest(p) == pc[p] # "failed" /\ pc'[p] = "failed" => ~Exposed' \/ mishap'

(* Whatever went wrong before: who could not execute the command and is not *)
(* refused the undo leaves nothing decrypted, since the backup is there to  *)
(* be renamed, or has been by the child (BackedUp).                         *)
Undone(p) == pc[p] = "restore" /\ pc'[p] = "failed" => ~Leftover(p)'

\* What p itself undoes is not left over.
LEMMA RestoreUndone ==
    ASSUME Whole, NEW p \in Proc, Restore(p), pc'[p] = "failed" PROVE ~Leftover(p)'
<1>1. References(p) /\ pc[p] = "restore"
  BY DEF Whole, Restore
<1>2. Undo(p) /\ UNCHANGED <<data, job>>
  BY DEF Restore, Go, Whole, TypeOK
<1>3. CASE Replaces(p)
  <2>1. BackedUp
    BY <1>1, <1>3 DEF References
  <2>2. Holds("file", "vt")'
    BY <1>2, <1>3, <2>1 DEF Undo, BackedUp, Holds, Whole, TypeOK, Name
  <2>. QED BY <1>2, <1>3, <2>2 DEF Leftover, Replaces, Holds
<1>4. CASE ~Replaces(p)
  BY <1>2, <1>4 DEF Undo, Leftover, Replaces, Holds, Whole, TypeOK, Name, Job
<1>. QED BY <1>3, <1>4

\* Only p itself takes p from restore to its end.
LEMMA NextUndone == ASSUME Whole, [Next]_vars PROVE \A p \in Proc : Undone(p)
<1>. SUFFICES ASSUME NEW p \in Proc, pc[p] = "restore", pc'[p] = "failed"
             PROVE  ~Leftover(p)'
  BY DEF Undone
<1>1. ~UNCHANGED vars
  BY DEF vars
<1>2. PICK q \in Proc : Start(q) \/ Step(q) \/ Wake(q) \/ Die(q) \/ ChildDies(q)
  BY <1>1 DEF Next
<1>3. pc \in [Proc -> Label]
  BY DEF Whole, TypeOK, Label, Saving
<1>4. pc' # pc
  OBVIOUS
<1>5. ~Wake(q) /\ ~ChildDies(q)
  BY <1>4 DEF Wake, ChildDies, disk
<1>6. pc' = [pc EXCEPT ![q] = pc'[q]] /\ (pc[q] = "restore" => Restore(q) \/ pc'[q] = "idle")
  <2>1. CASE Start(q) \/ Die(q)
    BY <1>3, <2>1 DEF Start, Die, Go, Resting
  <2>2. CASE Read(q) \/ Decrypt(q) \/ CopyTruncate(q) \/ Copy(q) \/ Truncate(q)
    BY <1>3, <2>2 DEF Read, Decrypt, CopyTruncate, Copy, Truncate, Go
  <2>3. CASE Write(q) \/ SaveFails(q) \/ Fork(q) \/ Exec(q) \/ KillChild(q)
    BY <1>3, <2>3 DEF Write, SaveFails, Fork, Exec, KillChild, Go
  <2>4. CASE Restore(q)
    BY <1>3, <2>4 DEF Restore, Go
  <2>. QED BY <1>2, <1>5, <2>1, <2>2, <2>3, <2>4 DEF Step
<1>7. q = p
  BY <1>3, <1>6
<1>. QED BY <1>6, <1>7, RestoreUndone

\* Every step leaves things clean and is honest.
LEMMA NextClean ==
    ASSUME Careful, MaxInode > 3, Cleanups = {TRUE}, Whole, Whole', Clean, [Next]_vars
    PROVE  Clean' /\ \A p \in Proc : Honest(p)
<1>1. CASE mishap'
  BY <1>1 DEF Clean, Honest
<1>2. CASE UNCHANGED vars
  BY <1>2 DEF vars, Clean, Active, Tidy, Exposed, Replaces, Holds, Honest
<1>3. ASSUME ~mishap', NEW p \in Proc, Start(p) \/ Step(p) \/ Wake(p) \/ Die(p) \/ ChildDies(p)
      PROVE  Clean' /\ \A q \in Proc : Honest(q)
  <2>. USE <1>3
  <2>1. ~mishap
    BY DEF Start, Step, Read, Decrypt, CopyTruncate, Copy, Truncate, Write, SaveFails, Fork, Exec,
           KillChild, Restore, Wake, UndoFails, Die, ChildDies
  <2>2. ~SaveFails(p) /\ ~Die(p) /\ ~ChildDies(p)
    BY DEF SaveFails, Die, ChildDies
  <2>3. /\ Active(p)' => Tidy(p)'
        /\ ~Active(p)' => ~Exposed'
        /\ Honest(p)
    <3>1. CASE Start(p)
      BY <2>1, <3>1, StartClean DEF Start, Go, Whole, TypeOK, Active, Resting, Honest
    <3>2. CASE Read(p) \/ Decrypt(p) \/ Fork(p) \/ Exec(p) \/ KillChild(p)
      BY <2>1, <3>2, QuietStepClean DEF Honest
    <3>3. CASE CopyTruncate(p) \/ Copy(p) \/ Truncate(p) \/ Write(p)
      BY <2>1, <3>3, SaveStepClean DEF Honest
    <3>4. CASE Restore(p) \/ Wake(p)
      BY <2>1, <3>4, UndoClean DEF Honest, Tidy, Exposed
    <3>. QED BY <2>2, <3>1, <3>2, <3>3, <3>4 DEF Step
  <2>4. \A q \in Proc \ {p} : ~Active(q)' /\ UNCHANGED <<pc[q], child[q]>>
    <3>1. \A q \in Proc \ {p} : ~Active(q)
      <4>1. CASE Start(p)
        BY <4>1 DEF Start, Active
      <4>2. CASE ~Start(p)
        <5>1. Active(p)
          BY <2>2, <4>2 DEF Active, Resting, Step, Read, Decrypt, CopyTruncate, Copy, Truncate,
                            Write, Fork, Exec, KillChild, Restore, Wake
        <5>. QED BY <5>1, Turn
      <4>. QED BY <4>1, <4>2
    <3>2. \A q \in Proc \ {p} : UNCHANGED <<pc[q], child[q]>>
      BY <2>2 DEF Whole, TypeOK, Go, Start, Step, Read, Decrypt, CopyTruncate, Copy, Truncate,
                  Write, Fork, Exec, KillChild, Restore, Wake
    <3>. QED BY <3>1, <3>2 DEF Active
  <2>5. \A q \in Proc : Honest(q)
    BY <2>3, <2>4 DEF Honest
  <2>. QED BY <2>3, <2>4, <2>5, CleanAfter
<1>. QED BY <1>1, <1>2, <1>3 DEF Next

(* With timeouts a failure is reported only when nothing is left decrypted, *)
(* unless something died or was refused; and by an injection that could not *)
(* execute its command only when nothing of it is left, unless it was       *)
(* refused the undo itself (restore_backup, cli.rs:645-660).                *)
THEOREM NothingLeft ==
    ASSUME Careful, MaxInode > 3, Cleanups = {TRUE} PROVE Spec => FailureUndone
<1>1. Init => Clean
  BY CleanInit
<1>2. Whole /\ Whole' /\ Clean /\ [Next]_vars => Clean'
  BY NextClean
<1>3. Whole /\ Whole' /\ Clean /\ [Next]_vars =>
        [\A p \in Proc :
           pc[p] # "failed" /\ pc'[p] = "failed" =>
              /\ ~Exposed' \/ mishap'
              /\ pc[p] = "restore" => ~Leftover(p)']_vars
  BY NextClean, NextUndone DEF Honest, Undone
<1>. QED BY <1>1, <1>2, <1>3, Invariance, PTL DEF Spec, FailureUndone
==============================================================================
