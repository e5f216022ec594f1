------------------------------ MODULE Injection -------------------------------
(***************************************************************************)
(* vt-yubi inject (src/cli.rs): a file with vt:// references is decrypted  *)
(* into itself (-r, after a copy of it to <file>.vt), into an output file  *)
(* (-o) or to the terminal; a child is forked that sleeps for the timeout  *)
(* and then undoes it, and the process becomes the command it was given.   *)
(*                                                                         *)
(* Several injections work on the same file.  A process that has a file    *)
(* open keeps on writing to it when another renames or removes it, so      *)
(* names and files (inodes) are told apart.  What the decryption returns   *)
(* for a reference, a secret or a message, counts as "plain" alike.  The   *)
(* texts themselves, those of arguments and variables too, are the subject *)
(* of SecretStrings.  The output file is neither the input nor its backup: *)
(* inject does not check that, and -o on its own input would overwrite the *)
(* references without a copy of them.                                      *)
(***************************************************************************)
EXTENDS Naturals

CONSTANTS
    Proc,     \* processes that inject, one injection after the other
    Cleanups, \* may a timeout be positive (TRUE), or zero (FALSE)?
    MaxInode, \* enough files for all names and open files (a bound)
    Careful,  \* do users wait until the file holds its references again?
    Faults    \* the faults that may happen: "death", "save", "fork", "undo"

ASSUME CleanupsAssumption == Cleanups \subseteq BOOLEAN
ASSUME CarefulAssumption == Careful \in BOOLEAN
ASSUME InodeAssumption == MaxInode \in Nat \ {0}

VARIABLES
    dir,     \* the file each name stands for, 0 if there is none
    data,    \* what the files contain
    from,    \* the file each process reads while it copies
    to,      \* the file it has open for writing
    pc,      \* where each process is
    job,     \* what it was asked to do
    text,    \* what it has read or decrypted
    child,   \* its cleanup process: "none" or "asleep"
    mishap   \* has a process died, or a save, a fork or an undo failed?

disk == <<dir, data, from, to>>
vars == <<dir, data, from, to, pc, job, text, child, mishap>>

\* The file with the references, its copy <file>.vt, and the output file.
Name == {"file", "backup", "out"}

Content == {"vt", "plain", "empty"}

Inode == 1..MaxInode

Holds(n, content) == dir[n] # 0 /\ data[dir[n]] = content

\* -r, -o, or neither; with or without a timeout; with or without a command.
Job == [target : {"file", "out", "stdout"}, cleanup : Cleanups, command : BOOLEAN]

Init ==
    /\ dir = [n \in Name |-> IF n = "file" THEN 1 ELSE 0]
    /\ data = [i \in Inode |-> IF i = 1 THEN "vt" ELSE "empty"]
    /\ from = [p \in Proc |-> 0] /\ to = [p \in Proc |-> 0]
    /\ pc = [p \in Proc |-> "idle"]
    /\ job \in [Proc -> Job]
    /\ text = [p \in Proc |-> "empty"]
    /\ child = [p \in Proc |-> "none"]
    /\ mishap = FALSE

\* "unrestored" is "failed" when restore_backup could not rename or remove.
Resting == {"idle", "done", "failed", "unrestored"}

Go(p, label) == pc' = [pc EXCEPT ![p] = label]

Start(p) ==
    /\ pc[p] \in Resting /\ child[p] = "none"
    /\ Careful => /\ Holds("file", "vt")
                  /\ \A q \in Proc : pc[q] \in Resting /\ child[q] = "none"
    /\ \E j \in Job : job' = [job EXCEPT ![p] = j]
    /\ Go(p, "read")
    /\ UNCHANGED <<disk, text, child, mishap>>

Read(p) ==
    /\ pc[p] = "read"
    /\ text' = [text EXCEPT ![p] = data[dir["file"]]]
    /\ Go(p, "decrypt")
    /\ UNCHANGED <<disk, job, child, mishap>>

Replaces(p) == job[p].target = "file"

\* Fault: no backup.
WriteAtOnce(p) == IF job[p].target = "stdout" THEN "fork" ELSE "truncate"

AfterDecrypt(p) ==
    IF Replaces(p) THEN "copy"
    ELSE IF job[p].target = "out" THEN "truncate"
    ELSE "fork"

\* decrypt_from_multi_str: the server refuses, or all references are replaced.
Decrypt(p) ==
    /\ pc[p] = "decrypt"
    /\ \/ Go(p, "failed") /\ text' = [text EXCEPT ![p] = "empty"]
       \/ /\ Go(p, AfterDecrypt(p))
          /\ text' = [text EXCEPT ![p] = IF text[p] = "vt" THEN "plain" ELSE text[p]]
    /\ UNCHANGED <<disk, job, child, mishap>>

Used == {dir[n] : n \in Name} \cup {from[p] : p \in Proc} \cup {to[p] : p \in Proc}

\* The name is opened for writing: its file is truncated, or a new one made.
Create(p, n) ==
    LET i == IF dir[n] # 0 THEN dir[n] ELSE CHOOSE f \in Inode : f \notin Used
    IN  /\ dir' = [dir EXCEPT ![n] = i]
        /\ data' = [data EXCEPT ![i] = "empty"]
        /\ to' = [to EXCEPT ![p] = i]

Close(p) == from' = [from EXCEPT ![p] = 0] /\ to' = [to EXCEPT ![p] = 0]

\* std::fs::copy to <file>.vt: whatever the file holds by now.
CopyTruncate(p) ==
    /\ pc[p] = "copy"
    /\ from' = [from EXCEPT ![p] = dir["file"]]
    /\ Create(p, "backup")
    /\ Go(p, "copying")
    /\ UNCHANGED <<job, text, child, mishap>>

Copy(p) ==
    /\ pc[p] = "copying"
    /\ data' = [data EXCEPT ![to[p]] = data[from[p]]]
    /\ Close(p)
    /\ Go(p, "truncate")
    /\ UNCHANGED <<dir, job, text, child, mishap>>

Truncate(p) ==
    /\ pc[p] = "truncate"
    /\ Create(p, job[p].target)
    /\ Go(p, "write")
    /\ UNCHANGED <<from, job, text, child, mishap>>

Write(p) ==
    /\ pc[p] = "write"
    /\ data' = [data EXCEPT ![to[p]] = text[p]]
    /\ Close(p)
    /\ Go(p, "fork")
    /\ UNCHANGED <<dir, job, text, child, mishap>>

\* An error of copy or write ends the injection; nothing is undone.
SaveFails(p) ==
    /\ "save" \in Faults
    /\ pc[p] \in {"copy", "copying", "truncate", "write"}
    /\ Close(p)
    /\ Go(p, "failed")
    /\ mishap' = TRUE
    /\ UNCHANGED <<dir, data, job, text, child>>

\* Fault: only an output file is cleaned up after.
CleansOutput(p) == job[p].cleanup /\ job[p].target = "out"

CleansUp(p) == job[p].cleanup /\ job[p].target # "stdout"

Fork(p) ==
    /\ pc[p] = "fork"
    /\ \/ /\ child' = [child EXCEPT ![p] = IF CleansUp(p) THEN "asleep" ELSE "none"]
          /\ Go(p, IF job[p].command THEN "exec" ELSE "done")
          /\ UNCHANGED mishap
       \/ /\ "fork" \in Faults /\ CleansUp(p)
          /\ Go(p, "failed")
          /\ mishap' = TRUE
          /\ UNCHANGED child
    /\ UNCHANGED <<disk, job, text>>

\* The process becomes the command, or the command cannot be executed.
Exec(p) ==
    /\ pc[p] = "exec"
    /\ Go(p, "done") \/ Go(p, "kill")
    /\ UNCHANGED <<disk, job, text, child, mishap>>

\* SIGTERM and waitpid.
KillChild(p) ==
    /\ pc[p] = "kill"
    /\ child' = [child EXCEPT ![p] = "none"]
    /\ Go(p, "restore")
    /\ UNCHANGED <<disk, job, text, mishap>>

\* Fault: the file is removed before its backup is renamed.
UndoByRemoval(p) ==
    dir' = IF Replaces(p) THEN [dir EXCEPT !["file"] = dir["backup"], !["backup"] = 0]
           ELSE IF job[p].target = "out" THEN [dir EXCEPT !["out"] = 0]
           ELSE dir

\* rename(<file>.vt, <file>), or the removal of the output file.
Undo(p) ==
    dir' = IF Replaces(p) /\ dir["backup"] # 0
             THEN [dir EXCEPT !["file"] = dir["backup"], !["backup"] = 0]
           ELSE IF job[p].target = "out" THEN [dir EXCEPT !["out"] = 0]
           ELSE dir

\* There is a backup to rename, or an output file to remove.
Undoable(p) ==
    IF Replaces(p) THEN dir["backup"] # 0 ELSE job[p].target = "out" /\ dir["out"] # 0

(* The rename or the removal is refused, as in a directory that may not be  *)
(* written to: process and child print the error and end.                   *)
UndoFails(p) ==
    /\ "undo" \in Faults /\ Undoable(p)
    /\ mishap' = TRUE
    /\ UNCHANGED dir

\* Fault: whoever killed the child has nothing to undo.
RestoreUncleaned(p) ==
    /\ pc[p] = "restore"
    /\ IF CleansUp(p) THEN UNCHANGED dir ELSE Undo(p)
    /\ Go(p, "failed")
    /\ UNCHANGED <<data, from, to, job, text, child, mishap>>

\* restore_backup, whether or not the child was faster.
Restore(p) ==
    /\ pc[p] = "restore"
    /\ \/ Undo(p) /\ Go(p, "failed") /\ UNCHANGED mishap
       \/ UndoFails(p) /\ Go(p, "unrestored")
    /\ UNCHANGED <<data, from, to, job, text, child>>

\* The timeout of the child is over; it tries once.
Wake(p) ==
    /\ child[p] = "asleep"
    /\ \/ Undo(p) /\ UNCHANGED mishap
       \/ UndoFails(p)
    /\ child' = [child EXCEPT ![p] = "none"]
    /\ UNCHANGED <<data, from, to, pc, job, text>>

\* The process is killed; its child goes on.
Die(p) ==
    /\ "death" \in Faults /\ pc[p] \notin Resting
    /\ Close(p)
    /\ Go(p, "idle")
    /\ mishap' = TRUE
    /\ UNCHANGED <<dir, data, job, text, child>>

\* The child is killed, as by an interrupt from the terminal.
ChildDies(p) ==
    /\ "death" \in Faults /\ child[p] = "asleep"
    /\ child' = [child EXCEPT ![p] = "none"]
    /\ mishap' = TRUE
    /\ UNCHANGED <<disk, pc, job, text>>

Step(p) ==
    \/ Read(p) \/ Decrypt(p) \/ CopyTruncate(p) \/ Copy(p)
    \/ Truncate(p) \/ Write(p) \/ SaveFails(p) \/ Fork(p) \/ Exec(p)
    \/ KillChild(p) \/ Restore(p)

Next == \E p \in Proc : Start(p) \/ Step(p) \/ Wake(p) \/ Die(p) \/ ChildDies(p)

Spec == Init /\ [][Next]_vars

\* The processes run, and every sleep ends.
Fairness == \A p \in Proc : WF_vars(Step(p)) /\ WF_vars(Wake(p))

FairSpec == Spec /\ Fairness

-----------------------------------------------------------------------------
\* Types; and the file with the references is never missing.
TypeOK ==
    /\ dir \in [Name -> Inode \cup {0}] /\ dir["file"] # 0
    /\ data \in [Inode -> Content]
    /\ from \in [Proc -> Inode \cup {0}] /\ to \in [Proc -> Inode \cup {0}]
    /\ pc \in [Proc -> Resting \cup {"read", "decrypt", "copy", "copying", "truncate",
                                     "write", "fork", "exec", "kill", "restore"}]
    /\ job \in [Proc -> Job]
    /\ text \in [Proc -> Content]
    /\ child \in [Proc -> {"none", "asleep"}]
    /\ mishap \in BOOLEAN

(* The references are never lost: whatever fails and whoever dies, they are *)
(* in the file or in its backup, where the user can find them.              *)
ReferencesKept == Holds("file", "vt") \/ Holds("backup", "vt")

Exposed == Holds("file", "plain") \/ Holds("out", "plain")

(* "Environment variable and file injection with automatic cleanup"         *)
(* (README.md:13): what an injection decrypts into a file goes away, unless *)
(* a process is killed or the system refuses it a save, a fork, a rename or *)
(* a removal.                                                               *)
AutomaticCleanup == Exposed ~> ~Exposed \/ mishap

\* What p was asked to decrypt into is still decrypted.
Leftover(p) == job[p].target # "stdout" /\ Holds(job[p].target, "plain")

(* An injection that reports a failure leaves nothing decrypted, unless     *)
(* something went wrong on the way (see mishap).  One that could not        *)
(* execute its command, and is not itself refused the rename or removal of  *)
(* restore_backup (cli.rs:645-660, 704-716), has undone its work even then: *)
(* the child may have been faster, killed, dead, or refused.                *)
FailureUndone ==
    [][\A p \in Proc :
          pc[p] # "failed" /\ pc'[p] = "failed" =>
             /\ ~Exposed' \/ mishap'
             /\ pc[p] = "restore" => ~Leftover(p)']_vars
=============================================================================
