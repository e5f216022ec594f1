------------------------------ MODULE Provision -------------------------------
(***************************************************************************)
(* The first setup of a machine: init, init --pubkey and import            *)
(* (yubikey_init, yubikey_init_with_pubkey and reencrypt_passphrase of     *)
(* src/yk_backend.rs, import_secret of src/cli.rs).  They put a key in     *)
(* slot 9d of the YubiKey and write passphrase.enc, auth_token.enc and     *)
(* config.toml, one after the other, each truncated and then written.      *)
(* They prompt at a terminal, so one of them runs at a time; it may die    *)
(* between any two steps and be run again.                                 *)
(***************************************************************************)
EXTENDS Naturals, Sequences

CONSTANTS
    Ops,         \* the commands that are run: "init", "pubkey", "import"
    MaxAttempts, \* no more of them than this (a bound)
    Crashes,     \* may they die between two steps, and saves fail?
    None,        \* no file, no key
    Torn         \* a file that was truncated and not written

ASSUME OpsAssumption == Ops \subseteq {"init", "pubkey", "import"}
ASSUME BoundAssumption == MaxAttempts \in Nat /\ Crashes \in BOOLEAN
ASSUME NoneAssumption ==
    /\ None # Torn /\ {None, Torn} \cap Nat = {}
    /\ {None, Torn} \cap ([key : Nat] \cup [key : Nat, secret : Nat]) = {}

VARIABLES
    slot,    \* the private key in slot 9d
    files,   \* what each of the three files holds
    op,      \* the command that runs
    pc,      \* where it is
    todo,    \* the files it has still to write, and what it will write there
    attempt, \* how many commands have been run
    acked    \* the setup the last successful command reported, or None

vars == <<slot, files, op, pc, todo, attempt, acked>>

File == {"passphrase", "auth", "config"}

\* The n-th command draws the key, the passphrase and the token number n.
SharedKey == 0    \* the key that `ykman piv keys import 9d` puts in the slot
Imported == 0     \* the passphrase that `vt-yubi export` gave for import

KeyId == 0..MaxAttempts

\* A secret encrypted for a key.
Box(k, v) == [key |-> k, secret |-> v]

Boxes == [key : KeyId, secret : KeyId]

Exists(f) == files[f] # None

Loads(f) == files[f] \notin {None, Torn}

\* The YubiKey decrypts the file f: read_ecies_file and ecies_decrypt.
Decrypts(f) == Loads(f) /\ files[f].key = slot

Init ==
    /\ slot = None
    /\ files = [f \in File |-> None]
    /\ op = "init" /\ pc = "idle" /\ todo = <<>>
    /\ attempt = 0 /\ acked = None

-----------------------------------------------------------------------------
\* The command is over, whether it is done, was refused or failed.
End == pc' = "idle" /\ todo' = <<>> /\ UNCHANGED <<op, attempt>>

Go(label) == pc' = label /\ UNCHANGED <<op, todo, attempt>>

Begin ==
    /\ pc = "idle" /\ attempt < MaxAttempts
    /\ op' \in Ops
    /\ attempt' = attempt + 1
    /\ pc' = IF op' = "import" THEN "loadConfig" ELSE "check"
    /\ UNCHANGED <<slot, files, todo, acked>>

\* import_secret: a config that loads ends it, a wrong passphrase as well.
ImportCheck ==
    /\ pc = "loadConfig"
    /\ IF Loads("config") THEN End ELSE Go("check") \/ End
    /\ UNCHANGED <<slot, files, acked>>

\* Both kinds of init: a config file, whatever is in it, ends them.
InitCheck ==
    /\ pc = "check"
    /\ IF Exists("config") THEN End ELSE Go("key")
    /\ UNCHANGED <<slot, files, acked>>

Write(f, text) == [file |-> f, text |-> text]

\* Fault: the config is saved before the secrets.
ConfigFirst(k) ==
    <<Write("config", [key |-> k]),
      Write("passphrase", Box(k, attempt)),
      Write("auth", Box(k, attempt))>>

\* Fault: the secrets are encrypted for the key the slot had before.
ForOldKey(k) ==
    <<Write("passphrase", Box(slot, attempt)),
      Write("auth", Box(slot, attempt)),
      Write("config", [key |-> k])>>

\* What init writes, in this order.
InitWrites(k) ==
    <<Write("passphrase", Box(k, attempt)),
      Write("auth", Box(k, attempt)),
      Write("config", [key |-> k])>>

\* Fault: import forgets the passphrase it was given.
NoReencryption(k) == InitWrites(k)

\* import then encrypts the passphrase it was given for the new key.
ImportWrites(k) == InitWrites(k) \o <<Write("passphrase", Box(k, Imported))>>

\* yubikey_init: no YubiKey or no management key, or a new key in the slot.
GenerateKey ==
    /\ pc = "key" /\ op \in {"init", "import"}
    /\ \/ End /\ UNCHANGED slot
       \/ /\ slot' = attempt
          /\ todo' = IF op = "import" THEN ImportWrites(attempt) ELSE InitWrites(attempt)
          /\ pc' = "truncate"
          /\ UNCHANGED <<op, attempt>>
    /\ UNCHANGED <<files, acked>>

(* yubikey_init_with_pubkey: the key it is given is taken if what is        *)
(* encrypted for it comes back from the YubiKey.                            *)
VerifyKey ==
    /\ pc = "key" /\ op = "pubkey"
    /\ \/ End
       \/ \E k \in KeyId :
             /\ k = slot
             /\ todo' = InitWrites(k)
             /\ pc' = "truncate"
             /\ UNCHANGED <<op, attempt>>
    /\ UNCHANGED <<slot, files, acked>>

Truncate ==
    /\ pc = "truncate" /\ todo # <<>>
    /\ files' = [files EXCEPT ![Head(todo).file] = Torn]
    /\ Go("write")
    /\ UNCHANGED <<slot, acked>>

WriteFile ==
    /\ pc = "write"
    /\ files' = [files EXCEPT ![Head(todo).file] = Head(todo).text]
    /\ todo' = Tail(todo)
    /\ pc' = "truncate"
    /\ UNCHANGED <<slot, op, attempt, acked>>

\* The command prints VT_AUTH.
Acknowledge ==
    /\ pc = "truncate" /\ todo = <<>>
    /\ acked' = [key |-> slot, auth |-> attempt,
                 passphrase |-> IF op = "import" THEN Imported ELSE attempt]
    /\ End
    /\ UNCHANGED <<slot, files>>

\* A save fails, or the process dies: what it has written stays.
Die ==
    /\ Crashes /\ pc # "idle"
    /\ End
    /\ UNCHANGED <<slot, files, acked>>

\* The user deletes ~/.vt-yubi, as the refusal suggests.
DeleteDirectory ==
    /\ pc = "idle" /\ \E f \in File : Exists(f)
    /\ files' = [f \in File |-> None]
    /\ acked' = None
    /\ UNCHANGED <<slot, op, pc, todo, attempt>>

\* ykman piv keys import, before init --pubkey.
ImportKey ==
    /\ pc = "idle" /\ ~Exists("config") /\ slot # SharedKey
    /\ slot' = SharedKey
    /\ UNCHANGED <<files, op, pc, todo, attempt, acked>>

Next ==
    \/ Begin \/ ImportCheck \/ InitCheck \/ GenerateKey \/ VerifyKey
    \/ Truncate \/ WriteFile \/ Acknowledge
    \/ Die \/ DeleteDirectory \/ ImportKey

Spec == Init /\ [][Next]_vars

-----------------------------------------------------------------------------
Reported ==
    [key : KeyId, auth : KeyId, passphrase : KeyId]

\* Secrets are encrypted for keys; the other variables keep their types.
TypeOK ==
    /\ slot \in KeyId \cup {None}
    /\ files["config"] \in [key : KeyId] \cup {None, Torn}
    /\ \A f \in File \ {"config"} : files[f] \in Boxes \cup {None, Torn}
    /\ DOMAIN files = File
    /\ op \in {"init", "pubkey", "import"}
    /\ pc \in {"idle", "loadConfig", "check", "key", "truncate", "write"}
    /\ Len(todo) <= 4
    /\ attempt \in KeyId
    /\ acked \in Reported \cup {None}

\* The server starts on this setup: the YubiKey decrypts both secrets.
Usable ==
    /\ Loads("config") /\ files["config"].key = slot
    /\ Decrypts("passphrase") /\ Decrypts("auth")

(* A setup that was reported to the user is there and works, with the       *)
(* passphrase that was reported, until the user deletes it: commands run    *)
(* later, wherever they stop, neither replace the key in the slot           *)
(* (yk_backend.rs:213, 289; cli.rs:748) nor any of the files.               *)
ReportedSetupWorks ==
    acked # None =>
        /\ Usable
        /\ slot = acked.key
        /\ files["passphrase"].secret = acked.passphrase
        /\ files["auth"].secret = acked.auth

(* init writes config.toml last (yk_backend.rs:264): whenever it can be     *)
(* loaded, wherever the command that wrote it died, the secrets beside it   *)
(* are whole and encrypted for the key in the slot; only the passphrase may *)
(* be torn, by an import that was about to replace it.                      *)
UsableOnceConfigured ==
    Loads("config") =>
        /\ files["config"].key = slot /\ Decrypts("auth")
        /\ Decrypts("passphrase") \/ ("import" \in Ops /\ files["passphrase"] = Torn)
=============================================================================
