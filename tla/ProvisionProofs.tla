--------------------------- MODULE ProvisionProofs ---------------------------
(***************************************************************************)
(* Setups, however often they are tried and wherever they die: a setup     *)
(* that was reported works, and a config that loads stands for a key and   *)
(* secrets that belong together.                                           *)
(*                                                                         *)
(* The invariant says how far a setup has come: what the files before the  *)
(* one it writes hold already, and that there is no config that could be   *)
(* taken for a setup until the last of them is written.                    *)
(***************************************************************************)
EXTENDS Provision, SequenceTheorems, TLAPS

USE OpsAssumption, BoundAssumption, NoneAssumption

\* What the command that runs writes.
Pass   == Write("passphrase", Box(slot, attempt))
Auth   == Write("auth", Box(slot, attempt))
Conf   == Write("config", [key |-> slot])
Repass == Write("passphrase", Box(slot, Imported))

\* The secrets are in place.
PassDone == files["passphrase"] = Box(slot, attempt)
AuthDone == files["auth"] = Box(slot, attempt)
ConfDone == files["config"] = [key |-> slot]

BeforePass ==
    /\ todo = IF op = "import" THEN <<Pass, Auth, Conf, Repass>> ELSE <<Pass, Auth, Conf>>
    /\ ~Exists("config")

BeforeAuth ==
    /\ todo = IF op = "import" THEN <<Auth, Conf, Repass>> ELSE <<Auth, Conf>>
    /\ PassDone /\ ~Exists("config")

BeforeConf ==
    /\ todo = IF op = "import" THEN <<Conf, Repass>> ELSE <<Conf>>
    /\ PassDone /\ AuthDone /\ ~Loads("config")

BeforeRepass ==
    /\ op = "import" /\ todo = <<Repass>>
    /\ AuthDone /\ ConfDone
    /\ PassDone \/ files["passphrase"] = Torn

Complete ==
    /\ pc = "truncate" /\ todo = <<>>
    /\ AuthDone /\ ConfDone
    /\ files["passphrase"] = Box(slot, IF op = "import" THEN Imported ELSE attempt)

Underway ==
    pc \in {"truncate", "write"} =>
        /\ slot \in KeyId
        /\ BeforePass \/ BeforeAuth \/ BeforeConf \/ BeforeRepass \/ Complete

Quiet ==
    /\ pc \notin {"truncate", "write"} => todo = <<>>
    /\ pc = "key" => ~Exists("config")
    /\ pc # "idle" => op \in Ops
    /\ pc \in {"key", "truncate", "write"} => acked = None

Consistent ==
    /\ files = [f \in File |-> files[f]]
    /\ TypeOK /\ Underway /\ Quiet /\ ReportedSetupWorks /\ UsableOnceConfigured

-----------------------------------------------------------------------------
\* What import writes.
LEMMA ImportWritesAre ==
    ASSUME NEW k
    PROVE  ImportWrites(k) = <<Write("passphrase", Box(k, attempt)), Write("auth", Box(k, attempt)),
                               Write("config", [key |-> k]),
                               Write("passphrase", Box(k, Imported))>>
<1>. DEFINE p == Write("passphrase", Box(k, attempt))
            a == Write("auth", Box(k, attempt))
            c == Write("config", [key |-> k])
            r == Write("passphrase", Box(k, Imported))
            s == <<p, a, c>> \o <<r>>
            t == <<p, a, c, r>>
<1>1. ImportWrites(k) = s
  BY DEF ImportWrites, InitWrites
<1>. HIDE DEF p, a, c, r
<1>2. s \in Seq({p, a, c, r}) /\ t \in Seq({p, a, c, r}) /\ Len(s) = 4 /\ Len(t) = 4
  OBVIOUS
<1>3. s[1] = p /\ s[2] = a /\ s[3] = c /\ s[4] = r
  OBVIOUS
<1>4. \A i \in 1..4 : s[i] = t[i]
  BY <1>3
<1>. HIDE DEF s
<1>5. s = t
  <2>. HIDE DEF t
  <2>. QED BY <1>2, <1>4, SeqEqual
<1>. QED BY <1>1, <1>5 DEF p, a, c, r

\* A setup that has not begun to write is under way nowhere.
LEMMA ConsistentInit == ASSUME Init PROVE Consistent
  BY DEF Init, Consistent, TypeOK, Underway, Quiet, ReportedSetupWorks, UsableOnceConfigured,
         Exists, Loads, File, KeyId

(* The commands until they write, their end, and what users do between      *)
(* them: no file that makes up a setup changes.                             *)
LEMMA BeginKeeps == ASSUME Consistent, Begin PROVE Consistent'
  BY DEF Begin, Consistent, TypeOK, Underway, Quiet, ReportedSetupWorks, UsableOnceConfigured,
         Usable, Decrypts, Exists, Loads, KeyId

\* The checks before a setup only decide whether it goes on.
LEMMA CheckKeeps == ASSUME Consistent, ImportCheck \/ InitCheck PROVE Consistent'
  BY DEF ImportCheck, InitCheck, End, Go, Consistent, TypeOK, Underway, Quiet, ReportedSetupWorks,
         UsableOnceConfigured, Usable, Decrypts, Exists, Loads, KeyId

(* End of a command, by success, refusal or death: what is in the files     *)
(* stays as it is, and so does what was reported.                           *)
LEMMA EndKeeps ==
    ASSUME Consistent, End, UNCHANGED <<slot, files, acked>> PROVE Consistent'
  BY DEF End, Consistent, TypeOK, Underway, Quiet, ReportedSetupWorks,
         UsableOnceConfigured, Usable, Decrypts, Exists, Loads, KeyId

\* A new key comes into the slot while nothing is configured.
LEMMA GenerateKeyKeeps == ASSUME Consistent, GenerateKey PROVE Consistent'
<1>1. CASE End /\ UNCHANGED <<slot, files, acked>>
  BY <1>1, EndKeeps
<1>2. CASE /\ slot' = attempt
           /\ todo' = IF op = "import" THEN ImportWrites(attempt) ELSE InitWrites(attempt)
           /\ pc' = "truncate"
           /\ UNCHANGED <<op, attempt, files, acked>>
  <2>. USE <1>2
  <2>1. pc = "key" /\ ~Exists("config") /\ acked = None /\ attempt \in KeyId
    BY DEF GenerateKey, Consistent, Quiet, TypeOK
  <2>2. BeforePass'
    BY <2>1, ImportWritesAre
       DEF BeforePass, InitWrites, Pass, Auth, Conf, Repass, Exists, Write
  <2>3. Len(todo') <= 4
    <3>1. CASE op = "import"
      <4>1. todo' = <<Pass, Auth, Conf, Repass>>'
        BY <2>2, <3>1 DEF BeforePass
      <4>2. \A p, a, c, r : Len(<<p, a, c, r>>) = 4
        OBVIOUS
      <4>3. Len(todo') = 4
        BY <4>1, <4>2
      <4>. QED BY ONLY <4>3
    <3>2. CASE op # "import"
      BY <3>2 DEF InitWrites
    <3>. QED BY <3>1, <3>2
  <2>4. TypeOK'
    BY <2>1, <2>3 DEF Consistent, TypeOK
  <2>. QED
    BY <2>1, <2>2, <2>4 DEF GenerateKey, Consistent, Underway, Quiet, ReportedSetupWorks,
                            UsableOnceConfigured, Exists, Loads
<1>. QED BY <1>1, <1>2 DEF GenerateKey

\* So does the key that init --pubkey is given and finds in the slot.
LEMMA VerifyKeyKeeps == ASSUME Consistent, VerifyKey PROVE Consistent'
<1>1. CASE End
  BY <1>1, EndKeeps DEF VerifyKey
<1>2. ASSUME NEW k \in KeyId, k = slot, todo' = InitWrites(k), pc' = "truncate",
             UNCHANGED <<op, attempt, slot, files, acked>>
      PROVE  Consistent'
  <2>. USE <1>2
  <2>1. pc = "key" /\ op = "pubkey" /\ ~Exists("config") /\ acked = None
    BY DEF VerifyKey, Consistent, Quiet
  <2>2. BeforePass'
    BY <2>1 DEF BeforePass, InitWrites, Pass, Auth, Conf, Repass, Exists, Write
  <2>3. TypeOK'
    BY DEF Consistent, TypeOK, InitWrites
  <2>. QED
    BY <2>1, <2>2, <2>3 DEF VerifyKey, Consistent, Underway, Quiet, ReportedSetupWorks,
                            UsableOnceConfigured, Exists, Loads
<1>. QED BY <1>1, <1>2 DEF VerifyKey

\* A torn file is none that anything before it in the order depends on.
LEMMA TruncateKeeps == ASSUME Consistent, Truncate PROVE Consistent'
<1>. USE DEF File, Write, Pass, Auth, Conf, Repass
<1>1. /\ pc = "truncate" /\ pc' = "write" /\ todo # <<>>
      /\ UNCHANGED <<slot, acked, op, todo, attempt>>
      /\ acked = None
      /\ files' = [files EXCEPT ![Head(todo).file] = Torn]
  BY DEF Truncate, Go, Consistent, Quiet
<1>2. slot \in KeyId /\ ~Complete
  BY <1>1 DEF Consistent, Underway, Complete
<1>3. CASE BeforePass
  <2>1. Head(todo).file = "passphrase"
    BY <1>3 DEF BeforePass
  <2>2. files' = [files EXCEPT !["passphrase"] = Torn]
    BY <1>1, <2>1
  <2>. QED
    BY <1>1, <1>2, <1>3, <2>2
       DEF BeforePass, Consistent, TypeOK, Underway, Quiet, ReportedSetupWorks,
           UsableOnceConfigured, Exists, Loads
<1>4. CASE BeforeAuth
  <2>1. Head(todo).file = "auth"
    BY <1>4 DEF BeforeAuth
  <2>2. files' = [files EXCEPT !["auth"] = Torn]
    BY <1>1, <2>1
  <2>. QED
    BY <1>1, <1>2, <1>4, <2>2
       DEF BeforeAuth, PassDone, Consistent, TypeOK, Underway, Quiet, ReportedSetupWorks,
           UsableOnceConfigured, Exists, Loads
<1>5. CASE BeforeConf
  <2>1. Head(todo).file = "config"
    BY <1>5 DEF BeforeConf
  <2>2. files' = [files EXCEPT !["config"] = Torn]
    BY <1>1, <2>1
  <2>. QED
    BY <1>1, <1>2, <1>5, <2>2
       DEF BeforeConf, PassDone, AuthDone, Consistent, TypeOK, Underway, Quiet,
           ReportedSetupWorks, UsableOnceConfigured, Loads
<1>6. CASE BeforeRepass
  <2>1. Head(todo).file = "passphrase"
    BY <1>6 DEF BeforeRepass
  <2>2. files' = [files EXCEPT !["passphrase"] = Torn]
    BY <1>1, <2>1
  <2>. QED
    BY <1>1, <1>2, <1>6, <2>2
       DEF BeforeRepass, PassDone, AuthDone, ConfDone, Consistent, TypeOK, Underway, Quiet,
           ReportedSetupWorks, UsableOnceConfigured, Decrypts, Loads, Box
<1>. QED BY <1>1, <1>2, <1>3, <1>4, <1>5, <1>6 DEF Consistent, Underway

\* Each file that is written takes the setup one stage further.
LEMMA WriteFileKeeps == ASSUME Consistent, WriteFile PROVE Consistent'
<1>. USE DEF File, Write, Pass, Auth, Conf, Repass
<1>1. /\ pc = "write" /\ pc' = "truncate"
      /\ UNCHANGED <<slot, acked, op, attempt>>
      /\ acked = None
      /\ files' = [files EXCEPT ![Head(todo).file] = Head(todo).text]
      /\ todo' = Tail(todo)
  BY DEF WriteFile, Consistent, Quiet
<1>2. slot \in KeyId /\ attempt \in KeyId /\ Imported \in KeyId /\ ~Complete
  BY <1>1 DEF Consistent, TypeOK, Underway, Complete, Imported, KeyId
<1>3. \A k, v \in KeyId : Box(k, v) \in Boxes /\ Box(k, v) # Torn /\ Box(k, v).key = k
  BY DEF Box, Boxes, KeyId
<1>4. \A k \in KeyId : [key |-> k] \notin {None, Torn}
  BY DEF KeyId
<1>5. CASE BeforePass
  <2>1. Head(todo).file = "passphrase" /\ Head(todo).text = Box(slot, attempt)
    BY <1>5 DEF BeforePass
  <2>2. files' = [files EXCEPT !["passphrase"] = Box(slot, attempt)]
    BY <1>1, <2>1
  <2>3. BeforeAuth'
    BY <1>1, <1>5, <2>2 DEF BeforePass, BeforeAuth, PassDone, Exists, Consistent, TypeOK
  <2>4. Len(todo') <= 4
    BY <1>1, <1>5 DEF BeforePass
  <2>5. TypeOK'
    BY <1>1, <1>2, <1>3, <2>2, <2>4 DEF Consistent, TypeOK
  <2>. QED
    BY <1>1, <1>2, <1>5, <2>2, <2>3, <2>5
       DEF BeforePass, Consistent, TypeOK, Underway, Quiet, ReportedSetupWorks,
           UsableOnceConfigured, Exists, Loads
<1>6. CASE BeforeAuth
  <2>1. Head(todo).file = "auth" /\ Head(todo).text = Box(slot, attempt)
    BY <1>6 DEF BeforeAuth
  <2>2. files' = [files EXCEPT !["auth"] = Box(slot, attempt)]
    BY <1>1, <2>1
  <2>3. BeforeConf'
    BY <1>1, <1>6, <2>2
       DEF BeforeAuth, BeforeConf, PassDone, AuthDone, Exists, Loads, Consistent, TypeOK
  <2>4. Len(todo') <= 4
    BY <1>1, <1>6 DEF BeforeAuth
  <2>5. TypeOK'
    BY <1>1, <1>2, <1>3, <2>2, <2>4 DEF Consistent, TypeOK
  <2>. QED
    BY <1>1, <1>2, <1>6, <2>2, <2>3, <2>5
       DEF BeforeAuth, Consistent, TypeOK, Underway, Quiet, ReportedSetupWorks,
           UsableOnceConfigured, Exists, Loads
<1>7. CASE BeforeConf
  <2>1. Head(todo).file = "config" /\ Head(todo).text = [key |-> slot]
    BY <1>7 DEF BeforeConf
  <2>2. files' = [files EXCEPT !["config"] = [key |-> slot]]
    BY <1>1, <2>1
  <2>3. PassDone' /\ AuthDone' /\ ConfDone'
    BY <1>1, <1>7, <2>2 DEF BeforeConf, PassDone, AuthDone, ConfDone, Consistent, TypeOK
  <2>4. BeforeRepass' \/ Complete'
    BY <1>1, <1>7, <2>3 DEF BeforeConf, BeforeRepass, Complete, PassDone
  <2>5. Len(todo') <= 4
    BY <1>1, <1>7 DEF BeforeConf
  <2>6. TypeOK'
    BY <1>1, <1>2, <2>2, <2>5 DEF Consistent, TypeOK
  <2>7. UsableOnceConfigured'
    <3>1. Box(slot, attempt) \notin {None, Torn} /\ Box(slot, attempt).key = slot
      BY <1>2 DEF Box, KeyId
    <3>2. /\ files'["config"].key = slot
          /\ files'["auth"] = Box(slot, attempt) /\ files'["passphrase"] = Box(slot, attempt)
      BY <1>1, <2>3 DEF PassDone, AuthDone, ConfDone
    <3>. QED BY <1>1, <3>1, <3>2 DEF UsableOnceConfigured, Decrypts, Loads
  <2>. QED
    BY <1>1, <1>2, <2>2, <2>4, <2>6, <2>7
       DEF Consistent, Underway, Quiet, ReportedSetupWorks
<1>8. CASE BeforeRepass
  <2>1. /\ Head(todo).file = "passphrase" /\ Head(todo).text = Box(slot, Imported)
        /\ Tail(todo) = <<>>
    BY <1>8 DEF BeforeRepass
  <2>2. files' = [files EXCEPT !["passphrase"] = Box(slot, Imported)]
    BY <1>1, <2>1
  <2>3. Complete'
    BY <1>1, <1>8, <2>1, <2>2
       DEF BeforeRepass, Complete, AuthDone, ConfDone, Consistent, TypeOK
  <2>4. TypeOK'
    BY <1>1, <1>2, <1>3, <2>1, <2>2 DEF Consistent, TypeOK
  <2>5. UsableOnceConfigured'
    <3>1. \A v \in KeyId : Box(slot, v) \notin {None, Torn} /\ Box(slot, v).key = slot
      BY <1>2 DEF Box, KeyId
    <3>2. Box(slot, Imported) \notin {None, Torn} /\ Box(slot, Imported).key = slot
      BY <1>2, <3>1
    <3>3. Box(slot, attempt) \notin {None, Torn} /\ Box(slot, attempt).key = slot
      BY <1>2, <3>1
    <3>4. /\ files'["config"].key = slot
          /\ files'["auth"] = Box(slot, attempt) /\ files'["passphrase"] = Box(slot, Imported)
      BY <1>1, <1>8, <2>3 DEF BeforeRepass, Complete, AuthDone, ConfDone
    <3>. QED BY <1>1, <3>2, <3>3, <3>4 DEF UsableOnceConfigured, Decrypts, Loads
  <2>. QED
    BY <1>1, <1>2, <2>2, <2>3, <2>4, <2>5
       DEF Consistent, Underway, Quiet, ReportedSetupWorks
<1>. QED BY <1>1, <1>2, <1>5, <1>6, <1>7, <1>8 DEF Consistent, Underway

\* What is reported is what the files hold.
LEMMA AcknowledgeKeeps == ASSUME Consistent, Acknowledge PROVE Consistent'
<1>1. /\ pc = "truncate" /\ todo = <<>>
      /\ pc' = "idle" /\ todo' = <<>>
      /\ UNCHANGED <<slot, files, op, attempt>>
      /\ acked' = [key |-> slot, auth |-> attempt,
                   passphrase |-> IF op = "import" THEN Imported ELSE attempt]
  BY DEF Acknowledge, End
<1>2. slot \in KeyId /\ attempt \in KeyId /\ Imported \in KeyId
  BY <1>1 DEF Consistent, TypeOK, Underway, Imported, KeyId
<1>3. Complete
  BY <1>1 DEF Consistent, Underway, BeforePass, BeforeAuth, BeforeConf, BeforeRepass
<1>4. TypeOK'
  BY <1>1, <1>2 DEF Consistent, TypeOK, Reported
<1>5. \A k, v \in KeyId :
        /\ Box(k, v) \notin {None, Torn} /\ Box(k, v).key = k /\ Box(k, v).secret = v
        /\ [key |-> k] \notin {None, Torn}
  BY DEF Box, KeyId
<1>6. ReportedSetupWorks' /\ UsableOnceConfigured'
  BY <1>1, <1>2, <1>3, <1>5
     DEF Complete, AuthDone, ConfDone, ReportedSetupWorks, UsableOnceConfigured, Usable,
         Decrypts, Loads
<1>. QED BY <1>1, <1>4, <1>6 DEF Consistent, Underway, Quiet

(* Between commands: without a directory nothing is configured, and a key   *)
(* is imported into the slot only while nothing is.                         *)
LEMMA UserKeeps == ASSUME Consistent, DeleteDirectory \/ ImportKey PROVE Consistent'
<1>1. CASE DeleteDirectory
  BY <1>1 DEF DeleteDirectory, Consistent, TypeOK, Underway, Quiet, ReportedSetupWorks,
              UsableOnceConfigured, Loads, Exists, File
<1>2. CASE ImportKey
  BY <1>2 DEF ImportKey, Consistent, TypeOK, Underway, Quiet, ReportedSetupWorks,
              UsableOnceConfigured, Usable, Loads, Exists, SharedKey, KeyId
<1>. QED BY <1>1, <1>2

\* Every step keeps the invariant.
LEMMA NextKeeps == ASSUME Consistent, [Next]_vars PROVE Consistent'
<1>1. CASE UNCHANGED vars
  BY <1>1 DEF vars, Consistent, TypeOK, Underway, Quiet, ReportedSetupWorks,
              UsableOnceConfigured, Usable, Decrypts, Loads, Exists, BeforePass, BeforeAuth,
              BeforeConf, BeforeRepass, Complete, PassDone, AuthDone, ConfDone,
              Pass, Auth, Conf, Repass
<1>2. CASE Die
  BY <1>2, EndKeeps DEF Die
<1>. QED
  BY <1>1, <1>2, BeginKeeps, CheckKeeps, GenerateKeyKeeps, VerifyKeyKeeps, TruncateKeeps,
     WriteFileKeeps, AcknowledgeKeeps, UserKeeps DEF Next

-----------------------------------------------------------------------------
\* However setups are tried, and wherever they die, the invariant holds.
THEOREM Invariance == Spec => []Consistent
<1>1. Init => Consistent
  BY ConsistentInit
<1>2. Consistent /\ [Next]_vars => Consistent'
  BY NextKeeps
<1>. QED BY <1>1, <1>2, PTL DEF Spec

\* The slot, the files and the commands keep their types.
THEOREM Typing == Spec => []TypeOK
<1>1. Consistent => TypeOK
  BY DEF Consistent
<1>. QED BY <1>1, Invariance, PTL

(* A setup that was reported is there and works until the user deletes it,  *)
(* whatever is run later and wherever it dies.                              *)
THEOREM ReportedWorks == Spec => []ReportedSetupWorks
<1>1. Consistent => ReportedSetupWorks
  BY DEF Consistent
<1>. QED BY <1>1, Invariance, PTL

(* A config that loads stands for the key in the slot and for a token and a *)
(* passphrase encrypted for it, but for the passphrase that import is about *)
(* to replace.                                                              *)
THEOREM ConfiguredUsable == Spec => []UsableOnceConfigured
<1>1. Consistent => UsableOnceConfigured
  BY DEF Consistent
<1>. QED BY <1>1, Invariance, PTL
==============================================================================
