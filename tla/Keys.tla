-------------------------------- MODULE Keys --------------------------------
(***************************************************************************)
(* Keys, signatures and who may make them (internal/note, tools/genkey,    *)
(* tools/kmsvkey, the key handling of the checkpoint command and of the    *)
(* cosign program).  Keys are generated, read back, used under any name    *)
(* and handed to the wrong program; a policy and a witness's list of       *)
(* origins are put together from whatever the tools printed; runs then     *)
(* sign, cosign and store checkpoints.  The other modules identify a       *)
(* cosignature with the witness that gave it: this one is about why.       *)
(*                                                                         *)
(* A signature is the key that made it and the message it covers, so it    *)
(* verifies for no other key or message.  A key hash is the tuple it is    *)
(* computed from.  An operation that can fail yields the set of its        *)
(* results, empty for an error.                                            *)
(***************************************************************************)
EXTENDS Integers, SequencesExt

CONSTANTS
    Names,     \* names of logs and witnesses
    Ed25519,   \* key pairs, by algorithm
    MLDSA44,
    Kms,       \* key pairs held by the KMS; the others are in key files
    Trees,     \* trees a checkpoint can commit to
    None,      \* stands for a flag that is not given
    MaxKeys,   \* bound on the verifier keys printed
    MaxLines   \* bound on the signature lines made

Keys == Ed25519 \cup MLDSA44

ASSUME KeysAssumption ==
    /\ Ed25519 \cap MLDSA44 = {}
    /\ Kms \subseteq Keys
    /\ None \notin Names \cup Keys
    /\ MaxKeys \in Nat
    /\ MaxLines \in Nat

VARIABLES
    files,    \* private key files
    printed,  \* verifier keys the tools printed, with the role asked for
    policy,   \* the tlog-policy: a log's and a witness's verifier key
    origins,  \* the lines of the witness's --origin-vkeys
    run,      \* the checkpoint command in progress
    made,     \* every signature line ever made, with the program that made it
    stored    \* checkpoints stored in the log ref, with the key they were signed with

vars == <<files, printed, policy, origins, run, made, stored>>

Text == [origin : Names, tree : Trees]

-----------------------------------------------------------------------------
(* Signers and their encodings (note.go, kms.go).                          *)

keyHash(name, key, type) == <<name, key, type>>

Signer(name, key, type, role) ==
    [name |-> name, key |-> key, type |-> type, role |-> role,
     hash |-> keyHash(name, key, type)]

HasSeed(s) == s.key \notin Kms

\* The algorithm byte of an Ed25519 key is that of its role; ML-DSA-44 has one.
SigType(key, role) ==
    IF key \in MLDSA44 THEN "06" ELSE IF role = "origin" THEN "01" ELSE "04"

GenerateKey(name, key, type, role) == {s \in {Signer(name, key, type, role)} : HasSeed(s)}

VKey(s) == [name |-> s.name, hash |-> s.hash, type |-> s.type, key |-> s.key]

\* ParseVKey does not look at the hash.
ParseVKey(vkey) == [name |-> vkey.name, type |-> vkey.type, key |-> vkey.key]

SKey(s) == {f \in {VKey(s)} : HasSeed(s)}

\* Mutant: the algorithm byte is not held against the role.
ReadKeyData_AnyRole(f, role) ==
    {s \in {Signer(f.name, f.key, f.type, role)} : s.hash = f.hash}

\* ReadKeyData: a key in the wrong role, or one whose name was edited, is
\* rejected.
ReadKeyData(f, role) ==
    {s \in {Signer(f.name, f.key, f.type, role)} :
        /\ f.type = "01" => role = "origin"
        /\ f.type = "04" => role = "cosigner"
        /\ s.hash = f.hash}

\* newKMSSigner: what the KMS says the key is, and what that makes it sign as.
Algorithm(key) == IF key \in MLDSA44 THEN "06" ELSE "by role"

NewKMSSigner(name, key, role) ==
    LET type == IF Algorithm(key) # "by role" THEN Algorithm(key)
                ELSE IF role = "origin" THEN "01" ELSE "04"
    IN  Signer(name, key, type, role)

-----------------------------------------------------------------------------
(* Signature lines.                                                        *)

\* What a key of a type signs: the note's text, the text under a header and a
\* time, or the cosigned_message, which also names the cosigner.
Message(type, name, text) ==
    CASE type = "01" -> [header |-> "none", name |-> None, text |-> text]
      [] type = "04" -> [header |-> "cosignature/v1", name |-> None, text |-> text]
      [] type = "06" -> [header |-> "cosigned_message", name |-> name, text |-> text]

\* Mutant: whatever the KMS returns is passed on.
RawSign_Unchecked(s, answered) == IF HasSeed(s) THEN {s.key} ELSE {answered}

\* crypto.Signer.Sign by s.  A KMS key that answers with another key's signature
\* (another version of it, say) is found out by verifying against the cached
\* public key.
RawSign(s, answered) ==
    IF HasSeed(s) THEN {s.key} ELSE {k \in {answered} : k = s.key}

Line(s, signedWith, text) ==
    [name |-> s.name, hash |-> s.hash, key |-> signedWith,
     msg |-> Message(s.type, s.name, text)]

\* fnote.NewSigner, NewMLDSASignerFromCrypto: signs as the type says.
checkpointSigner(s, text, answered) ==
    {Line(s, k, text) : k \in
        {k \in RawSign(s, answered) : HasSeed(s) \/ s.type = "06"}}

Sign(s, text, answered) ==
    {Line(s, k, text) : k \in
        {k \in RawSign(s, answered) : s.role = "origin" /\ s.type = "01"}}

SignTlogCheckpoint(s, text, answered) ==
    CASE s.role # "origin"                   -> {}
      [] s.role = "origin" /\ s.type = "01"  -> Sign(s, text, answered)
      [] s.role = "origin" /\ s.type = "06"  -> checkpointSigner(s, text, answered)
      [] s.role = "origin" /\ s.type = "04"  -> {}

\* What the cosign program hands to the witness.
TlogCosigner(s, text, answered) ==
    IF s.role = "cosigner" THEN checkpointSigner(s, text, answered) ELSE {}

Cosign(s, text, answered) ==
    {Line(s, k, text) : k \in
        {k \in RawSign(s, answered) : s.role = "cosigner" /\ s.type = "04"}}

\* The package's own cosignature, which KMS keys of either algorithm can make.
CosignTlogCheckpoint(s, text, answered) ==
    CASE s.role # "cosigner"                  -> {}
      [] s.role = "cosigner" /\ s.type = "04" -> Cosign(s, text, answered)
      [] s.role = "cosigner" /\ s.type = "06" -> checkpointSigner(s, text, answered)
      [] s.role = "cosigner" /\ s.type = "01" -> {}

\* fnote.NewVerifier(vkey).Verify, on the lines that carry its name and hash.
Verifies(vkey, text, line) ==
    /\ line.name = vkey.name
    /\ line.hash = vkey.hash
    /\ line.key = vkey.key
    /\ line.msg = Message(vkey.type, vkey.name, text)

\* The package's own verifiers.  They look at neither name nor hash: "the caller
\* must have selected pub by the name on the signature line".
VerifySignature(text, line, key, type) ==
    type = "01" /\ line.key = key /\ line.msg = Message("01", None, text)

VerifyCosignature(text, line, key, type) ==
    type = "04" /\ line.key = key /\ line.msg = Message("04", None, text)

\* A signed note is its text and its signature lines.
AppendSignature(note, line) == [note EXCEPT !.lines = @ \cup {line}]
ExtractBody(note) == note.text

-----------------------------------------------------------------------------
(* The tools.                                                              *)

NoRun == [st |-> "none"]

Init ==
    /\ files = {}
    /\ printed = {}
    /\ policy = {}
    /\ origins = <<>>
    /\ run = NoRun
    /\ made = {}
    /\ stored = {}

\* genkey: a key pair nobody has, its file and its verifier key.
GenKey(name, key, role) ==
    /\ policy = {}
    /\ Cardinality(printed) < MaxKeys
    /\ \A f \in files : f.key # key
    /\ \E s \in GenerateKey(name, key, SigType(key, role), role) :
          /\ \E f \in SKey(s) : files' = files \cup {f}
          /\ printed' = printed \cup {[vkey |-> VKey(s), role |-> role]}
    /\ UNCHANGED <<policy, origins, run, made, stored>>

\* kmsvkey: the verifier key of a KMS key under a name and in a role.
KmsVKey(name, key, role) ==
    /\ policy = {}
    /\ Cardinality(printed) < MaxKeys
    /\ key \in Kms
    /\ printed' = printed \cup {[vkey |-> VKey(NewKMSSigner(name, key, role)), role |-> role]}
    /\ UNCHANGED <<files, policy, origins, run, made, stored>>

\* Someone renames a key by editing its file.
EditKeyFile(f, name) ==
    /\ policy = {}
    /\ f.name # name
    /\ files' = (files \ {f}) \cup {[f EXCEPT !.name = name]}
    /\ UNCHANGED <<printed, policy, origins, run, made, stored>>

\* The policy and the witness's origins are put together.
Configure(logKey, witnessKey, lines) ==
    /\ policy = {}
    /\ logKey.vkey # witnessKey.vkey
    /\ policy' = {[log |-> logKey.vkey, witness |-> witnessKey.vkey]}
    /\ origins' = [i \in DOMAIN lines |-> lines[i].vkey]
    /\ UNCHANGED <<files, printed, run, made, stored>>

-----------------------------------------------------------------------------
(* The checkpoint command and the cosign program.                          *)

\* Mutant: any origin's key will do.
VerifierForLog_AnyOrigin(origin) == {origins[i] : i \in DOMAIN origins}

\* readTrustedOriginsFile fills a map by name: the last line for a name counts.
VerifierForLog(origin) ==
    {origins[i] : i \in {i \in DOMAIN origins :
        /\ ParseVKey(origins[i]).name = origin
        /\ \A j \in DOMAIN origins : ParseVKey(origins[j]).name = origin => j <= i}}

\* checkpointCmd.Execute, up to the signed checkpoint.  Exactly one of --key and
\* --kms-key is needed, and --origin with the latter.
Checkpoint(keyFile, kmsKey, originFlag, tree, answered) ==
    /\ policy # {}
    /\ run = NoRun
    /\ Cardinality(made) < MaxLines
    /\ (keyFile = {}) # (kmsKey = None)
    /\ kmsKey # None => originFlag # None
    /\ \E s \in IF kmsKey # None
                THEN {NewKMSSigner(originFlag, kmsKey, "origin")}
                ELSE UNION {ReadKeyData(f, "origin") : f \in keyFile} :
          LET origin == IF originFlag = None THEN s.name ELSE originFlag
              text   == [origin |-> origin, tree |-> tree]
          IN  \E line \in SignTlogCheckpoint(s, text, answered) :
                 /\ run' = [st     |-> "signed",
                            signer |-> s,
                            note   |-> [text |-> text, lines |-> {line}]]
                 /\ made' = made \cup {[line |-> line, by |-> "checkpoint", text |-> text]}
    /\ UNCHANGED <<files, printed, policy, origins, stored>>

\* The cosign program answers the request: the witness knows the log by the
\* origin line, verifies its signature and cosigns the text.
CosignRequest(keyFile) ==
    /\ run.st = "signed"
    /\ Cardinality(made) < MaxLines
    /\ LET text == ExtractBody(run.note) IN
          /\ \E v \in VerifierForLog(text.origin), line \in run.note.lines :
                Verifies(v, text, line)
          /\ \E s \in ReadKeyData(keyFile, "cosigner") :
                \E line \in TlogCosigner(s, text, s.key) :
                   /\ run' = [run EXCEPT !.note = AppendSignature(@, line)]
                   /\ made' = made \cup {[line |-> line, by |-> "cosign", text |-> text]}
    /\ UNCHANGED <<files, printed, policy, origins, stored>>

\* TLogPolicy.Satisfied, of a policy whose quorum is its witness.
Satisfied(pol, note) == \E line \in note.lines : Verifies(pol.witness, note.text, line)

\* TLogPolicy.Verify: the log's signature, its origin line and the quorum.
PolicyVerify(pol, note) ==
    /\ note.text.origin = pol.log.name
    /\ \E line \in note.lines : Verifies(pol.log, note.text, line)
    /\ Satisfied(pol, note)

\* Mutant: the cosignatures are not held against the policy.
Store_NoQuorum ==
    /\ run.st = "signed"
    /\ stored' = stored \cup {[signer |-> VKey(run.signer), note |-> run.note]}
    /\ run' = NoRun
    /\ UNCHANGED <<files, printed, policy, origins, made>>

\* The end of checkpointLog.  "The origin signed the checkpoint itself, so all it
\* needs to know is that enough witnesses cosigned it."
Store ==
    /\ run.st = "signed"
    /\ \E pol \in policy : Satisfied(pol, run.note)
    /\ stored' = stored \cup {[signer |-> VKey(run.signer), note |-> run.note]}
    /\ run' = NoRun
    /\ UNCHANGED <<files, printed, policy, origins, made>>

\* Too few cosignatures, or any other error.
GiveUp ==
    /\ run.st = "signed"
    /\ run' = NoRun
    /\ UNCHANGED <<files, printed, policy, origins, made, stored>>

Roles == {"origin", "cosigner"}

Next ==
    \/ \E name \in Names, key \in Keys \ Kms, role \in Roles : GenKey(name, key, role)
    \/ \E name \in Names, key \in Kms, role \in Roles : KmsVKey(name, key, role)
    \/ \E f \in files, name \in Names : EditKeyFile(f, name)
    \/ \E logKey, witnessKey, v1, v2 \in printed : Configure(logKey, witnessKey, <<v1, v2>>)
    \/ \E keyFile \in {{}} \cup {{f} : f \in files}, kmsKey \in {None} \cup Kms,
          originFlag \in {None} \cup Names, tree \in Trees :
             \E answered \in IF kmsKey = None THEN {None} ELSE Kms :
                Checkpoint(keyFile, kmsKey, originFlag, tree, answered)
    \/ \E keyFile \in files : CosignRequest(keyFile)
    \/ Store
    \/ GiveUp

Spec == Init /\ [][Next]_vars

-----------------------------------------------------------------------------
(* Properties.                                                             *)

\* A signature a verifier key accepts was made over just that text, by the program
\* the key's type is for: a plain signature by a checkpoint run, a cosignature/v1
\* by the cosign program, however keys are named, shared between roles through
\* the KMS or handed to the wrong program ("a key used in the wrong role is
\* rejected rather than reinterpreted").
Authentic ==
    \A m \in made, p \in printed, text \in Text :
        Verifies(p.vkey, text, m.line) =>
            /\ m.text = text
            /\ p.vkey.type = "01" => m.by = "checkpoint"
            /\ p.vkey.type = "04" => m.by = "cosign"

\* What a run signs with a key verifies under every verifier key the tools printed
\* for that key, name and role, by formats' verifier and by the package's own:
\* "Key hashes and verifier keys are encoded identically here and in formats, so
\* they pass between the two unconverted".  So does what the two ways to cosign
\* give, also where only one of them can be used.
PrintedKeysFit ==
    /\ \A m \in made, p \in printed :
          (/\ p.vkey.name = m.line.name
           /\ p.vkey.hash = m.line.hash
           /\ p.role = (IF m.by = "checkpoint" THEN "origin" ELSE "cosigner")) =>
              /\ Verifies(p.vkey, m.text, m.line)
              /\ p.vkey.type = "01" => VerifySignature(m.text, m.line, p.vkey.key, p.vkey.type)
              /\ p.vkey.type = "04" => VerifyCosignature(m.text, m.line, p.vkey.key, p.vkey.type)
    /\ \A p \in {p \in printed : p.role = "cosigner"}, text \in Text :
          LET s == Signer(p.vkey.name, p.vkey.key, p.vkey.type, "cosigner") IN
          /\ TlogCosigner(s, text, s.key) \subseteq CosignTlogCheckpoint(s, text, s.key)
          /\ \A line \in CosignTlogCheckpoint(s, text, s.key) : Verifies(p.vkey, text, line)

\* The cosign program cosigns only what a checkpoint run has signed with the key
\* that --origin-vkeys lists last for the text's origin, whatever else the file
\* lists and whatever --origin says.
CosignedWasSigned ==
    \A m \in made : m.by = "cosign" =>
        \E i \in DOMAIN origins, n \in made :
            /\ origins[i].name = m.text.origin
            /\ \A j \in DOMAIN origins : j > i => origins[j].name # m.text.origin
            /\ n.by = "checkpoint"
            /\ Verifies(origins[i], m.text, n.line)

\* A run that signs with the policy's log key never stores a checkpoint that
\* verify rejects under that policy, although it tests only the cosignatures and
\* --origin may name another log: no witness would have cosigned it.
StoredVerifies ==
    \A pol \in policy, c \in stored :
        c.signer = pol.log => PolicyVerify(pol, c.note)
=============================================================================
