----------------------------- MODULE KeysProofs -----------------------------
(***************************************************************************)
(* Proofs about Keys, for any number of names, keys of either algorithm,   *)
(* keys in the KMS, signatures and runs.                                   *)
(***************************************************************************)
EXTENDS Keys, TLAPS

-----------------------------------------------------------------------------
(* Signature lines.                                                        *)

SigTypes == {"01", "04", "06"}

\* The line a key of a type makes over a text under a name.
LineOf(name, key, type, text) ==
    [name |-> name, hash |-> keyHash(name, key, type), key |-> key,
     msg |-> Message(type, name, text)]

\* The verifier key of a key of a type under a name.
VKeyOf(name, key, type) ==
    [name |-> name, hash |-> keyHash(name, key, type), type |-> type, key |-> key]

\* A message of one type determines the text signed.
LEMMA MessageInjective ==
    ASSUME NEW type \in SigTypes, NEW name, NEW t1, NEW t2,
           Message(type, name, t1) = Message(type, name, t2)
    PROVE  t1 = t2
<1>1. Message(type, name, t1).text = t1
  BY DEF Message, SigTypes
<1>2. Message(type, name, t2).text = t2
  BY DEF Message, SigTypes
<1>. QED BY <1>1, <1>2

\* A line verifies under a verifier key exactly if it was made with that key, type
\* and name and over that text; and the key hash alone tells key, type and name.
LEMMA LineVerifies ==
    ASSUME NEW n1, NEW k1, NEW y1 \in SigTypes, NEW t1,
           NEW n2, NEW k2, NEW y2 \in SigTypes, NEW t2
    PROVE  /\ Verifies(VKeyOf(n2, k2, y2), t2, LineOf(n1, k1, y1, t1)) <=>
                 n1 = n2 /\ k1 = k2 /\ y1 = y2 /\ t1 = t2
           /\ LineOf(n1, k1, y1, t1).hash = VKeyOf(n2, k2, y2).hash <=>
                 n1 = n2 /\ k1 = k2 /\ y1 = y2
<1> DEFINE l == LineOf(n1, k1, y1, t1)
           v == VKeyOf(n2, k2, y2)
<1>1. /\ l.name = n1 /\ l.hash = keyHash(n1, k1, y1) /\ l.key = k1
      /\ l.msg = Message(y1, n1, t1)
      /\ v.name = n2 /\ v.hash = keyHash(n2, k2, y2) /\ v.key = k2 /\ v.type = y2
  BY DEF LineOf, VKeyOf
<1>2. keyHash(n1, k1, y1) = keyHash(n2, k2, y2) <=> n1 = n2 /\ k1 = k2 /\ y1 = y2
  BY DEF keyHash
<1>. HIDE DEF l, v
<1>3. Verifies(v, t2, l) <=> n1 = n2 /\ k1 = k2 /\ y1 = y2 /\ t1 = t2
  <2>1. ASSUME Verifies(v, t2, l)
        PROVE  n1 = n2 /\ k1 = k2 /\ y1 = y2 /\ t1 = t2
    <3>1. n1 = n2 /\ k1 = k2 /\ y1 = y2
      BY <1>1, <1>2, <2>1 DEF Verifies
    <3>2. Message(y1, n1, t1) = Message(y1, n1, t2)
      BY <1>1, <2>1, <3>1 DEF Verifies
    <3>. QED BY <3>1, <3>2, MessageInjective
  <2>2. ASSUME n1 = n2, k1 = k2, y1 = y2, t1 = t2
        PROVE  Verifies(v, t2, l)
    BY <1>1, <2>2 DEF Verifies
  <2>. QED BY <2>1, <2>2
<1>. QED BY <1>1, <1>2, <1>3 DEF l, v

\* A signer's fields, and its verifier key and line.
LEMMA SignerFields ==
    ASSUME NEW name, NEW key, NEW type, NEW role, NEW text
    PROVE  LET s == Signer(name, key, type, role) IN
           /\ s.name = name /\ s.key = key /\ s.type = type /\ s.role = role
           /\ s.hash = keyHash(name, key, type)
           /\ VKey(s) = VKeyOf(name, key, type)
           /\ Line(s, key, text) = LineOf(name, key, type, text)
BY DEF Signer, VKey, VKeyOf, Line, LineOf

\* What a checkpoint run signs, with a key from a file or from the KMS: a plain
\* signature or a cosigned_message by the signer's own key.
LEMMA Signs ==
    ASSUME NEW name, NEW key, NEW type \in SigTypes, NEW role, NEW text, NEW answered,
           NEW line \in SignTlogCheckpoint(Signer(name, key, type, role), text, answered)
    PROVE  /\ line = LineOf(name, key, type, text)
           /\ role = "origin"
           /\ type \in {"01", "06"}
<1> DEFINE s == Signer(name, key, type, role)
<1>1. /\ s.name = name /\ s.key = key /\ s.type = type /\ s.role = role
      /\ Line(s, key, text) = LineOf(name, key, type, text)
  BY SignerFields
<1>2. line \in SignTlogCheckpoint(s, text, answered)
  OBVIOUS
<1>. HIDE DEF s
<1>3. \A k \in RawSign(s, answered) : k = key
  BY <1>1 DEF RawSign
<1>4. role = "origin" /\ type \in {"01", "06"}
  BY <1>1, <1>2 DEF SignTlogCheckpoint, SigTypes
<1>5. line = Line(s, key, text)
  BY <1>1, <1>2, <1>3, <1>4 DEF SignTlogCheckpoint, Sign, checkpointSigner
<1>. QED BY <1>1, <1>4, <1>5

\* What the cosign program signs: with a key file of a cosigner, never a plain
\* signature.
LEMMA Cosigns ==
    ASSUME NEW name, NEW key, NEW type, NEW role, NEW text, NEW answered,
           NEW line \in TlogCosigner(Signer(name, key, type, role), text, answered)
    PROVE  line = LineOf(name, key, type, text) /\ role = "cosigner"
<1> DEFINE s == Signer(name, key, type, role)
<1>1. /\ s.name = name /\ s.key = key /\ s.type = type /\ s.role = role
      /\ Line(s, key, text) = LineOf(name, key, type, text)
  BY SignerFields
<1>2. line \in TlogCosigner(s, text, answered)
  OBVIOUS
<1>. HIDE DEF s
<1>3. \A k \in RawSign(s, answered) : k = key
  BY <1>1 DEF RawSign
<1>. QED BY <1>1, <1>2, <1>3 DEF TlogCosigner, checkpointSigner

-----------------------------------------------------------------------------
(* The inductive invariant.                                                *)

\* Key files have the fields genkey wrote, whatever they were renamed to since.
FilesOK ==
    files \subseteq [name : Names, hash : Names \X Keys \X SigTypes,
                     type : SigTypes, key : Keys]

\* A tool prints the verifier key of the key, name and role it was asked for.
PrintedAsAsked ==
    \A p \in printed : \E name \in Names, key \in Keys, role \in Roles :
        p = [vkey |-> VKeyOf(name, key, SigType(key, role)), role |-> role]

\* Every line is a key's own, over its text, of a type of the program that made it.
MadeAsTyped ==
    \A m \in made : \E name \in Names, key \in Keys, type \in SigTypes :
        /\ m.line = LineOf(name, key, type, m.text)
        /\ m.by \in {"checkpoint", "cosign"}
        /\ m.by = "checkpoint" => type \in {"01", "06"}
        /\ m.by = "cosign" => type \in {"04", "06"}

\* The configuration is put together once, from printed keys, before any run.
Configured ==
    /\ policy = {} => made = {} /\ stored = {} /\ run = NoRun
    /\ policy = {} \/ \E p, q \in printed :
                         /\ p.vkey # q.vkey
                         /\ policy = {[log |-> p.vkey, witness |-> q.vkey]}
    /\ DOMAIN origins \subseteq Nat

\* A run holds the line it signed itself, made over its own text; a note with
\* more than that line has been recognised by the witness.
RunHoldsOwnLine ==
    run = NoRun \/
    \E name \in Names, key \in Keys, type \in SigTypes :
        LET own == LineOf(name, key, type, run.note.text) IN
        /\ run = [st     |-> "signed",
                  signer |-> Signer(name, key, type, "origin"),
                  note   |-> [text |-> run.note.text, lines |-> run.note.lines]]
        /\ own \in run.note.lines
        /\ [line |-> own, by |-> "checkpoint", text |-> run.note.text] \in made
        /\ \/ run.note.lines = {own}
           \/ \E v \in VerifierForLog(run.note.text.origin) :
                 Verifies(v, run.note.text, own)

KeysInv ==
    /\ FilesOK
    /\ PrintedAsAsked
    /\ MadeAsTyped
    /\ Configured
    /\ RunHoldsOwnLine
    /\ CosignedWasSigned
    /\ StoredVerifies

LEMMA InitKeysInv == Init => KeysInv
BY DEF Init, KeysInv, FilesOK, PrintedAsAsked, MadeAsTyped, Configured,
       RunHoldsOwnLine, CosignedWasSigned, StoredVerifies

\* The algorithm byte of a key in a role is one of the three.
LEMMA SigTypeTypes ==
    ASSUME NEW key, NEW role
    PROVE  SigType(key, role) \in SigTypes
BY DEF SigType, SigTypes

\* A printed verifier key is that of some key under some name.
LEMMA PrintedVKeys ==
    ASSUME PrintedAsAsked, NEW p \in printed
    PROVE  \E name \in Names, key \in Keys, type \in SigTypes :
               p.vkey = VKeyOf(name, key, type)
<1>1. PICK name \in Names, key \in Keys, role \in Roles :
        p = [vkey |-> VKeyOf(name, key, SigType(key, role)), role |-> role]
  BY DEF PrintedAsAsked
<1>2. p.vkey = VKeyOf(name, key, SigType(key, role))
  BY <1>1
<1>. QED BY <1>2, SigTypeTypes

\* The KMS makes the verifier key of the role's algorithm byte, as genkey does.
LEMMA KMSSigners ==
    ASSUME NEW name, NEW key, NEW role
    PROVE  NewKMSSigner(name, key, role) = Signer(name, key, SigType(key, role), role)
BY DEF NewKMSSigner, Algorithm, SigType

-----------------------------------------------------------------------------
(* Each action preserves it.                                               *)

\* Before the configuration nothing has been signed, so a tool can only disturb
\* the files and the printed keys.
LEMMA ToolStep ==
    ASSUME KeysInv, policy = {}, FilesOK', PrintedAsAsked',
           UNCHANGED <<policy, origins, run, made, stored>>
    PROVE  KeysInv'
<1>1. made' = {} /\ stored' = {} /\ run' = NoRun /\ policy' = {}
  BY DEF KeysInv, Configured
<1>2. DOMAIN origins' \subseteq Nat
  BY DEF KeysInv, Configured
<1>3. RunHoldsOwnLine'
  BY <1>1 DEF RunHoldsOwnLine, NoRun
<1>4. Configured'
  BY <1>1, <1>2 DEF Configured, NoRun
<1>. QED
  BY <1>1, <1>3, <1>4
     DEF KeysInv, MadeAsTyped, CosignedWasSigned, StoredVerifies

LEMMA GenKeyKeysInv ==
    ASSUME KeysInv, NEW name \in Names, NEW key \in Keys \ Kms, NEW role \in Roles,
           GenKey(name, key, role)
    PROVE  KeysInv'
<1> DEFINE type == SigType(key, role)
           s    == Signer(name, key, type, role)
<1>1. type \in SigTypes
  BY SigTypeTypes
<1>2. VKey(s) = VKeyOf(name, key, type)
  BY SignerFields
<1>3. /\ files' = files \cup {VKey(s)}
      /\ printed' = printed \cup {[vkey |-> VKey(s), role |-> role]}
  BY DEF GenKey, GenerateKey, SKey
<1>. HIDE DEF type, s
<1>4. VKeyOf(name, key, type) \in [name : Names, hash : Names \X Keys \X SigTypes,
                                   type : SigTypes, key : Keys]
  BY <1>1 DEF VKeyOf, keyHash
<1>5. FilesOK'
  BY <1>2, <1>3, <1>4 DEF FilesOK, KeysInv
<1>6. PrintedAsAsked'
  BY <1>2, <1>3 DEF PrintedAsAsked, KeysInv, type
<1>. QED BY <1>5, <1>6, ToolStep DEF GenKey

LEMMA KmsVKeyKeysInv ==
    ASSUME KeysInv, NEW name \in Names, NEW key \in Kms, NEW role \in Roles,
           KmsVKey(name, key, role)
    PROVE  KeysInv'
<1> DEFINE type == SigType(key, role)
<1>1. VKey(NewKMSSigner(name, key, role)) = VKeyOf(name, key, type)
  BY SignerFields, KMSSigners
<1>2. printed' = printed \cup {[vkey |-> VKeyOf(name, key, type), role |-> role]}
  BY <1>1 DEF KmsVKey
<1>3. key \in Keys
  BY KeysAssumption
<1>4. PrintedAsAsked'
  BY <1>2, <1>3 DEF PrintedAsAsked, KeysInv
<1>5. FilesOK'
  BY DEF FilesOK, KeysInv, KmsVKey
<1>. QED BY <1>4, <1>5, ToolStep DEF KmsVKey

LEMMA EditKeyFileKeysInv ==
    ASSUME KeysInv, NEW f \in files, NEW name \in Names, EditKeyFile(f, name)
    PROVE  KeysInv'
<1>1. [f EXCEPT !.name = name] \in [name : Names, hash : Names \X Keys \X SigTypes,
                                    type : SigTypes, key : Keys]
  BY DEF KeysInv, FilesOK
<1>2. FilesOK'
  BY <1>1 DEF FilesOK, KeysInv, EditKeyFile
<1>3. PrintedAsAsked'
  BY DEF PrintedAsAsked, KeysInv, EditKeyFile
<1>. QED BY <1>2, <1>3, ToolStep DEF EditKeyFile

LEMMA ConfigureKeysInv ==
    ASSUME KeysInv, NEW logKey \in printed, NEW witnessKey \in printed,
           NEW v1, NEW v2, Configure(logKey, witnessKey, <<v1, v2>>)
    PROVE  KeysInv'
<1>1. made' = {} /\ stored' = {} /\ run' = NoRun
  BY DEF KeysInv, Configured, Configure
<1>2. DOMAIN origins' \subseteq Nat
  BY DEF Configure
<1>3. Configured'
  BY <1>1, <1>2 DEF Configured, Configure, NoRun
<1>4. RunHoldsOwnLine'
  BY <1>1 DEF RunHoldsOwnLine, NoRun
<1>5. FilesOK' /\ PrintedAsAsked'
  BY DEF KeysInv, FilesOK, PrintedAsAsked, Configure
<1>. QED
  BY <1>1, <1>3, <1>4, <1>5
     DEF KeysInv, MadeAsTyped, CosignedWasSigned, StoredVerifies

\* What is read from a key file: never a log's plain key for a cosigner.
LEMMA ReadKeys ==
    ASSUME FilesOK, NEW f \in files, NEW role, NEW s \in ReadKeyData(f, role)
    PROVE  \E name \in Names, key \in Keys, type \in SigTypes :
               /\ s = Signer(name, key, type, role)
               /\ role = "cosigner" => type \in {"04", "06"}
<1>1. f.name \in Names /\ f.key \in Keys /\ f.type \in SigTypes
  BY DEF FilesOK
<1>2. s = Signer(f.name, f.key, f.type, role)
  BY DEF ReadKeyData
<1>3. role = "cosigner" => f.type \in {"04", "06"}
  BY <1>1 DEF ReadKeyData, SigTypes
<1>. QED BY <1>1, <1>2, <1>3

LEMMA CheckpointKeysInv ==
    ASSUME KeysInv, NEW keyFile \in {{}} \cup {{f} : f \in files},
           NEW kmsKey \in {None} \cup Kms, NEW originFlag \in {None} \cup Names,
           NEW tree, NEW answered,
           Checkpoint(keyFile, kmsKey, originFlag, tree, answered)
    PROVE  KeysInv'
<1> DEFINE Signers == IF kmsKey # None
                      THEN {NewKMSSigner(originFlag, kmsKey, "origin")}
                      ELSE UNION {ReadKeyData(f, "origin") : f \in keyFile}
           TextOf(s) == [origin |-> IF originFlag = None THEN s.name ELSE originFlag,
                         tree   |-> tree]
           Note(text, line) == [text |-> text, lines |-> {line}]
<1>1. PICK s \in Signers : \E line \in SignTlogCheckpoint(s, TextOf(s), answered) :
         /\ run' = [st |-> "signed", signer |-> s, note |-> Note(TextOf(s), line)]
         /\ made' = made \cup {[line |-> line, by |-> "checkpoint", text |-> TextOf(s)]}
  BY DEF Checkpoint
<1> DEFINE text == TextOf(s)
<1>2. \E line \in SignTlogCheckpoint(s, text, answered) :
         /\ run' = [st |-> "signed", signer |-> s, note |-> Note(text, line)]
         /\ made' = made \cup {[line |-> line, by |-> "checkpoint", text |-> text]}
  BY <1>1
<1>. HIDE DEF text
<1>3. PICK line \in SignTlogCheckpoint(s, text, answered) :
         /\ run' = [st |-> "signed", signer |-> s, note |-> Note(text, line)]
         /\ made' = made \cup {[line |-> line, by |-> "checkpoint", text |-> text]}
  BY <1>2
<1>4. \E name \in Names, key \in Keys, type \in SigTypes :
         s = Signer(name, key, type, "origin")
  <2>1. CASE kmsKey # None
    <3>1. s = Signer(originFlag, kmsKey, SigType(kmsKey, "origin"), "origin")
      BY <2>1, KMSSigners
    <3>2. originFlag \in Names /\ kmsKey \in Keys
      BY <2>1, KeysAssumption DEF Checkpoint
    <3>. QED BY <3>1, <3>2, SigTypeTypes
  <2>2. CASE kmsKey = None
    <3>1. PICK f \in keyFile : s \in ReadKeyData(f, "origin")
      BY <2>2
    <3>2. f \in files
      BY <3>1
    <3>. QED BY <3>1, <3>2, ReadKeys DEF KeysInv
  <2>. QED BY <2>1, <2>2
<1>5. PICK name \in Names, key \in Keys, type \in SigTypes :
         s = Signer(name, key, type, "origin")
  BY <1>4
<1> DEFINE own == LineOf(name, key, type, text)
           m   == [line |-> own, by |-> "checkpoint", text |-> text]
<1>6. line = own /\ type \in {"01", "06"}
  BY <1>5, Signs
<1>7. /\ run' = [st |-> "signed", signer |-> s, note |-> [text |-> text, lines |-> {own}]]
      /\ made' = made \cup {m}
  BY <1>3, <1>6
<1>8. m.line = own /\ m.by = "checkpoint" /\ m.text = text
  OBVIOUS
<1>9. UNCHANGED <<files, printed, policy, origins, stored>> /\ policy # {}
  BY DEF Checkpoint
<1>. HIDE DEF Signers, m
<1>10. FilesOK' /\ PrintedAsAsked' /\ StoredVerifies'
  BY <1>9 DEF KeysInv, FilesOK, PrintedAsAsked, StoredVerifies
<1>11. MadeAsTyped'
  BY <1>6, <1>7, <1>8 DEF KeysInv, MadeAsTyped
<1>12. Configured'
  BY <1>9 DEF KeysInv, Configured
<1>13. RunHoldsOwnLine'
  <2>1. run'.note.text = text /\ run'.note.lines = {own}
    BY <1>7
  <2>2. LineOf(name, key, type, run'.note.text) = own
    BY <2>1
  <2>. HIDE DEF own
  <2>3. run' = [st |-> "signed", signer |-> Signer(name, key, type, "origin"),
                note |-> [text |-> run'.note.text, lines |-> run'.note.lines]]
    BY <1>5, <1>7, <2>1
  <2>4. [line |-> own, by |-> "checkpoint", text |-> run'.note.text] \in made'
    BY <1>7, <2>1 DEF m
  <2>. QED BY <2>1, <2>2, <2>3, <2>4 DEF RunHoldsOwnLine
<1>14. CosignedWasSigned'
  BY <1>7, <1>8, <1>9 DEF KeysInv, CosignedWasSigned
<1>. QED BY <1>10, <1>11, <1>12, <1>13, <1>14 DEF KeysInv

LEMMA CosignRequestKeysInv ==
    ASSUME KeysInv, NEW keyFile \in files, CosignRequest(keyFile)
    PROVE  KeysInv'
<1>1. run # NoRun
  BY DEF CosignRequest, NoRun
<1>2. PICK name \in Names, key \in Keys, type \in SigTypes :
         LET own == LineOf(name, key, type, run.note.text) IN
         /\ run = [st     |-> "signed",
                   signer |-> Signer(name, key, type, "origin"),
                   note   |-> [text |-> run.note.text, lines |-> run.note.lines]]
         /\ own \in run.note.lines
         /\ [line |-> own, by |-> "checkpoint", text |-> run.note.text] \in made
         /\ \/ run.note.lines = {own}
            \/ \E v \in VerifierForLog(run.note.text.origin) :
                  Verifies(v, run.note.text, own)
  BY <1>1 DEF KeysInv, RunHoldsOwnLine
<1> DEFINE text  == run.note.text
           lines == run.note.lines
           own   == LineOf(name, key, type, text)
           first == [line |-> own, by |-> "checkpoint", text |-> text]
<1>3. PICK s \in ReadKeyData(keyFile, "cosigner") :
         \E line \in TlogCosigner(s, text, s.key) :
            /\ run' = [run EXCEPT !.note = AppendSignature(@, line)]
            /\ made' = made \cup {[line |-> line, by |-> "cosign", text |-> text]}
  BY DEF CosignRequest, ExtractBody
<1>4. PICK line \in TlogCosigner(s, text, s.key) :
         /\ run' = [run EXCEPT !.note = AppendSignature(@, line)]
         /\ made' = made \cup {[line |-> line, by |-> "cosign", text |-> text]}
  BY <1>3
<1>5. PICK n \in Names, k \in Keys, y \in SigTypes :
         s = Signer(n, k, y, "cosigner") /\ y \in {"04", "06"}
  BY ReadKeys DEF KeysInv
<1>6. line = LineOf(n, k, y, text)
  BY <1>5, Cosigns
<1> DEFINE m == [line |-> line, by |-> "cosign", text |-> text]
<1>7. m.line = line /\ m.by = "cosign" /\ m.text = text
  OBVIOUS
<1>8. made' = made \cup {m}
  BY <1>4
<1>9. UNCHANGED <<files, printed, policy, origins, stored>>
  BY DEF CosignRequest
<1>10. \E v \in VerifierForLog(text.origin) : Verifies(v, text, own)
  <2>1. PICK v \in VerifierForLog(text.origin), l \in lines : Verifies(v, text, l)
    BY DEF CosignRequest, ExtractBody
  <2>. QED BY <1>2, <2>1
<1>11. first.line = own /\ first.by = "checkpoint" /\ first \in made
  BY <1>2
<1>12. /\ run = [st |-> "signed", signer |-> Signer(name, key, type, "origin"),
                 note |-> [text |-> text, lines |-> lines]]
       /\ own \in lines
  BY <1>2
<1>13. run' = [st |-> "signed", signer |-> Signer(name, key, type, "origin"),
               note |-> [text |-> text, lines |-> lines \cup {line}]]
  <2>. HIDE DEF text, lines, own, first, m
  <2>. QED BY <1>4, <1>12 DEF AppendSignature
<1>14. run'.note.text = text /\ run'.note.lines = lines \cup {line}
  BY <1>13
<1>15. LineOf(name, key, type, run'.note.text) = own
  BY <1>14
<1>. HIDE DEF text, lines, own, m
<1>16. FilesOK' /\ PrintedAsAsked' /\ StoredVerifies'
  BY <1>9 DEF KeysInv, FilesOK, PrintedAsAsked, StoredVerifies
<1>17. MadeAsTyped'
  BY <1>5, <1>6, <1>7, <1>8 DEF KeysInv, MadeAsTyped
<1>18. Configured'
  BY <1>1, <1>9 DEF KeysInv, Configured
<1>19. RunHoldsOwnLine'
  <2>1. run' = [st |-> "signed", signer |-> Signer(name, key, type, "origin"),
                note |-> [text |-> run'.note.text, lines |-> run'.note.lines]]
    BY <1>13, <1>14
  <2>2. own \in run'.note.lines
    BY <1>12, <1>14
  <2>3. [line |-> own, by |-> "checkpoint", text |-> run'.note.text] \in made'
    BY <1>8, <1>11, <1>14
  <2>4. \A o : VerifierForLog(o)' = VerifierForLog(o)
    BY <1>9 DEF VerifierForLog
  <2>5. (\E v \in VerifierForLog(run.note.text.origin) :
            Verifies(v, run.note.text, LineOf(name, key, type, run.note.text)))'
    BY <1>10, <1>14, <1>15, <2>4
  <2>. QED BY <1>15, <2>1, <2>2, <2>3, <2>5 DEF RunHoldsOwnLine
<1>20. CosignedWasSigned'
  <2>1. PICK v \in VerifierForLog(text.origin) : Verifies(v, text, own)
    BY <1>10
  <2>2. PICK i \in DOMAIN origins :
           /\ v = origins[i]
           /\ origins[i].name = text.origin
           /\ \A j \in DOMAIN origins : origins[j].name = text.origin => j <= i
    BY <2>1 DEF VerifierForLog, ParseVKey
  <2>3. \A j \in DOMAIN origins : j > i => origins[j].name # text.origin
    BY <2>2 DEF KeysInv, Configured
  <2>4. \E e \in DOMAIN origins', c \in made' :
           /\ origins'[e].name = m.text.origin
           /\ \A j \in DOMAIN origins' : j > e => origins'[j].name # m.text.origin
           /\ c.by = "checkpoint"
           /\ Verifies(origins'[e], m.text, c.line)
    BY <1>7, <1>8, <1>9, <1>11, <2>1, <2>2, <2>3
  <2>. QED BY <1>8, <1>9, <2>4 DEF KeysInv, CosignedWasSigned
<1>. QED BY <1>16, <1>17, <1>18, <1>19, <1>20 DEF KeysInv

\* A run whose note the policy's witness has cosigned, and which signed with the
\* policy's log key, has a note the policy accepts: the witness knew the text's
\* origin by the key that signed it, unless the cosignature is the run's own line,
\* and the policy's two keys differ.
LEMMA RunVerifies ==
    ASSUME KeysInv, run.st = "signed",
           NEW pol \in policy, Satisfied(pol, run.note), VKey(run.signer) = pol.log
    PROVE  PolicyVerify(pol, run.note)
<1>1. run # NoRun
  BY DEF NoRun
<1>2. PICK name \in Names, key \in Keys, type \in SigTypes :
         LET own == LineOf(name, key, type, run.note.text) IN
         /\ run = [st     |-> "signed",
                   signer |-> Signer(name, key, type, "origin"),
                   note   |-> [text |-> run.note.text, lines |-> run.note.lines]]
         /\ own \in run.note.lines
         /\ [line |-> own, by |-> "checkpoint", text |-> run.note.text] \in made
         /\ \/ run.note.lines = {own}
            \/ \E v \in VerifierForLog(run.note.text.origin) :
                  Verifies(v, run.note.text, own)
  BY <1>1 DEF KeysInv, RunHoldsOwnLine
<1> DEFINE text == run.note.text
           own  == LineOf(name, key, type, text)
<1>3. pol.log = VKeyOf(name, key, type)
  <2>1. run.signer = Signer(name, key, type, "origin")
    BY <1>2
  <2>. QED BY <2>1, SignerFields
<1>4. Verifies(pol.log, text, own)
  BY <1>3, LineVerifies
<1>5. pol.log.name = name /\ own.name = name
  BY <1>3 DEF VKeyOf, LineOf
<1>6. PICK p \in printed, q \in printed :
         p.vkey # q.vkey /\ policy = {[log |-> p.vkey, witness |-> q.vkey]}
  BY DEF KeysInv, Configured
<1>7. pol.log = p.vkey /\ pol.witness = q.vkey
  BY <1>6
<1>8. text.origin = name
  <2>1. CASE run.note.lines = {own}
    <3>1. Verifies(pol.witness, text, own)
      BY <2>1 DEF Satisfied
    <3>2. PICK n \in Names, k \in Keys, y \in SigTypes : q.vkey = VKeyOf(n, k, y)
      BY PrintedVKeys DEF KeysInv
    <3>3. name = n /\ key = k /\ type = y
      BY <1>7, <3>1, <3>2, LineVerifies
    <3>. QED BY <1>3, <1>6, <1>7, <3>2, <3>3
  <2>2. ASSUME NEW v \in VerifierForLog(text.origin), Verifies(v, text, own)
        PROVE  text.origin = name
    <3>1. v.name = text.origin
      BY DEF VerifierForLog, ParseVKey
    <3>2. own.name = v.name
      BY <2>2 DEF Verifies
    <3>. QED BY <1>5, <3>1, <3>2
  <2>. QED BY <1>2, <2>1, <2>2
<1>9. own \in run.note.lines
  BY <1>2
<1>. HIDE DEF own
<1>. QED BY <1>4, <1>5, <1>8, <1>9 DEF PolicyVerify

LEMMA StoreKeysInv ==
    ASSUME KeysInv, Store
    PROVE  KeysInv'
<1>1. PICK pol \in policy : Satisfied(pol, run.note)
  BY DEF Store
<1>2. \A e \in policy : e = pol
  BY <1>1 DEF KeysInv, Configured
<1> DEFINE c == [signer |-> VKey(run.signer), note |-> run.note]
<1>3. stored' = stored \cup {c} /\ c.signer = VKey(run.signer) /\ c.note = run.note
  BY DEF Store
<1>. HIDE DEF c
<1>4. \A e \in policy : c.signer = e.log => PolicyVerify(e, c.note)
  BY <1>1, <1>2, <1>3, RunVerifies DEF Store
<1>5. StoredVerifies'
  BY <1>3, <1>4 DEF KeysInv, StoredVerifies, Store
<1>6. FilesOK' /\ PrintedAsAsked' /\ MadeAsTyped' /\ CosignedWasSigned'
  BY DEF KeysInv, FilesOK, PrintedAsAsked, MadeAsTyped, CosignedWasSigned, Store
<1>7. RunHoldsOwnLine'
  BY DEF RunHoldsOwnLine, Store, NoRun
<1>8. Configured'
  BY <1>1 DEF KeysInv, Configured, Store
<1>. QED BY <1>5, <1>6, <1>7, <1>8 DEF KeysInv

LEMMA GiveUpKeysInv ==
    ASSUME KeysInv, GiveUp
    PROVE  KeysInv'
<1>1. RunHoldsOwnLine'
  BY DEF RunHoldsOwnLine, GiveUp, NoRun
<1>2. Configured'
  BY DEF KeysInv, Configured, GiveUp, NoRun
<1>. QED
  BY <1>1, <1>2
     DEF KeysInv, FilesOK, PrintedAsAsked, MadeAsTyped, CosignedWasSigned,
         StoredVerifies, GiveUp

LEMMA NextKeysInv ==
    ASSUME KeysInv, [Next]_vars
    PROVE  KeysInv'
<1>1. CASE UNCHANGED vars
  <2>1. \A o : VerifierForLog(o)' = VerifierForLog(o)
    BY <1>1 DEF VerifierForLog, vars
  <2>2. RunHoldsOwnLine'
    BY <1>1, <2>1 DEF KeysInv, RunHoldsOwnLine, vars, NoRun
  <2>3. Configured'
    BY <1>1 DEF KeysInv, Configured, vars, NoRun
  <2>. QED
    BY <1>1, <2>2, <2>3
       DEF KeysInv, FilesOK, PrintedAsAsked, MadeAsTyped, CosignedWasSigned,
           StoredVerifies, vars
<1>2. ASSUME NEW name \in Names, NEW key \in Keys \ Kms, NEW role \in Roles,
             GenKey(name, key, role)
      PROVE  KeysInv'
  BY <1>2, GenKeyKeysInv
<1>3. ASSUME NEW name \in Names, NEW key \in Kms, NEW role \in Roles,
             KmsVKey(name, key, role)
      PROVE  KeysInv'
  BY <1>3, KmsVKeyKeysInv
<1>4. ASSUME NEW f \in files, NEW name \in Names, EditKeyFile(f, name)
      PROVE  KeysInv'
  BY <1>4, EditKeyFileKeysInv
<1>5. ASSUME NEW logKey \in printed, NEW witnessKey \in printed,
             NEW v1 \in printed, NEW v2 \in printed,
             Configure(logKey, witnessKey, <<v1, v2>>)
      PROVE  KeysInv'
  BY <1>5, ConfigureKeysInv
<1>6. ASSUME NEW keyFile \in {{}} \cup {{f} : f \in files},
             NEW kmsKey \in {None} \cup Kms, NEW originFlag \in {None} \cup Names,
             NEW tree \in Trees,
             NEW answered \in IF kmsKey = None THEN {None} ELSE Kms,
             Checkpoint(keyFile, kmsKey, originFlag, tree, answered)
      PROVE  KeysInv'
  BY <1>6, CheckpointKeysInv
<1>7. ASSUME NEW keyFile \in files, CosignRequest(keyFile)
      PROVE  KeysInv'
  BY <1>7, CosignRequestKeysInv
<1>8. CASE Store
  BY <1>8, StoreKeysInv
<1>9. CASE GiveUp
  BY <1>9, GiveUpKeysInv
<1>. QED
  BY <1>1, <1>2, <1>3, <1>4, <1>5, <1>6, <1>7, <1>8, <1>9 DEF Next

-----------------------------------------------------------------------------
(* Theorems.                                                               *)

\* The invariant holds in every state.
THEOREM KeysInvariance == Spec => []KeysInv
<1>1. Init => KeysInv
  BY InitKeysInv
<1>2. KeysInv /\ [Next]_vars => KeysInv'
  BY NextKeysInv
<1>. QED BY <1>1, <1>2, PTL DEF Spec

\* A key used in the wrong role is rejected rather than reinterpreted (ReadKeyData,
\* newKMSSigner): a line a printed verifier key accepts was made over that text by
\* the program of the key's type.
THEOREM SignaturesAreAuthentic == Spec => []Authentic
<1>1. KeysInv => Authentic
  <2>. SUFFICES ASSUME KeysInv, NEW m \in made, NEW p \in printed, NEW text,
                       Verifies(p.vkey, text, m.line)
                PROVE  /\ m.text = text
                       /\ p.vkey.type = "01" => m.by = "checkpoint"
                       /\ p.vkey.type = "04" => m.by = "cosign"
    BY DEF Authentic
  <2>1. PICK n1 \in Names, k1 \in Keys, y1 \in SigTypes :
          /\ m.line = LineOf(n1, k1, y1, m.text)
          /\ m.by \in {"checkpoint", "cosign"}
          /\ m.by = "checkpoint" => y1 \in {"01", "06"}
          /\ m.by = "cosign" => y1 \in {"04", "06"}
    BY DEF KeysInv, MadeAsTyped
  <2>2. PICK n2 \in Names, k2 \in Keys, y2 \in SigTypes : p.vkey = VKeyOf(n2, k2, y2)
    BY PrintedVKeys DEF KeysInv
  <2>3. y1 = y2 /\ m.text = text
    BY <2>1, <2>2, LineVerifies
  <2>4. p.vkey.type = y2
    BY <2>2 DEF VKeyOf
  <2>. QED BY <2>1, <2>3, <2>4
<1>. QED BY <1>1, KeysInvariance, PTL

\* The two ways to cosign (TlogCosigner, CosignTlogCheckpoint) with a cosigner's
\* key agree, and what they give verifies under its verifier key.
LEMMA CosignersAgree ==
    ASSUME NEW name, NEW key, NEW text
    PROVE  LET type == SigType(key, "cosigner")
               s    == Signer(name, key, type, "cosigner")
           IN  /\ TlogCosigner(s, text, s.key) \subseteq CosignTlogCheckpoint(s, text, s.key)
               /\ \A line \in CosignTlogCheckpoint(s, text, s.key) :
                     Verifies(VKeyOf(name, key, type), text, line)
<1> DEFINE type == SigType(key, "cosigner")
           s    == Signer(name, key, type, "cosigner")
<1>1. type \in {"04", "06"}
  BY DEF SigType
<1>2. /\ s.name = name /\ s.key = key /\ s.type = type /\ s.role = "cosigner"
      /\ Line(s, key, text) = LineOf(name, key, type, text)
  BY SignerFields
<1>3. Verifies(VKeyOf(name, key, type), text, LineOf(name, key, type, text))
  BY SigTypeTypes, LineVerifies
<1>. HIDE DEF type, s
<1>4. \A k \in RawSign(s, key) : k = key
  BY <1>2 DEF RawSign
<1>5. TlogCosigner(s, text, key) \subseteq CosignTlogCheckpoint(s, text, key)
  BY <1>1, <1>2 DEF TlogCosigner, CosignTlogCheckpoint, Cosign, checkpointSigner
<1>6. \A line \in CosignTlogCheckpoint(s, text, key) : line = Line(s, key, text)
  BY <1>1, <1>2, <1>4 DEF CosignTlogCheckpoint, Cosign, checkpointSigner
<1>. QED BY <1>2, <1>3, <1>5, <1>6 DEF type, s

\* What a run signs verifies under every verifier key printed for its key, name and
\* role (genkey, kmsvkey), and the two ways to cosign agree.
THEOREM PrintedKeysVerify == Spec => []PrintedKeysFit
<1>1. ASSUME KeysInv, NEW m \in made, NEW p \in printed,
             p.vkey.hash = m.line.hash
      PROVE  /\ Verifies(p.vkey, m.text, m.line)
             /\ p.vkey.type = "01" => VerifySignature(m.text, m.line, p.vkey.key, p.vkey.type)
             /\ p.vkey.type = "04" => VerifyCosignature(m.text, m.line, p.vkey.key, p.vkey.type)
  <2>1. PICK n1 \in Names, k1 \in Keys, y1 \in SigTypes :
          m.line = LineOf(n1, k1, y1, m.text)
    BY <1>1 DEF KeysInv, MadeAsTyped
  <2>2. PICK n2 \in Names, k2 \in Keys, y2 \in SigTypes : p.vkey = VKeyOf(n2, k2, y2)
    BY <1>1, PrintedVKeys DEF KeysInv
  <2>3. n1 = n2 /\ k1 = k2 /\ y1 = y2
    BY <1>1, <2>1, <2>2, LineVerifies
  <2>4. Verifies(p.vkey, m.text, m.line)
    BY <2>1, <2>2, <2>3, LineVerifies
  <2>5. p.vkey.type = y2 /\ p.vkey.key = k2 /\ m.line.key = k1
        /\ m.line.msg = Message(y1, n1, m.text)
    BY <2>1, <2>2 DEF VKeyOf, LineOf
  <2>6. \A y \in {"01", "04"} : Message(y, n1, m.text) = Message(y, None, m.text)
    BY DEF Message
  <2>. QED BY <2>3, <2>4, <2>5, <2>6 DEF VerifySignature, VerifyCosignature
<1>2. ASSUME KeysInv, NEW p \in printed, p.role = "cosigner", NEW text
      PROVE  LET s == Signer(p.vkey.name, p.vkey.key, p.vkey.type, "cosigner") IN
             /\ TlogCosigner(s, text, s.key) \subseteq CosignTlogCheckpoint(s, text, s.key)
             /\ \A line \in CosignTlogCheckpoint(s, text, s.key) : Verifies(p.vkey, text, line)
  <2>1. PICK name \in Names, key \in Keys, role \in Roles :
          p = [vkey |-> VKeyOf(name, key, SigType(key, role)), role |-> role]
    BY <1>2 DEF KeysInv, PrintedAsAsked
  <2>2. role = "cosigner"
    BY <1>2, <2>1
  <2>3. p.vkey = VKeyOf(name, key, SigType(key, "cosigner"))
    BY <2>1, <2>2
  <2>4. p.vkey.name = name /\ p.vkey.key = key /\ p.vkey.type = SigType(key, "cosigner")
    BY <2>3 DEF VKeyOf
  <2> DEFINE s == Signer(name, key, SigType(key, "cosigner"), "cosigner")
  <2>5. /\ TlogCosigner(s, text, s.key) \subseteq CosignTlogCheckpoint(s, text, s.key)
        /\ \A line \in CosignTlogCheckpoint(s, text, s.key) : Verifies(p.vkey, text, line)
    <3>1. \A line \in CosignTlogCheckpoint(s, text, s.key) :
             Verifies(VKeyOf(name, key, SigType(key, "cosigner")), text, line)
      BY CosignersAgree, Zenon
    <3>2. TlogCosigner(s, text, s.key) \subseteq CosignTlogCheckpoint(s, text, s.key)
      BY CosignersAgree, Zenon
    <3>. HIDE DEF s
    <3>. QED BY <2>3, <3>1, <3>2
  <2>6. Signer(p.vkey.name, p.vkey.key, p.vkey.type, "cosigner") = s
    BY <2>4
  <2>. HIDE DEF s
  <2>. QED BY <2>5, <2>6
<1>3. KeysInv => PrintedKeysFit
  BY <1>1, <1>2 DEF PrintedKeysFit
<1>. QED BY <1>3, KeysInvariance, PTL

\* The witness knows a log by its text's origin (VerifierForLog, over the map that
\* readTrustedOriginsFile fills): what the cosign program cosigns, a checkpoint run
\* has signed with the key listed last for that origin.
THEOREM CosignedTextsWereSigned == Spec => []CosignedWasSigned
<1>1. KeysInv => CosignedWasSigned
  BY DEF KeysInv
<1>. QED BY <1>1, KeysInvariance, PTL

\* The end of checkpointLog tests the cosignatures only, and what it stores still
\* passes TLogPolicy.Verify.
THEOREM StoredCheckpointsVerify == Spec => []StoredVerifies
<1>1. KeysInv => StoredVerifies
  BY DEF KeysInv
<1>. QED BY <1>1, KeysInvariance, PTL
=============================================================================
