--------------------------- MODULE TrustedReceipts ---------------------------
(***************************************************************************)
(* The trusted-key registry and the receipt store of a workspace, and the  *)
(* verification of a stored receipt against both.                          *)
(*                                                                         *)
(* Each process on the workspace does one operation at a time.  Between    *)
(* the read an operation decides on and its rename another process may     *)
(* write the same file.  A digest is modelled by what it is the digest of. *)
(***************************************************************************)
EXTENDS Naturals

CONSTANTS
  Actors,    \* processes at work on the workspace
  ScopeOf,   \* the scope bound in each: [hash, company]
  KeyIds,    \* signer key ids
  Infos,     \* key entries that are put: [keyId, publicKey, issuedAt,
             \* expiresAt, revokedAt], an instant being a number
  Records,   \* receipt records that are saved: [binding, content,
             \* receiptHash, signerKeyId, signerPublicKey, signed, wellFormed]
  MaxTime,   \* bound: the last instant of the clock
  Nothing    \* an entry or a record that is not there

(* The shape the registry and the store hold entries and records to.       *)
ASSUME ReceiptsAssumption ==
  /\ MaxTime \in Nat
  /\ \A info \in Infos : /\ info.keyId \in KeyIds
                         /\ {info.issuedAt, info.expiresAt, info.revokedAt} \subseteq Nat
  /\ \A record \in Records : record.signerKeyId \in KeyIds

(* An instant no clock reaches: a key that does not expire is not revoked. *)
Never == MaxTime + 1

Hashes == {r.receiptHash : r \in Records}

VARIABLES
  keys,      \* .local/trusted-keys.json: the entry of each key id
  receipts,  \* .local/receipts: the record in the file of each hash
  now,       \* the clock
  at,        \* what each process is doing
  stood,     \* history: the entries the signer of the receipt that a process
             \* verifies has had since it began
  accepted   \* history: the records found valid

disk    == <<keys, receipts>>
history == <<stood, accepted>>
vars    == <<disk, now, at, history>>

Idle == [pc |-> "idle"]

Init ==
  /\ keys = [k \in KeyIds |-> Nothing]
  /\ receipts = [h \in Hashes |-> Nothing]
  /\ now = 0
  /\ at = [a \in Actors |-> Idle]
  /\ stood = [a \in Actors |-> {}] /\ accepted = {}

Become(a, state) == at' = [at EXCEPT ![a] = state]

(* An operation throws, or its process dies: nothing more is written.      *)
Abandon(a) ==
  /\ at[a] # Idle
  /\ Become(a, Idle) /\ stood' = [stood EXCEPT ![a] = {}]
  /\ UNCHANGED <<disk, now, accepted>>

Tick ==
  /\ now < MaxTime /\ now' = now + 1
  /\ UNCHANGED <<disk, at, history>>

(***************************************************************************)
(* TrustedKeyRegistry.put                                                  *)
(***************************************************************************)
assertValidKeyInfo(info) ==
  info.issuedAt <= info.expiresAt /\ info.issuedAt <= info.revokedAt

put(a, info) ==
  /\ at[a] = Idle
  /\ assertValidKeyInfo(info)
  /\ Become(a, [pc |-> "put", info |-> info, document |-> keys])
  /\ UNCHANGED <<disk, now, history>>

(* The public key of an id that the document read has never changes. *)
SameKey(w) ==
  LET existing == w.document[w.info.keyId]
  IN  existing # Nothing => existing.publicKey = w.info.publicKey

(* Variant: the document written holds what is put and nothing else. *)
Alone(w) == [k \in KeyIds |-> IF k = w.info.keyId THEN w.info ELSE Nothing]

Merged(w) == [w.document EXCEPT ![w.info.keyId] = w.info]

(* What the registry has for the signers of the receipts being verified.   *)
Stood(entries) ==
  [a \in Actors |->
     IF at[a].pc \in {"resolve", "judge"}
       THEN stood[a] \cup {entries[at[a].record.signerKeyId]}
       ELSE stood[a]]

(* The rename is the write: a failure after it, of the fsync of the        *)
(* directory, throws to the caller but takes nothing back.                 *)
putRename(a) ==
  LET w == at[a]
  IN  /\ w.pc = "put" /\ SameKey(w)
      /\ keys' = Merged(w)
      /\ stood' = Stood(Merged(w))
      /\ Become(a, Idle)
      /\ UNCHANGED <<receipts, now, accepted>>

(***************************************************************************)
(* ReceiptStore.save: no await, but another process may rename between the *)
(* check that the file is there and the rename.                            *)
(***************************************************************************)
(* Its fields, those of its binding and of its receipt are of their shape. *)
validateHarnessReceiptRecord(record) == record.wellFormed

(* A record that is there is a replay or a corruption: nothing is written. *)
save(a, record) ==
  LET existing == receipts[record.receiptHash]
  IN  /\ at[a] = Idle
      /\ validateHarnessReceiptRecord(record) /\ existing = Nothing
      /\ Become(a, [pc |-> "save", record |-> record, existing |-> existing])
      /\ UNCHANGED <<disk, now, history>>

saveRename(a) ==
  LET w == at[a]
  IN  /\ w.pc = "save"
      /\ receipts' = [receipts EXCEPT ![w.record.receiptHash] = w.record]
      /\ Become(a, Idle)
      /\ UNCHANGED <<keys, now, history>>

(***************************************************************************)
(* /drenyra:receipt verify: load the record, verifyHarnessReceipt.         *)
(***************************************************************************)
load(a, h) ==
  /\ at[a] = Idle
  /\ receipts[h] # Nothing
  /\ Become(a, [pc |-> "resolve", record |-> receipts[h]])
  /\ stood' = [stood EXCEPT ![a] = {keys[receipts[h].signerKeyId]}]
  /\ UNCHANGED <<disk, now, accepted>>

(* External: content hash, then signature under the embedded key. *)
Consistent(record) ==
  record.receiptHash = record.content /\ record.signed = record.signerPublicKey

(* A fresh read of the registry, once content and signature hold. *)
resolve(a) ==
  LET w == at[a]
  IN  /\ w.pc = "resolve" /\ Consistent(w.record)
      /\ Become(a, [pc |-> "judge", record |-> w.record, key |-> keys[w.record.signerKeyId]])
      /\ UNCHANGED <<disk, now, history>>

(* Variant: a signer the registry does not know is taken at its word. *)
EmbeddedKeyTrusted(record, key) ==
  \/ key = Nothing
  \/ /\ key.publicKey = record.signerPublicKey
     /\ key.issuedAt <= now /\ now < key.expiresAt /\ now < key.revokedAt

(* External: the key of the registry is the embedded one, current and not  *)
(* revoked when it is judged.                                              *)
SignerTrusted(record, key) ==
  /\ key # Nothing /\ key.publicKey = record.signerPublicKey
  /\ key.issuedAt <= now /\ now < key.expiresAt
  /\ now < key.revokedAt

(* Variant: the digest the signer signed is not recomputed. *)
ExpectationsOnly(record, scope) ==
  /\ record.binding.scope = scope.hash /\ record.content.company = scope.company
  /\ record.binding.evidence = record.content.evidence

(* Stages 6 and 7.  Mission, policy and target are the record's own in the *)
(* one command that verifies, so they always agree.                        *)
Bound(record, scope) ==
  /\ record.content.payload = record.binding
  /\ record.binding.scope = scope.hash /\ record.content.company = scope.company
  /\ record.binding.evidence = record.content.evidence

verifyHarnessReceipt(a) ==
  LET w == at[a]
  IN  /\ w.pc = "judge"
      /\ accepted' = IF SignerTrusted(w.record, w.key) /\ Bound(w.record, ScopeOf[a])
                       THEN accepted \cup {w.record} ELSE accepted
      /\ Become(a, Idle) /\ stood' = [stood EXCEPT ![a] = {}]
      /\ UNCHANGED <<disk, now>>

Next ==
  \/ Tick
  \/ \E a \in Actors :
       \/ Abandon(a) \/ putRename(a) \/ saveRename(a) \/ resolve(a) \/ verifyHarnessReceipt(a)
       \/ \E info \in Infos : put(a, info)
       \/ \E record \in Records : save(a, record)
       \/ \E h \in Hashes : load(a, h)

Spec == Init /\ [][Next]_vars

(***************************************************************************)
(* Properties.                                                             *)
(***************************************************************************)
(* Every variable has the shape its operations expect. *)
TypeOK ==
  /\ keys \in [KeyIds -> Infos \cup {Nothing}]
  /\ receipts \in [Hashes -> Records \cup {Nothing}]
  /\ now \in 0 .. MaxTime
  /\ \A a \in Actors : at[a].pc \in {"idle", "put", "save", "resolve", "judge"}
  /\ accepted \subseteq Records

(* A write takes back only what came there behind the back of its         *)
(* operation, after the read: a put changes no other key, and gives its    *)
(* own no other public key, that its document showed as it was, and a save *)
(* replaces no record it could have seen.                                  *)
WritesStand ==
  [][ /\ \A k \in KeyIds : keys'[k] # keys[k] =>
           \E a \in Actors :
             /\ at[a].pc = "put" /\ at'[a] = Idle
             /\ \/ at[a].document[k] # keys[k]
                \/ /\ keys'[k] = at[a].info /\ k = at[a].info.keyId
                   /\ keys[k] # Nothing => keys[k].publicKey = keys'[k].publicKey
      /\ \A h \in Hashes : receipts'[h] # receipts[h] /\ receipts[h] # Nothing =>
           \E a \in Actors : /\ at[a].pc = "save" /\ at'[a] = Idle
                             /\ at[a].existing # receipts[h] ]_vars

(* Revocation takes effect at once: a receipt is found valid only if, at   *)
(* some moment since its verification began, the registry had its signer   *)
(* under the key that signed it, issued and neither expired nor revoked.   *)
(* A put that landed before the verification began is never missed.        *)
TrustIsFresh ==
  [][\A a \in Actors : \A r \in accepted' \ accepted :
       at[a].pc = "judge" /\ at'[a] = Idle =>
         \E e \in stood[a] : /\ e # Nothing /\ e.publicKey = r.signed
                             /\ now \in e.issuedAt .. e.expiresAt - 1
                             /\ e.revokedAt > now]_vars

(* "An existing identical record at the same receipt hash is an idempotent *)
(* replay; differing bytes are corruption": two saves that race may put    *)
(* one record in the place of another, but never one that verifies in the  *)
(* place of one that verifies, unless they state the same thing.           *)
ReceiptsAgree ==
  \A r, s \in accepted :
    r.receiptHash = s.receiptHash => r.content = s.content /\ r.binding = s.binding
=============================================================================
