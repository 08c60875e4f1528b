------------------------ MODULE TrustedReceiptsProofs ------------------------
(***************************************************************************)
(* What the registry of trusted keys and the receipt store keep, for every *)
(* number of processes, keys, entries and records.                         *)
(***************************************************************************)
EXTENDS TrustedReceipts, TLAPS

(***************************************************************************)
(* A process holds what it read: the whole document it will merge its      *)
(* entry into, the record it will write or has loaded, the entry it        *)
(* resolved.                                                               *)
(***************************************************************************)
Entries   == Infos \cup {Nothing}
Documents == [KeyIds -> Entries]

Puts      == [pc : {"put"}, info : Infos, document : Documents]
Saves     == [pc : {"save"}, record : Records, existing : {Nothing}]
Resolving == [pc : {"resolve"}, record : Records]
Judging   == [pc : {"judge"}, record : Records, key : Entries]

TypeInv ==
  /\ keys \in Documents
  /\ receipts \in [Hashes -> Records \cup {Nothing}]
  /\ now \in 0 .. MaxTime
  /\ at \in [Actors -> {Idle} \cup Puts \cup Saves \cup Resolving \cup Judging]
  /\ stood \in [Actors -> SUBSET Entries]
  /\ accepted \subseteq Records

LEMMA TypeInit == Init => TypeInv
  BY ReceiptsAssumption DEF Init, TypeInv, Entries, Documents

(* Whatever a step does, it moves one process at most, to a state of its   *)
(* operation.                                                              *)
LEMMA Moves ==
  ASSUME TypeInv, NEW a \in Actors, NEW state, Become(a, state)
  PROVE  /\ at'[a] = state
         /\ \A b \in Actors \ {a} : at'[b] = at[b]
         /\ state \in {Idle} \cup Puts \cup Saves \cup Resolving \cup Judging =>
              at' \in [Actors -> {Idle} \cup Puts \cup Saves \cup Resolving \cup Judging]
  BY DEF TypeInv, Become

LEMMA PutOK ==
  ASSUME TypeInv, NEW a \in Actors, at[a].pc = "put"
  PROVE  /\ at[a] \in Puts /\ at[a].info \in Infos /\ at[a].info.keyId \in KeyIds
         /\ at[a].document \in Documents
         /\ Merged(at[a]) \in Documents
         /\ Merged(at[a])[at[a].info.keyId] = at[a].info
         /\ \A k \in KeyIds \ {at[a].info.keyId} : Merged(at[a])[k] = at[a].document[k]
<1>1. at[a] \in Puts
  BY DEF TypeInv, Idle, Puts, Saves, Resolving, Judging
<1>2. at[a].info \in Infos /\ at[a].document \in Documents
  BY <1>1 DEF Puts
<1>3. at[a].info.keyId \in KeyIds
  BY <1>2, ReceiptsAssumption
<1>4. QED
  BY <1>1, <1>2, <1>3 DEF Merged, Documents, Entries

LEMMA SaveOK ==
  ASSUME TypeInv, NEW a \in Actors, at[a].pc = "save"
  PROVE  /\ at[a].record \in Records /\ at[a].existing = Nothing
         /\ at[a].record.receiptHash \in Hashes
  BY DEF TypeInv, Idle, Puts, Saves, Resolving, Judging, Hashes

LEMMA VerifyOK ==
  ASSUME TypeInv, NEW a \in Actors, at[a].pc \in {"resolve", "judge"}
  PROVE  /\ at[a].record \in Records
         /\ at[a].record.signerKeyId \in KeyIds
         /\ keys[at[a].record.signerKeyId] \in Entries
         /\ at[a].pc = "judge" => at[a].key \in Entries
<1>1. at[a].record \in Records /\ (at[a].pc = "judge" => at[a].key \in Entries)
  BY DEF TypeInv, Idle, Puts, Saves, Resolving, Judging
<1>2. QED
  BY <1>1, ReceiptsAssumption DEF TypeInv, Documents

LEMMA StoodOK ==
  ASSUME TypeInv, NEW entries \in Documents
  PROVE  Stood(entries) \in [Actors -> SUBSET Entries]
<1> SUFFICES ASSUME NEW a \in Actors PROVE Stood(entries)[a] \subseteq Entries
  BY DEF Stood
<1>1. stood[a] \subseteq Entries
  BY DEF TypeInv
<1>2. CASE at[a].pc \in {"resolve", "judge"}
  <2>1. entries[at[a].record.signerKeyId] \in Entries
    BY <1>2, VerifyOK DEF Documents
  <2>2. QED
    BY <1>1, <1>2, <2>1 DEF Stood
<1>3. CASE at[a].pc \notin {"resolve", "judge"}
  BY <1>1, <1>3 DEF Stood
<1>4. QED
  BY <1>2, <1>3

LEMMA TypeStep == TypeInv /\ [Next]_vars => TypeInv'
<1> SUFFICES ASSUME TypeInv, [Next]_vars PROVE TypeInv'
  OBVIOUS
<1> DEFINE States == {Idle} \cup Puts \cup Saves \cup Resolving \cup Judging
<1>0. Idle \in States
  OBVIOUS
<1>1. CASE UNCHANGED vars
  BY <1>1 DEF vars, disk, history, TypeInv
<1>2. CASE Tick
  BY <1>2, ReceiptsAssumption DEF Tick, disk, history, TypeInv
<1>3. ASSUME NEW a \in Actors, Abandon(a) PROVE TypeInv'
  BY <1>3, <1>0, Moves DEF Abandon, disk, TypeInv
<1>4. ASSUME NEW a \in Actors, putRename(a) PROVE TypeInv'
  <2>1. keys' \in Documents /\ stood' \in [Actors -> SUBSET Entries]
    BY <1>4, PutOK, StoodOK DEF putRename
  <2>2. at' \in [Actors -> States]
    BY <1>4, <1>0, Moves DEF putRename
  <2>3. QED
    BY <1>4, <2>1, <2>2 DEF putRename, TypeInv
<1>5. ASSUME NEW a \in Actors, saveRename(a) PROVE TypeInv'
  <2>1. receipts' \in [Hashes -> Records \cup {Nothing}]
    BY <1>5, SaveOK DEF saveRename, TypeInv
  <2>2. at' \in [Actors -> States]
    BY <1>5, <1>0, Moves DEF saveRename
  <2>3. QED
    BY <1>5, <2>1, <2>2 DEF saveRename, history, TypeInv
<1>6. ASSUME NEW a \in Actors, resolve(a) PROVE TypeInv'
  <2>1. [pc |-> "judge", record |-> at[a].record, key |-> keys[at[a].record.signerKeyId]]
          \in Judging
    BY <1>6, VerifyOK DEF resolve, Judging
  <2>2. at' \in [Actors -> States]
    BY <1>6, <2>1, Moves DEF resolve
  <2>3. QED
    BY <1>6, <2>2 DEF resolve, disk, history, TypeInv
<1>7. ASSUME NEW a \in Actors, verifyHarnessReceipt(a) PROVE TypeInv'
  <2>1. at' \in [Actors -> States]
    BY <1>7, <1>0, Moves DEF verifyHarnessReceipt
  <2>2. accepted' \subseteq Records
    BY <1>7, VerifyOK DEF verifyHarnessReceipt, TypeInv
  <2>3. stood' \in [Actors -> SUBSET Entries]
    BY <1>7 DEF verifyHarnessReceipt, TypeInv
  <2>4. QED
    BY <1>7, <2>1, <2>2, <2>3 DEF verifyHarnessReceipt, disk, TypeInv
<1>8. ASSUME NEW a \in Actors, NEW info \in Infos, put(a, info) PROVE TypeInv'
  <2>1. [pc |-> "put", info |-> info, document |-> keys] \in Puts
    BY DEF TypeInv, Puts
  <2>2. at' \in [Actors -> States]
    BY <1>8, <2>1, Moves DEF put
  <2>3. QED
    BY <1>8, <2>2 DEF put, disk, history, TypeInv
<1>9. ASSUME NEW a \in Actors, NEW record \in Records, save(a, record) PROVE TypeInv'
  <2>1. [pc |-> "save", record |-> record, existing |-> Nothing] \in Saves
    BY DEF Saves
  <2>2. at' \in [Actors -> States]
    BY <1>9, <2>1, Moves DEF save
  <2>3. QED
    BY <1>9, <2>2 DEF save, disk, history, TypeInv
<1>10. ASSUME NEW a \in Actors, NEW h \in Hashes, load(a, h) PROVE TypeInv'
  <2>1. receipts[h] \in Records
    BY <1>10 DEF load, TypeInv
  <2>2. [pc |-> "resolve", record |-> receipts[h]] \in Resolving
    BY <2>1 DEF Resolving
  <2>3. keys[receipts[h].signerKeyId] \in Entries
    BY <2>1, ReceiptsAssumption DEF TypeInv, Documents
  <2>4. at' \in [Actors -> States]
    BY <1>10, <2>2, Moves DEF load
  <2>5. stood' \in [Actors -> SUBSET Entries]
    BY <1>10, <2>3 DEF load, TypeInv
  <2>6. QED
    BY <1>10, <2>4, <2>5 DEF load, disk, TypeInv
<1>11. QED
  BY <1>1, <1>2, <1>3, <1>4, <1>5, <1>6, <1>7, <1>8, <1>9, <1>10 DEF Next

LEMMA TypeInvariant == Spec => []TypeInv
  BY TypeInit, TypeStep, PTL DEF Spec

(* The registry holds entries, the store records, and every process is at  *)
(* a point of an operation.                                                *)
THEOREM ReceiptsTypeCorrect == Spec => []TypeOK
<1>1. TypeInv => TypeOK
  BY DEF TypeInv, TypeOK, Documents, Entries, Idle, Puts, Saves, Resolving, Judging
<1>2. QED
  BY <1>1, TypeInvariant, PTL

(***************************************************************************)
(* Verification.  The content and the signature of a record are checked    *)
(* before its signer is resolved, and the entry resolved is one of those   *)
(* the registry has had since: a put that lands on the way is recorded     *)
(* beside the entry it replaces.                                           *)
(***************************************************************************)
Checked ==
  \A a \in Actors : at[a].pc = "judge" => Consistent(at[a].record)

Standing ==
  \A a \in Actors :
    /\ at[a].pc \in {"resolve", "judge"} => keys[at[a].record.signerKeyId] \in stood[a]
    /\ at[a].pc = "judge" => at[a].key \in stood[a]

(* A record found valid is what its digest and its content say it is.      *)
Meant(record) == record.receiptHash = record.content /\ record.content.payload = record.binding

VerifyInv ==
  /\ TypeInv /\ Checked /\ Standing
  /\ \A r \in accepted : Meant(r)

LEMMA VerifyInit == Init => VerifyInv
  BY TypeInit DEF Init, VerifyInv, Checked, Standing, Idle

(* No step but its own changes what a process is verifying, and none takes *)
(* an entry from what the registry has had for its signer.                 *)
LEMMA VerifyFrame ==
  ASSUME VerifyInv, TypeInv', NEW a \in Actors, at'[a] = at[a],
         \/ keys' = keys /\ stood[a] \subseteq stood'[a]
         \/ stood' = Stood(keys')
  PROVE  /\ at[a].pc \in {"resolve", "judge"} =>
              keys'[at[a].record.signerKeyId] \in stood'[a]
         /\ at[a].pc = "judge" => at[a].key \in stood'[a]
  BY DEF VerifyInv, Standing, Stood

LEMMA VerifyStep == VerifyInv /\ [Next]_vars => VerifyInv'
<1> SUFFICES ASSUME VerifyInv, [Next]_vars PROVE VerifyInv'
  OBVIOUS
<1>0. TypeInv /\ TypeInv'
  BY TypeStep DEF VerifyInv
<1>1. CASE UNCHANGED vars \/ Tick
  <2>1. UNCHANGED <<keys, at, stood, accepted>>
    BY <1>1 DEF vars, Tick, disk, history
  <2>2. QED
    BY <1>0, <2>1 DEF VerifyInv, Checked, Standing
<1>2. ASSUME NEW a \in Actors, NEW state,
             state.pc \notin {"resolve", "judge"}, Become(a, state),
             \/ keys' = keys /\ \A b \in Actors \ {a} : stood'[b] = stood[b]
             \/ stood' = Stood(keys'),
             \A r \in accepted' : Meant(r)
      PROVE  VerifyInv'
  <2>1. at'[a] = state /\ \A b \in Actors \ {a} : at'[b] = at[b]
    BY <1>0, <1>2, Moves
  <2>2. Checked'
    BY <1>2, <2>1 DEF VerifyInv, Checked
  <2>3. Standing'
    <3> SUFFICES ASSUME NEW b \in Actors, b # a
                 PROVE  /\ at'[b].pc \in {"resolve", "judge"} =>
                             keys'[at'[b].record.signerKeyId] \in stood'[b]
                        /\ at'[b].pc = "judge" => at'[b].key \in stood'[b]
      BY <1>2, <2>1 DEF Standing
    <3>1. QED
      BY <1>0, <1>2, <2>1, VerifyFrame
  <2>4. QED
    BY <1>0, <1>2, <2>2, <2>3 DEF VerifyInv
<1>3. ASSUME NEW a \in Actors, Abandon(a) PROVE VerifyInv'
  <2>1. keys' = keys /\ \A b \in Actors \ {a} : stood'[b] = stood[b]
    BY <1>0, <1>3 DEF Abandon, disk, TypeInv
  <2>2. QED
    BY <1>2, <1>3, <2>1 DEF Abandon, VerifyInv, Idle
<1>4. ASSUME NEW a \in Actors, putRename(a) PROVE VerifyInv'
  BY <1>2, <1>4 DEF putRename, VerifyInv, Idle
<1>5. ASSUME NEW a \in Actors,
             \/ saveRename(a)
             \/ \E info \in Infos : put(a, info)
             \/ \E record \in Records : save(a, record)
      PROVE  VerifyInv'
  <2>1. keys' = keys /\ stood' = stood /\ accepted' = accepted
    BY <1>5 DEF saveRename, put, save, disk, history
  <2>2. \E state : state.pc \notin {"resolve", "judge"} /\ Become(a, state)
    BY <1>5 DEF saveRename, put, save, Idle
  <2>3. QED
    BY <1>2, <2>1, <2>2 DEF VerifyInv
<1>6. ASSUME NEW a \in Actors, resolve(a) PROVE VerifyInv'
  <2> DEFINE judging == [pc |-> "judge", record |-> at[a].record,
                         key |-> keys[at[a].record.signerKeyId]]
  <2>1. /\ at'[a] = judging /\ \A b \in Actors \ {a} : at'[b] = at[b]
        /\ keys' = keys /\ stood' = stood /\ accepted' = accepted
    BY <1>0, <1>6, Moves DEF resolve, disk, history
  <2>2. Consistent(at[a].record) /\ keys[at[a].record.signerKeyId] \in stood[a]
    BY <1>6 DEF resolve, VerifyInv, Standing
  <2>3. Checked'
    BY <2>1, <2>2 DEF VerifyInv, Checked
  <2>4. Standing'
    BY <2>1, <2>2 DEF VerifyInv, Standing
  <2>5. QED
    BY <1>0, <2>1, <2>3, <2>4 DEF VerifyInv
<1>7. ASSUME NEW a \in Actors, verifyHarnessReceipt(a) PROVE VerifyInv'
  <2>1. keys' = keys /\ \A b \in Actors \ {a} : stood'[b] = stood[b]
    BY <1>0, <1>7 DEF verifyHarnessReceipt, disk, TypeInv
  <2>2. \A r \in accepted' : Meant(r)
    <3>1. Consistent(at[a].record)
      BY <1>7 DEF verifyHarnessReceipt, VerifyInv, Checked
    <3>2. QED
      BY <1>7, <3>1 DEF verifyHarnessReceipt, Bound, Consistent, Meant, VerifyInv
  <2>3. QED
    BY <1>2, <1>7, <2>1, <2>2 DEF verifyHarnessReceipt, Idle
<1>8. ASSUME NEW a \in Actors, NEW h \in Hashes, load(a, h) PROVE VerifyInv'
  <2> DEFINE loaded == [pc |-> "resolve", record |-> receipts[h]]
  <2>1. /\ at'[a] = loaded /\ \A b \in Actors \ {a} : at'[b] = at[b]
        /\ keys' = keys /\ accepted' = accepted
    BY <1>0, <1>8, Moves DEF load, disk
  <2>2. /\ stood'[a] = {keys[receipts[h].signerKeyId]}
        /\ \A b \in Actors \ {a} : stood'[b] = stood[b]
    BY <1>0, <1>8 DEF load, TypeInv
  <2>3. Checked'
    BY <2>1 DEF VerifyInv, Checked
  <2>4. Standing'
    BY <2>1, <2>2 DEF VerifyInv, Standing
  <2>5. QED
    BY <1>0, <2>1, <2>3, <2>4 DEF VerifyInv
<1>9. QED
  BY <1>1, <1>3, <1>4, <1>5, <1>6, <1>7, <1>8 DEF Next

LEMMA VerifyInvariant == Spec => []VerifyInv
  BY VerifyInit, VerifyStep, PTL DEF Spec

(* Whatever order racing saves and verifications take, two valid records   *)
(* under one digest state the same thing.                                  *)
THEOREM OneMeaning == Spec => []ReceiptsAgree
<1>1. VerifyInv => ReceiptsAgree
  BY DEF VerifyInv, ReceiptsAgree, Meant
<1>2. QED
  BY <1>1, VerifyInvariant, PTL

(* Revocation takes effect at once, whoever puts and whenever: the entry a *)
(* record is judged by stood in the registry while it was being verified.  *)
THEOREM FreshTrust == Spec => TrustIsFresh
<1>1. ASSUME VerifyInv, [Next]_vars, NEW a \in Actors, NEW r \in accepted' \ accepted,
             at[a].pc = "judge", at'[a] = Idle
      PROVE  \E e \in stood[a] : /\ e # Nothing /\ e.publicKey = r.signed
                                 /\ now \in e.issuedAt .. e.expiresAt - 1
                                 /\ e.revokedAt > now
  <2>1. PICK b \in Actors : verifyHarnessReceipt(b)
    <3>1. accepted' # accepted
      BY <1>1
    <3>2. QED
      BY <1>1, <3>1 DEF Next, vars, disk, history, Tick, Abandon, putRename,
                        saveRename, resolve, put, save, load
  <2>2. b = a
    <3>1. at'[a] # at[a]
      BY <1>1 DEF Idle
    <3>2. QED
      BY <2>1, <3>1, <1>1, Moves DEF verifyHarnessReceipt, VerifyInv
  <2> DEFINE w == at[a]
  <2>3. /\ r = w.record /\ SignerTrusted(w.record, w.key)
    BY <1>1, <2>1, <2>2 DEF verifyHarnessReceipt
  <2>4. w.key \in stood[a] /\ Consistent(w.record)
    BY <1>1 DEF VerifyInv, Standing, Checked
  <2>5. w.key \in Infos
    BY <1>1, <2>3, VerifyOK DEF SignerTrusted, VerifyInv, Entries
  <2>6. w.key.issuedAt \in Nat /\ w.key.expiresAt \in Nat /\ w.key.revokedAt \in Nat
    BY <2>5, ReceiptsAssumption
  <2>7. now \in Nat
    BY <1>1, ReceiptsAssumption DEF VerifyInv, TypeInv
  <2>8. QED
    BY <2>3, <2>4, <2>6, <2>7 DEF SignerTrusted, Consistent
<1>2. VerifyInv /\ [Next]_vars =>
        [\A a \in Actors : \A r \in accepted' \ accepted :
           at[a].pc = "judge" /\ at'[a] = Idle =>
             \E e \in stood[a] : /\ e # Nothing /\ e.publicKey = r.signed
                                 /\ now \in e.issuedAt .. e.expiresAt - 1
                                 /\ e.revokedAt > now]_vars
  BY <1>1
<1>3. QED
  BY <1>2, VerifyInvariant, PTL DEF Spec, TrustIsFresh

(* However many processes write at once, a write takes back only what came *)
(* after the read it was decided on.                                       *)
THEOREM WritesHold == Spec => WritesStand
<1>1. ASSUME TypeInv, [Next]_vars, NEW k \in KeyIds, keys'[k] # keys[k]
      PROVE  \E a \in Actors :
               /\ at[a].pc = "put" /\ at'[a] = Idle
               /\ \/ at[a].document[k] # keys[k]
                  \/ /\ keys'[k] = at[a].info /\ k = at[a].info.keyId
                     /\ keys[k] # Nothing => keys[k].publicKey = keys'[k].publicKey
  <2>1. PICK a \in Actors : putRename(a)
    BY <1>1 DEF Next, vars, disk, history, Tick, Abandon, saveRename, resolve,
                verifyHarnessReceipt, put, save, load
  <2>2. at[a].pc = "put" /\ at'[a] = Idle /\ keys' = Merged(at[a]) /\ SameKey(at[a])
    BY <1>1, <2>1, Moves DEF putRename
  <2>3. CASE k = at[a].info.keyId
    BY <1>1, <2>2, <2>3, PutOK DEF SameKey
  <2>4. CASE k # at[a].info.keyId
    BY <1>1, <2>2, <2>4, PutOK
  <2>5. QED
    BY <2>3, <2>4
<1>2. ASSUME TypeInv, [Next]_vars, NEW h \in Hashes,
             receipts'[h] # receipts[h], receipts[h] # Nothing
      PROVE  \E a \in Actors : /\ at[a].pc = "save" /\ at'[a] = Idle
                               /\ at[a].existing # receipts[h]
  <2>1. PICK a \in Actors : saveRename(a)
    BY <1>2 DEF Next, vars, disk, history, Tick, Abandon, putRename, resolve,
                verifyHarnessReceipt, put, save, load
  <2>2. at[a].pc = "save" /\ at'[a] = Idle
    BY <1>2, <2>1, Moves DEF saveRename
  <2>3. QED
    BY <1>2, <2>2, SaveOK
<1>3. TypeInv /\ [Next]_vars =>
        [ /\ \A k \in KeyIds : keys'[k] # keys[k] =>
               \E a \in Actors :
                 /\ at[a].pc = "put" /\ at'[a] = Idle
                 /\ \/ at[a].document[k] # keys[k]
                    \/ /\ keys'[k] = at[a].info /\ k = at[a].info.keyId
                       /\ keys[k] # Nothing => keys[k].publicKey = keys'[k].publicKey
          /\ \A h \in Hashes : receipts'[h] # receipts[h] /\ receipts[h] # Nothing =>
               \E a \in Actors : /\ at[a].pc = "save" /\ at'[a] = Idle
                                 /\ at[a].existing # receipts[h] ]_vars
  BY <1>1, <1>2
<1>4. QED
  BY <1>3, TypeInvariant, PTL DEF Spec, WritesStand
=============================================================================
