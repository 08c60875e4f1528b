------------------------- MODULE MCTrustedReceipts -------------------------
(***************************************************************************)
(* A small workspace: one scope, two signer ids, entries that expire, are  *)
(* revoked at once or later, or claim an id for another public key, and    *)
(* records of one content that differ in binding or in signer.             *)
(***************************************************************************)
EXTENDS TrustedReceipts, TLC

CONSTANTS p1, p2

(* Both processes have the same scope bound. *)
Alike == Permutations({p1, p2})

MCScopeOf == [a \in Actors |-> [hash |-> "scope", company |-> "acme"]]

Info(id, key, issued, expires, revoked) ==
  [keyId |-> id, publicKey |-> key, issuedAt |-> issued,
   expiresAt |-> expires, revokedAt |-> revoked]

MCInfos ==
  { Info("k1", "A", 0, Never, Never), Info("k1", "A", 0, Never, 1),
    Info("k1", "B", 0, Never, Never), Info("k1", "B", 1, 0, Never),
    Info("k2", "B", 1, 2, Never) }

Binding(grant) == [scope |-> "scope", evidence |-> "e1", authorizationId |-> grant]
Drawn   == Binding("g1")
Altered == Binding("g2")
Content(payload) == [company |-> "acme", evidence |-> "e1", payload |-> payload]

Record(content, binding, id, key) ==
  [content |-> content, receiptHash |-> content, binding |-> binding,
   signerKeyId |-> id, signerPublicKey |-> key, signed |-> key, wellFormed |-> TRUE]

MCRecords ==
  { Record(Content(Drawn), Drawn, "k1", "A"),
    Record(Content(Drawn), Altered, "k1", "A"),
    Record(Content(Drawn), Drawn, "k2", "B"),
    [Record(Content(Drawn), Drawn, "k1", "A") EXCEPT !.signed = "B"],
    [Record(Content(Drawn), Drawn, "k1", "A") EXCEPT !.wellFormed = FALSE] }
=============================================================================
