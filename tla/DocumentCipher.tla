--------------------------- MODULE DocumentCipher ---------------------------
(***************************************************************************)
(* What leaves the browser for a document: updates, titles and snapshots,  *)
(* each sealed under the DEK its author's tab holds, bound to the document *)
(* and the key's epoch, an update to its author too and signed by him; and *)
(* what a tab makes of them with the ring of keys it fetched, while the    *)
(* keys are rotated and the tabs are not told.                             *)
(*                                                                         *)
(* One document and the members who stay in it. A DEK is named by the      *)
(* epoch it was generated for, a plaintext by the place of its item, a     *)
(* signing key by its owner. Ids have one length and no zero byte: one     *)
(* letter stands for all of an id. The nonce travels with its ciphertext   *)
(* and is left out.                                                        *)
(***************************************************************************)
EXTENDS Integers, Sequences, FiniteSets, FiniteSetsExt

CONSTANTS
  Document,   \* ids of documents
  TheDoc,     \* the one whose keys these are
  Member,     \* ids of users
  Creator,    \* who created it
  NoSigner,   \* no trusted signing key
  LastEpoch,  \* bound: key rotations
  MaxSealed   \* bound: items sealed

ASSUME DocumentCipherAssumption ==
  /\ TheDoc \in Document /\ Creator \in Member /\ NoSigner \notin Member
  /\ LastEpoch \in Nat \ {0} /\ MaxSealed \in Nat

VARIABLES
  currentEpoch, \* documents.current_key_epoch
  wrapped,      \* the sealed DEKs the server has for its members
  sinceEpoch,   \* the epoch a member joined under; 0: not yet
  halfRing,     \* fetchKeyRing has the current DEK of this epoch and awaits the history; 0: no
  keyRing,      \* keyRingCache of each member's tab
  sealedItems   \* what was sealed, in order

documentCipherVars == <<currentEpoch, wrapped, sinceEpoch, halfRing, keyRing, sealedItems>>

RingEpoch == 1 .. LastEpoch
KeyEntry == [dek : RingEpoch, keyEpoch : RingEpoch]
Failed == 0  \* a decryption that throws; a plaintext is 1 or more
-----------------------------------------------------------------------------
(* concatAAD: the fields with a zero byte between them.                    *)
ConcatAAD(fields) ==
  LET upTo[n \in 1 .. Len(fields)] ==
        IF n = 1 THEN fields[1] ELSE upTo[n - 1] \o <<0>> \o fields[n]
  IN upTo[Len(fields)]

(* A big-endian integer of two bytes; here a byte has two values, so that  *)
(* an epoch may hold the separator's.                                      *)
EpochBytes(keyEpoch) == <<(keyEpoch \div 2) % 2, keyEpoch % 2>>

UpdateAAD(d, keyEpoch, author, seq) == ConcatAAD(<< <<d>>, EpochBytes(keyEpoch), <<author>>, <<seq>> >>)

TitleAAD(d, keyEpoch) == ConcatAAD(<< <<d>>, EpochBytes(keyEpoch) >>)

(* XChaCha20-Poly1305 opens with the key and associated data it sealed     *)
(* with, and throws with any other; Ed25519 verifies likewise.             *)
Encrypt(dek, aad, plain) == [dek |-> dek, aad |-> aad, plain |-> plain]
Decrypt(dek, aad, c) == IF c.dek = dek /\ c.aad = aad THEN c.plain ELSE Failed

SignUpdate(signer, d, keyEpoch, author, wire) ==
  [by |-> signer, over |-> ConcatAAD(<< <<d>>, EpochBytes(keyEpoch), <<author>>, <<wire>> >>)]
VerifyUpdateSignature(signingPublic, d, keyEpoch, author, wire, signature) ==
  signature = SignUpdate(signingPublic, d, keyEpoch, author, wire)

(* The sealed box: only whom it is for opens it.                           *)
SealFor(m, dek) == [to |-> m, dek |-> dek]
Unseal(m, box) == IF box.to = m THEN box.dek ELSE Failed
-----------------------------------------------------------------------------
EncryptUpdate(key, d, author, seq, plain) ==
  [seq |-> seq, ciphertext |-> Encrypt(key.dek, UpdateAAD(d, key.keyEpoch, author, seq), plain)]

DecryptUpdate(key, d, author, wire) ==
  Decrypt(key.dek, UpdateAAD(d, key.keyEpoch, author, wire.seq), wire.ciphertext)

SignAndEncryptUpdate(key, d, author, seq, plain) ==
  LET wire == EncryptUpdate(key, d, author, seq, plain)
  IN [wire |-> wire, signature |-> SignUpdate(author, d, key.keyEpoch, author, wire)]

EncryptTitle(key, d, plain) == Encrypt(key.dek, TitleAAD(d, key.keyEpoch), plain)
DecryptTitle(key, d, wire) == Decrypt(key.dek, TitleAAD(d, key.keyEpoch), wire)

(* The first key of the ring that opens it, or none.                       *)
DecryptTitleWithAnyKey(ring, d, wire) ==
  LET opening == {i \in DOMAIN ring : DecryptTitle(ring[i], d, wire) # Failed}
  IN IF opening = {} THEN Failed ELSE DecryptTitle(ring[Min(opening)], d, wire)

(* A snapshot is bound to what a title is, and opened like one.            *)
EncryptSnapshot(key, d, plain) == EncryptTitle(key, d, plain)
DecryptSnapshotWithAnyKey(ring, d, wire) == DecryptTitleWithAnyKey(ring, d, wire)

UpdateKeys(ring, d, author, wire) ==
  {i \in DOMAIN ring : DecryptUpdate(ring[i], d, author, wire) # Failed}

(* Mutant: the signature is checked under the current epoch.               *)
VerifyUnderCurrentEpoch(ring, signingPublic, d, author, signed) ==
  LET opening == UpdateKeys(ring, d, author, signed.wire)
      key == ring[Min(opening)]
  IN IF /\ opening # {} /\ signingPublic # NoSigner
        /\ VerifyUpdateSignature(signingPublic, d, ring[1].keyEpoch, author, signed.wire, signed.signature)
     THEN DecryptUpdate(key, d, author, signed.wire)
     ELSE Failed

(* The first key that opens it says under which epoch it was signed.       *)
VerifyAndDecryptUpdateWithAnyKey(ring, signingPublic, d, author, signed) ==
  LET opening == UpdateKeys(ring, d, author, signed.wire)
      key == ring[Min(opening)]
  IN IF /\ opening # {} /\ signingPublic # NoSigner
        /\ VerifyUpdateSignature(signingPublic, d, key.keyEpoch, author, signed.wire, signed.signature)
     THEN DecryptUpdate(key, d, author, signed.wire)
     ELSE Failed
-----------------------------------------------------------------------------
Wrap(m, keyEpoch) == [of |-> keyEpoch, box |-> SealFor(m, keyEpoch)]
Joined(m) == sinceEpoch[m] # 0

(* createAndWrapOwnDEK: the creator's is the first.                        *)
DocumentCipherInit ==
  /\ currentEpoch = 1
  /\ wrapped = {Wrap(Creator, 1)}
  /\ sinceEpoch = [m \in Member |-> IF m = Creator THEN 1 ELSE 0]
  /\ halfRing = [m \in Member |-> 0]
  /\ keyRing = [m \in Member |-> <<>>]
  /\ sealedItems = <<>>

(* A member joins, and gets the current DEK from one who has it.           *)
JoinDocument(m) ==
  /\ ~Joined(m)
  /\ sinceEpoch' = [sinceEpoch EXCEPT ![m] = currentEpoch]
  /\ wrapped' = wrapped \cup {Wrap(m, currentEpoch)}
  /\ UNCHANGED <<currentEpoch, halfRing, keyRing, sealedItems>>

(* Somebody was removed: a new DEK is sealed for whoever remains, the old  *)
(* wraps are archived. No tab is told.                                     *)
RotateDocumentKey ==
  /\ currentEpoch < LastEpoch
  /\ currentEpoch' = currentEpoch + 1
  /\ wrapped' = wrapped \cup {Wrap(m, currentEpoch') : m \in {m \in Member : Joined(m)}}
  /\ UNCHANGED <<sinceEpoch, halfRing, keyRing, sealedItems>>

(* fetchKeyRing: the current DEK first (GET .../wrapped-dek) ...           *)
FetchAndUnwrapDEK(m) ==
  /\ Joined(m) /\ keyRing[m] = <<>> /\ halfRing[m] = 0
  /\ halfRing' = [halfRing EXCEPT ![m] = currentEpoch]
  /\ UNCHANGED <<currentEpoch, wrapped, sinceEpoch, keyRing, sealedItems>>

RingEntry(m, w) == [dek |-> Unseal(m, w.box), keyEpoch |-> w.of]

(* ... then the archived ones, in the order of their epochs.               *)
FetchKeyHistory(m) ==
  LET archived == sinceEpoch[m] .. currentEpoch - 1
      box(e) == CHOOSE w \in wrapped : w.of = e /\ w.box.to = m
      history == [i \in 1 .. Cardinality(archived) |-> RingEntry(m, box(sinceEpoch[m] + i - 1))]
  IN /\ halfRing[m] # 0
     /\ keyRing' = [keyRing EXCEPT ![m] = <<RingEntry(m, box(halfRing[m]))>> \o history]
     /\ halfRing' = [halfRing EXCEPT ![m] = 0]
     /\ UNCHANGED <<currentEpoch, wrapped, sinceEpoch, sealedItems>>

(* The tab is loaded again, or removed a member itself.                    *)
ClearDEKCache(m) ==
  /\ keyRing[m] # <<>>
  /\ keyRing' = [keyRing EXCEPT ![m] = <<>>]
  /\ UNCHANGED <<currentEpoch, wrapped, sinceEpoch, halfRing, sealedItems>>

(* A member edits, renames or uploads a snapshot, under the first key of   *)
(* the ring of his tab, whatever was rotated since. The history part of an *)
(* item is who sealed what under which epoch.                              *)
SealItem(m, kind) ==
  LET plain == Len(sealedItems) + 1
      key == keyRing[m][1]
  IN /\ keyRing[m] # <<>> /\ plain <= MaxSealed
     /\ sealedItems' = Append(sealedItems,
          [kind |-> kind, author |-> m, under |-> key.keyEpoch,
           content |-> CASE kind = "update" -> SignAndEncryptUpdate(key, TheDoc, m, plain, plain)
                         [] kind = "title" -> EncryptTitle(key, TheDoc, plain)
                         [] kind = "snapshot" -> EncryptSnapshot(key, TheDoc, plain)])
     /\ UNCHANGED <<currentEpoch, wrapped, sinceEpoch, halfRing, keyRing>>

DocumentCipherNext ==
  \/ \E m \in Member :
       \/ JoinDocument(m) \/ FetchAndUnwrapDEK(m) \/ FetchKeyHistory(m) \/ ClearDEKCache(m)
       \/ \E kind \in {"update", "title", "snapshot"} : SealItem(m, kind)
  \/ RotateDocumentKey

DocumentCipherSpec == DocumentCipherInit /\ [][DocumentCipherNext]_documentCipherVars
-----------------------------------------------------------------------------
DocumentCipherTypeOK ==
  /\ currentEpoch \in RingEpoch
  /\ \A w \in wrapped : w.of \in RingEpoch /\ w.box.to \in Member /\ w.box.dek = w.of
  /\ \A m \in Member :
       /\ sinceEpoch[m] \in 0 .. currentEpoch /\ halfRing[m] \in 0 .. currentEpoch
       /\ \A i \in DOMAIN keyRing[m] : keyRing[m][i] \in KeyEntry
  /\ Len(sealedItems) <= MaxSealed

(* What the tab of m makes of item i, told it is of document d by author,  *)
(* whose signing key it takes to be signingPublic.                         *)
OpensAs(m, i, d, author, signingPublic) ==
  LET item == sealedItems[i]
  IN CASE item.kind = "update" ->
            VerifyAndDecryptUpdateWithAnyKey(keyRing[m], signingPublic, d, author, item.content)
       [] item.kind = "title" -> DecryptTitleWithAnyKey(keyRing[m], d, item.content)
       [] item.kind = "snapshot" -> DecryptSnapshotWithAnyKey(keyRing[m], d, item.content)

(* The epochs of a ring have no gap, from when its member joined; and      *)
(* however the keys were rotated before, while and after the ring was      *)
(* fetched and the item was sealed, a tab reads an item exactly when its   *)
(* ring has the epoch: to its own plaintext, as of its own document and,   *)
(* for an update, its own author, whose signing key the tab trusts.        *)
RingOpensItsEpochs ==
  \A m \in Member :
    LET epochs == {keyRing[m][n].keyEpoch : n \in DOMAIN keyRing[m]}
    IN /\ epochs # {} => epochs = sinceEpoch[m] .. Max(epochs)
       /\ \A i \in DOMAIN sealedItems, d \in Document, author \in Member, trusted \in Member \cup {NoSigner} :
            LET item == sealedItems[i]
                honest == d = TheDoc /\ (item.kind = "update" => author = item.author /\ trusted = author)
            IN OpensAs(m, i, d, author, trusted) = IF honest /\ item.under \in epochs THEN i ELSE Failed
=============================================================================
