------------------------------- MODULE Sealed -------------------------------
(***************************************************************************)
(* What the code signs, and what becomes of it before it is verified:      *)
(* signed actions (identity/signing.py), sealed inter-agent envelopes      *)
(* (comms/iatp.py), memory receipts (verification/cmvk.py) and policy      *)
(* bundles on disk (`sentinel policy sign` and `verify`).                  *)
(*                                                                         *)
(* Ed25519 and SHA-256 are ideal: a signature is the key and the signed    *)
(* payload, a digest the payload itself, each a tuple of strings.  The     *)
(* body of an object says what it is about (agents, tool, memory key, ...) *)
(* and carries data of any JSON type, here two values.                     *)
(***************************************************************************)
EXTENDS Naturals, Sequences

CONSTANTS
  Keys,        \* key pairs
  Subjects,    \* what a body may be about
  Values,      \* JSON values: "nan" is a float that is not finite, "huge" an
               \* integer outside int64
  Formats,     \* formats policy files are named for
  MaxSignings  \* bound: signatures made over one policy file

VARIABLES
  object,  \* the object, as it is stored or in transit
  origin   \* history: as it was when it was signed

sealedVars == <<object, origin>>

Bodies == [about : Subjects, data : Values \X Values]

NoSignature == <<>>
NoDigest == <<>>
NoBody == [about |-> "none", data |-> <<"null", "null">>]

\* `unsigned` stands for what travels with the object and is not signed: an
\* action's key_id, a receipt's id, issued_at and version.  `named` and
\* `written` are the format a bundle's file name promises and the one it is
\* in; `over` is the signature that was in the file when it was signed.
NoObject == [kind |-> "none", body |-> NoBody, unsigned |-> "original",
             digest |-> NoDigest, sig |-> NoSignature,
             named |-> "yaml", written |-> "yaml"]
NoOrigin == [key |-> "none", object |-> NoObject, over |-> NoSignature, signings |-> 0]

SealedInit == object = NoObject /\ origin = NoOrigin

-----------------------------------------------------------------------------
\* canonical_bytes.  orjson writes NaN as null; the fallback for integers
\* that orjson refuses writes NaN.
Canonical(body) ==
  LET fallback == \E i \in 1 .. 2 : body.data[i] = "huge"
      text(v)  == IF v = "nan" /\ ~fallback THEN "null" ELSE v
  IN  <<body.about, text(body.data[1]), text(body.data[2])>>

\* Ed25519: sign and verify.
Sign(key, payload) == <<key>> \o payload
Verify(key, sig, payload) == sig = Sign(key, payload)

\* sha256_hex.
Digest(body) == <<"sha256">> \o Canonical(body)

ReceiptPayload(body, digest) == <<body.about>> \o digest

\* The receipt's signature alone: the value is not looked at.
Mutant_VerifyDigestOnly(key, o) ==
  Verify(key, o.sig, ReceiptPayload(o.body, o.digest))

\* CMVK.verify: a digest of another value is refused first.
VerifyReceipt(key, o) ==
  /\ o.digest = Digest(o.body)
  /\ Verify(key, o.sig, ReceiptPayload(o.body, o.digest))

\* JSON is YAML as well.
Readable(o) == o.named = "yaml" \/ o.written = "json"

\* load_bundle_from_path with a public key: the signature is taken out of
\* the data before the bundle is made of it.
LoadBundle(key, o) ==
  /\ Readable(o) /\ o.sig # NoSignature
  /\ Verify(key, o.sig, Canonical(o.body) \o NoSignature)

\* policy_verify ends without an exception.
PolicyVerify(key, o) == LoadBundle(key, o)

\* ActionVerifier.verify.
VerifyAction(key, o) == Verify(key, o.sig, Canonical(o.body))

\* IATPTransport.verify.
VerifyEnvelope(key, o) == o.sig # NoSignature /\ Verify(key, o.sig, Canonical(o.body))

Verifies(key, o) ==
  \/ o.kind = "action" /\ VerifyAction(key, o)
  \/ o.kind = "envelope" /\ VerifyEnvelope(key, o)
  \/ o.kind = "receipt" /\ VerifyReceipt(key, o)
  \/ o.kind = "bundle" /\ PolicyVerify(key, o)

-----------------------------------------------------------------------------
Signed(key, o) ==
  /\ object' = o
  /\ origin' = [key |-> key, object |-> o, over |-> object.sig,
                signings |-> origin.signings + 1]

\* ActionSigner.sign: the whole action.
SignAction(key, body) ==
  /\ object = NoObject
  /\ Signed(key, [NoObject EXCEPT !.kind = "action", !.body = body,
                                  !.sig = Sign(key, Canonical(body))])

\* IATPTransport.seal: all of the envelope but its signature.
Seal(key, body) ==
  /\ object = NoObject
  /\ Signed(key, [NoObject EXCEPT !.kind = "envelope", !.body = body,
                                  !.sig = Sign(key, Canonical(body))])

\* CMVK.issue.
Issue(key, body) ==
  /\ object = NoObject
  /\ Signed(key, [NoObject EXCEPT !.kind = "receipt", !.body = body,
                    !.digest = Digest(body),
                    !.sig = Sign(key, ReceiptPayload(body, Digest(body)))])

\* An author writes a policy file, unsigned.
WriteBundle(body, format) ==
  /\ object = NoObject
  /\ object' = [NoObject EXCEPT !.kind = "bundle", !.body = body,
                                !.named = format, !.written = format]
  /\ UNCHANGED origin

\* policy_sign: what is signed is the bundle as it was read, a signature
\* already in the file included; what is written is YAML whatever its name.
PolicySign(key, format) ==
  /\ object.kind = "bundle" /\ Readable(object)
  /\ origin.signings < MaxSignings
  /\ Signed(key, [object EXCEPT !.named = format, !.written = "yaml",
                    !.sig = Sign(key, Canonical(object.body) \o object.sig)])

\* A field changes in transit, on disk, or by SignedAction.args.
Alter(body) ==
  /\ object.kind # "none" /\ body # object.body
  /\ object' = [object EXCEPT !.body = body]
  /\ UNCHANGED origin

\* A field nothing signs changes.  Envelopes and bundles have none.
Relabel(label) ==
  /\ object.kind \in {"action", "receipt"} /\ label # object.unsigned
  /\ object' = [object EXCEPT !.unsigned = label]
  /\ UNCHANGED origin

\* The signature or the digest is damaged, or a bundle's is removed.
Damage(field) ==
  /\ object.kind # "none" /\ object[field] # <<>>
  /\ \E bytes \in {<<>>, <<"damaged">>} : object' = [object EXCEPT ![field] = bytes]
  /\ UNCHANGED origin

Discard == object # NoObject /\ object' = NoObject /\ origin' = NoOrigin

SealedNext ==
  \/ \E key \in Keys :
       \/ \E body \in Bodies : SignAction(key, body) \/ Seal(key, body) \/ Issue(key, body)
       \/ \E format \in Formats : PolicySign(key, format)
  \/ \E body \in Bodies : Alter(body) \/ \E format \in Formats : WriteBundle(body, format)
  \/ \E label \in {"original", "changed"} : Relabel(label)
  \/ \E field \in {"sig", "digest"} : Damage(field)
  \/ Discard

-----------------------------------------------------------------------------
\* What was signed, signed over or stored of it is as it was.
SealKept ==
  /\ origin # NoOrigin
  /\ object.sig = origin.object.sig /\ object.digest = origin.object.digest

Intact == SealKept /\ object.body = origin.object.body

\* Bodies that differ, but only by a null for a NaN, and neither of them
\* has a number that makes canonical_bytes fall back.
Confusable(b, c) ==
  /\ b # c /\ b.about = c.about
  /\ \A i \in 1 .. 2 :
       /\ "huge" \notin {b.data[i], c.data[i]}
       /\ b.data[i] = c.data[i] \/ {b.data[i], c.data[i]} = {"nan", "null"}

Confused == SealKept /\ Confusable(object.body, origin.object.body)

\* A bundle that was signed over an older signature, or into a file of
\* another format than YAML.
Spoilt == object.kind = "bundle" /\ (origin.over # NoSignature \/ ~Readable(object))

(***************************************************************************)
(* An object verifies with a key if and only if it was signed with this    *)
(* key and all that was signed is intact, or altered only by exchanging    *)
(* NaN and null, however it was changed and changed back meanwhile; but    *)
(* for the bundles that policy_sign itself spoils.                         *)
(***************************************************************************)
VerifiesIffIntact ==
  \A key \in Keys :
    Verifies(key, object) <=> origin.key = key /\ (Intact \/ Confused) /\ ~Spoilt

(***************************************************************************)
(* "Sign a policy bundle and write the signature alongside the data"       *)
(* (cli.py:90): what policy_sign has written verifies with its key.        *)
(***************************************************************************)
SignedBundleVerifies ==
  object.kind = "bundle" /\ object = origin.object => Verifies(origin.key, object)

(***************************************************************************)
(* "callers can construct adversarial tests that mutate the payload after  *)
(* signing; the verifier MUST reject any such mutation"                    *)
(* (signing.py:30-31).                                                     *)
(***************************************************************************)
MutationRejected ==
  object.kind = "action" /\ object.body # origin.object.body =>
    \A key \in Keys : ~Verifies(key, object)

(***************************************************************************)
(* "On read, the receipt is re-verified to detect tampering, replay, or    *)
(* substitution" (cmvk.py:4-5): an altered receipt does not verify.        *)
(***************************************************************************)
ReceiptTamperingDetected ==
  object.kind = "receipt" /\ object # origin.object =>
    \A key \in Keys : ~Verifies(key, object)

=============================================================================
