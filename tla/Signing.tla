------------------------------- MODULE Signing -------------------------------
(***************************************************************************)
(* Producing and verifying signatures (signing/signer.py, verifier.py,     *)
(* envelope.py, schemes.py and the providers of providers.py, kms.py and   *)
(* hsm.py).  sign_with_provider() asks its provider for a public key and,  *)
(* in another call, for a signature; meanwhile the name the provider knows *)
(* its key by (a KMS alias, a label on a token) may be given to another    *)
(* key.  The envelope becomes a file that anybody can edit: what is loaded  *)
(* and verified is any combination of fields and of signatures ever made.  *)
(*                                                                         *)
(* A key is its public bytes and its fingerprint at once.  A signature is  *)
(* the key that made it and the bytes it covers: nobody else can make one, *)
(* except under a weak key, whose universal signature verifies for any     *)
(* message (the documented limitation of schemes.py).  What a payload says *)
(* of the artifact, its ML-BOM, its name and its signer is one value.      *)
(***************************************************************************)
EXTENDS Naturals, FiniteSets

CONSTANTS
    Ed25519Keys, P256Keys,      \* public keys by scheme
    Weak,           \* keys under which a universal signature exists
    Bodies,         \* what a payload says besides format, algorithm and key
    Local, Kms, Hsm,            \* providers: key files, KMS clients, HSM sessions
    verifiers,      \* algorithms the verifier registry knows
    None,           \* no value
    MaxCalls,       \* bound: sign_with_provider() calls
    MaxMoves        \* bound: names given to another key

Keys == Ed25519Keys \cup P256Keys
Providers == Local \cup Kms \cup Hsm
Ed25519 == "ed25519"
EcdsaP256 == "ecdsa-p256-sha256"
Ed25519Local == "ed25519-local"             \* SIGNATURE_TYPE_ED25519_LOCAL

ASSUME KeysAssumption ==
    /\ Ed25519Keys \cap P256Keys = {} /\ Weak \subseteq Keys
    /\ None \notin Keys \cup Bodies /\ verifiers \subseteq {Ed25519, EcdsaP256}
ASSUME BoundsAssumption == MaxCalls \in Nat /\ MaxMoves \in Nat

VARIABLES
    named,      \* per provider: the key its alias, label or file now names
    cache,      \* per provider: _public_key_cache
    handle,     \* per HSM provider: the private key object it holds
    pc,         \* where a provider's user stands in its call
    job,        \* the body to sign, the key read, the envelope made
    made,       \* <<key, payload>> pairs signed by the holder of the key
    returned,   \* envelopes that sign_with_provider() has returned
    accepted,   \* the envelope verify_envelope_signature() has just accepted
    allow_legacy_v1,
    calls, moves                \* counters for the bounds

provider == <<named, cache, handle>>
counters == <<calls, moves>>
vars == <<provider, pc, job, made, returned, accepted, allow_legacy_v1, counters>>

-----------------------------------------------------------------------------
(* Payloads and envelopes.                                                 *)

Payload(version, body, algorithm, key) ==
    [schema_version |-> version, body |-> body,
     signature_algorithm |-> algorithm, key_id |-> key]
Envelope(type, payload, signature, key) ==
    [signature_type |-> type, payload |-> payload,
     signature |-> signature, public_key |-> key]
Signature(key, message) == [key |-> key, message |-> message]

\* canonical_json(): exclude_none leaves the unset fields out.
canonical_json_KeyOnly(payload) ==
    [f \in {g \in DOMAIN payload \ {"body"} : payload[g] # None} |-> payload[f]]
canonical_json(payload) ==
    [f \in {g \in DOMAIN payload : payload[g] # None} |-> payload[f]]

\* SignatureVerifier.verify(): the key must have the scheme's encoding.
Fits(algorithm, key) == key \in IF algorithm = Ed25519 THEN Ed25519Keys ELSE P256Keys
verify(algorithm, key, signature, message) ==
    /\ Fits(algorithm, key)
    /\ key \in Weak \/ signature = Signature(key, message)

\* verify_envelope_signature() returns a SignatureCheck.
LegacyAllowed(e, allow) ==
    /\ allow
    /\ e.payload.signature_algorithm = None /\ e.payload.key_id = None
    /\ e.signature_type = Ed25519Local
Bound_AnyKey(e) ==
    /\ e.payload.signature_algorithm # None /\ e.payload.key_id # None
    /\ e.signature_type = e.payload.signature_algorithm
Bound(e) ==
    /\ e.payload.signature_algorithm # None /\ e.payload.key_id # None
    /\ e.signature_type = e.payload.signature_algorithm
    /\ e.payload.key_id = e.public_key
Algorithm(e) ==
    IF e.payload.schema_version = "1" THEN Ed25519 ELSE e.payload.signature_algorithm
verify_envelope_signature(e, allow) ==
    /\ CASE e.payload.schema_version = "1" -> LegacyAllowed(e, allow)
         [] e.payload.schema_version = "2" -> Bound(e)
    /\ Algorithm(e) \in verifiers
    /\ verify(Algorithm(e), e.public_key, e.signature, canonical_json(e.payload))

-----------------------------------------------------------------------------
\* What a release before 0.7.0 signed with a local key.
Legacy == {<<k, Payload("1", b, None, None)>> : k \in Ed25519Keys \ Weak, b \in Bodies}

NoJob == [body |-> None, key |-> None, envelope |-> None]
\* The keys a provider may have: the weak ones have no holder.
KeysFor(p) == (IF p \in Local THEN Ed25519Keys ELSE P256Keys) \ Weak

Init ==
    /\ named \in {f \in [Providers -> Keys] : \A p \in Providers : f[p] \in KeysFor(p)}
    /\ cache = [p \in Providers |-> None]
    /\ handle = [p \in Providers |-> None]
    /\ pc = [p \in Providers |-> IF p \in Hsm THEN "closed" ELSE "idle"]
    /\ job = [p \in Providers |-> NoJob]
    /\ made = Legacy
    /\ returned = {} /\ accepted = None
    /\ allow_legacy_v1 \in BOOLEAN
    /\ calls = 0 /\ moves = 0

Step(p, from, to) ==
    /\ pc[p] = from
    /\ pc' = [pc EXCEPT ![p] = to]

(* Pkcs11SignerProvider: the two objects with the label, one after the     *)
(* other.                                                                  *)

OpenPrivate(p) ==
    /\ p \in Hsm /\ Step(p, "closed", "opening")
    /\ handle' = [handle EXCEPT ![p] = named[p]]
    /\ UNCHANGED <<named, cache, job, made, returned, allow_legacy_v1, counters>>

OpenPublic(p) ==
    /\ Step(p, "opening", "idle")
    /\ cache' = [cache EXCEPT ![p] = named[p]]
    /\ UNCHANGED <<named, handle, job, made, returned, allow_legacy_v1, counters>>

\* A key is missing, or close(): the session is gone.
Close(p) ==
    /\ p \in Hsm /\ pc[p] \in {"opening", "idle"}
    /\ pc' = [pc EXCEPT ![p] = "closed"]
    /\ UNCHANGED <<provider, job, made, returned, allow_legacy_v1, counters>>

(* sign_with_provider()                                                    *)

ProviderAlgorithm(p) == IF p \in Local THEN Ed25519 ELSE EcdsaP256

Begin(p, body) ==
    /\ Step(p, "idle", "key")
    /\ calls < MaxCalls /\ calls' = calls + 1
    /\ ProviderAlgorithm(p) \in verifiers
    /\ job' = [job EXCEPT ![p] = [NoJob EXCEPT !.body = body]]
    /\ UNCHANGED <<provider, made, returned, allow_legacy_v1, moves>>

\* provider.public_key(): KMS is asked once, the others hold it already.
public_key(p) ==
    IF p \in Local THEN named[p] ELSE IF cache[p] # None THEN cache[p] ELSE named[p]
ReadPublicKey(p) ==
    /\ Step(p, "key", "sign")
    /\ Fits(ProviderAlgorithm(p), public_key(p))
    /\ cache' = IF p \in Kms THEN [cache EXCEPT ![p] = public_key(p)] ELSE cache
    /\ job' = [job EXCEPT ![p].key = public_key(p)]
    /\ UNCHANGED <<named, handle, made, returned, allow_legacy_v1, counters>>

\* provider.sign(payload): with the key that is named now, or held.
signing_key(p) == IF p \in Hsm THEN handle[p] ELSE named[p]
SignPayload(p) ==
    /\ Step(p, "sign", "check")
    /\ LET payload == Payload("2", job[p].body, ProviderAlgorithm(p), job[p].key)
           message == canonical_json(payload)
       IN /\ made' = made \cup {<<signing_key(p), payload>>}
          /\ job' = [job EXCEPT ![p].envelope =
                        Envelope(ProviderAlgorithm(p), payload,
                                 Signature(signing_key(p), message), job[p].key)]
    /\ UNCHANGED <<provider, returned, allow_legacy_v1, counters>>

\* The result is verified before it is returned, and the caller stores it.
SelfCheck_None(p) == TRUE
SelfCheck(p) == verify_envelope_signature(job[p].envelope, FALSE)

ReturnEnvelope(p) ==
    /\ Step(p, "check", "idle")
    /\ SelfCheck(p)
    /\ returned' = returned \cup {job[p].envelope}
    /\ UNCHANGED <<provider, job, made, allow_legacy_v1, counters>>

\* A provider call fails or returns unusable bytes, or the check fails:
\* SigningProviderError.
SignFails(p) ==
    /\ \/ pc[p] \in {"key", "sign"}
       \/ pc[p] = "check" /\ ~SelfCheck(p)
    /\ pc' = [pc EXCEPT ![p] = "idle"]
    /\ UNCHANGED <<provider, job, made, returned, allow_legacy_v1, counters>>

-----------------------------------------------------------------------------
(* The world around it.                                                    *)

\* A KMS alias or the label on a token is given to another key.
MoveName(p, key) ==
    /\ p \in Kms \cup Hsm /\ key \in KeysFor(p)
    /\ moves < MaxMoves /\ moves' = moves + 1
    /\ named' = [named EXCEPT ![p] = key]
    /\ UNCHANGED <<cache, handle, pc, job, made, returned, allow_legacy_v1, calls>>

\* What a signature file may hold.
Signatures == {Signature(m[1], canonical_json(m[2])) : m \in made}
Payloads ==
    [schema_version : {"1", "2"}, body : Bodies,
     signature_algorithm : {Ed25519, EcdsaP256, None}, key_id : Keys \cup {None}]
Envelopes ==
    [signature_type : {Ed25519, EcdsaP256, Ed25519Local}, payload : Payloads,
     signature : Signatures, public_key : Keys]

\* load_envelope() and verify_envelope_signature(): refusals change nothing.
\* (One verification after another says no more than each does.)
Verify ==
    /\ accepted = None
    /\ \E e \in Envelopes :
        /\ verify_envelope_signature(e, allow_legacy_v1)
        /\ accepted' = e
        /\ UNCHANGED <<provider, pc, job, made, returned, allow_legacy_v1, counters>>

-----------------------------------------------------------------------------
Use(p) ==
    \/ OpenPrivate(p) \/ OpenPublic(p) \/ Close(p)
    \/ \E body \in Bodies : Begin(p, body)
    \/ ReadPublicKey(p) \/ SignPayload(p) \/ ReturnEnvelope(p) \/ SignFails(p)
    \/ \E key \in Keys : MoveName(p, key)

Next == (\E p \in Providers : Use(p) /\ accepted' = None) \/ Verify
Spec == Init /\ [][Next]_vars

-----------------------------------------------------------------------------
(* Properties.                                                             *)

\* The docstring of sign_with_provider(): a name that now means another key
\* yields an error and never an envelope, whether it moved between reading
\* the key and signing, between two calls (the key is cached) or while the
\* token was opened.  An envelope returned was signed by the key it names.
ReturnedBySignedKey ==
    \A e \in returned :
        /\ e.public_key = e.payload.key_id
        /\ <<e.payload.key_id, e.payload>> \in made

\* Whatever fields of the file were edited, relabelled, downgraded to format
\* 1 or given another signature: what is accepted under a sound key is a
\* payload that its holder signed, field by field.
AcceptedWasSigned ==
    accepted # None /\ accepted.public_key \notin Weak =>
        <<accepted.public_key, accepted.payload>> \in made

\* "An attacker cannot relabel the algorithm or present the signature under
\* a different key": a payload that sign_with_provider() returned is
\* accepted with the key that signed it only, even if there are keys under
\* which everything verifies.
KeyCannotBeReplaced ==
    accepted # None =>
        \A r \in returned :
            accepted.payload = r.payload =>
                /\ accepted.public_key = r.public_key
                /\ accepted.signature_type = r.signature_type
=============================================================================
