---------------------------- MODULE SigningProofs ----------------------------
(***************************************************************************)
(* TLAPS proofs about Signing, for any keys, weak ones among them, any     *)
(* providers, payload bodies and number of calls and of moved names: what  *)
(* is returned and what is accepted was signed by the key it names.  And   *)
(* about TrustConfig, for any operators, objects, keys and number of       *)
(* commands: a revocation sticks, and flags never lift what the file says. *)
(***************************************************************************)
EXTENDS MCKeys, TLAPS

-----------------------------------------------------------------------------
(* The canonical form tells payloads apart, though unset fields are left   *)
(* out of it.                                                              *)

Fields == {"schema_version", "body", "signature_algorithm", "key_id"}

LEMMA CanonicalInjective ==
    ASSUME NEW a \in Payloads, NEW b \in Payloads, canonical_json(a) = canonical_json(b)
    PROVE  a = b
<1>1. DOMAIN a = Fields /\ DOMAIN b = Fields
  BY DEF Payloads, Fields
<1>2. ASSUME NEW f \in Fields
      PROVE  a[f] = b[f]
  <2>1. /\ canonical_json(a) = [g \in {x \in Fields : a[x] # None} |-> a[g]]
        /\ canonical_json(b) = [g \in {x \in Fields : b[x] # None} |-> b[g]]
    BY <1>1 DEF canonical_json
  <2>2. {x \in Fields : a[x] # None} = {x \in Fields : b[x] # None}
    BY <2>1
  <2> QED
    BY <2>1, <2>2
<1>3. /\ a.schema_version = b.schema_version /\ a.body = b.body
      /\ a.signature_algorithm = b.signature_algorithm /\ a.key_id = b.key_id
  BY <1>2 DEF Fields
<1> QED
  BY <1>3 DEF Payloads

LEMMA SignatureInjective ==
    ASSUME NEW k, NEW l, NEW m, NEW n, Signature(k, m) = Signature(l, n)
    PROVE  k = l /\ m = n
<1>1. /\ Signature(k, m).key = k /\ Signature(k, m).message = m
      /\ Signature(l, n).key = l /\ Signature(l, n).message = n
  BY DEF Signature
<1> QED
  BY <1>1

\* A signature that verifies under a sound key is one its holder made.
LEMMA VerifiedWasMade ==
    ASSUME made \subseteq Keys \X Payloads, NEW algorithm, NEW key, key \notin Weak,
           NEW payload \in Payloads, NEW signature \in Signatures,
           verify(algorithm, key, signature, canonical_json(payload))
    PROVE  <<key, payload>> \in made
<1>1. PICK m \in made : signature = Signature(m[1], canonical_json(m[2]))
  BY DEF Signatures
<1>2. signature = Signature(key, canonical_json(payload))
  BY DEF verify
<1>3. m[1] = key /\ canonical_json(m[2]) = canonical_json(payload)
  <2>1. Signature(m[1], canonical_json(m[2])) = Signature(key, canonical_json(payload))
    BY <1>1, <1>2
  <2> QED
    BY <2>1, SignatureInjective
<1>4. m[2] \in Payloads /\ m = <<m[1], m[2]>>
  OBVIOUS
<1> QED
  BY <1>3, <1>4, CanonicalInjective

-----------------------------------------------------------------------------
(* The inductive invariant.                                                *)

Pcs == {"closed", "opening", "idle", "key", "sign", "check"}

\* What a provider knows is one of its keys, and a token that is open has one.
KeysAreHeld ==
    /\ named \in [Providers -> Keys] /\ cache \in [Providers -> Keys \cup {None}]
    /\ handle \in [Providers -> Keys \cup {None}]
    /\ \A p \in Providers :
        /\ named[p] \in KeysFor(p) /\ cache[p] \in KeysFor(p) \cup {None}
        /\ p \in Hsm /\ pc[p] # "closed" => handle[p] \in KeysFor(p)

TypeOK ==
    /\ pc \in [Providers -> Pcs]
    /\ job = [p \in Providers |-> job[p]]
    /\ made \subseteq Keys \X Payloads
    /\ allow_legacy_v1 \in BOOLEAN

\* The envelope under way: of format 2, bound to the key that was read, which
\* is not weak, and signed by some key.
Made(p, e) ==
    \E body \in Bodies, key \in KeysFor(p), signer \in Keys :
        LET payload == Payload("2", body, ProviderAlgorithm(p), key) IN
        /\ e = Envelope(ProviderAlgorithm(p), payload,
                        Signature(signer, canonical_json(payload)), key)
        /\ <<signer, payload>> \in made
Underway(p) ==
    /\ pc[p] \in {"key", "sign", "check"} =>
        job[p] = [body |-> job[p].body, key |-> job[p].key, envelope |-> job[p].envelope]
    /\ pc[p] \in {"key", "sign"} => job[p].body \in Bodies
    /\ pc[p] = "sign" => job[p].key \in KeysFor(p)
    /\ pc[p] = "check" => Made(p, job[p].envelope)

\* What was returned is bound to its key, by a payload of format 2.
Returned(e) ==
    /\ e.payload.schema_version = "2" /\ e.signature_type = e.payload.signature_algorithm
    /\ e.public_key = e.payload.key_id /\ <<e.payload.key_id, e.payload>> \in made

\* What was accepted passed the check, with a signature from a file.
Accepted ==
    accepted # None =>
        accepted \in Envelopes /\ verify_envelope_signature(accepted, allow_legacy_v1)

Inv ==
    /\ TypeOK /\ KeysAreHeld
    /\ \A p \in Providers : Underway(p)
    /\ \A e \in returned : Returned(e)
    /\ Accepted

-----------------------------------------------------------------------------
(* Frames.                                                                 *)

LEMMA MadeStays ==
    ASSUME made \subseteq made', NEW p, NEW e, Made(p, e)
    PROVE  Made(p, e)'
BY DEF Made

LEMMA UndisturbedUnderway ==
    ASSUME NEW p \in Providers, Underway(p), pc'[p] = pc[p], job'[p] = job[p], made \subseteq made'
    PROVE  Underway(p)'
<1>1. PICK e : e = job[p].envelope
  OBVIOUS
<1>2. Made(p, e) => Made(p, e)'
  BY MadeStays
<1>3. pc'[p] = "check" => Made(p, job[p].envelope)'
  <2>1. pc[p] = "check" => Made(p, e)
    BY <1>1 DEF Underway
  <2>2. e = job'[p].envelope
    BY <1>1
  <2> QED
    BY <1>2, <2>1, <2>2 DEF Made
<1> QED
  BY <1>3 DEF Underway

\* A step of one provider's user keeps the invariant if its own part holds.
LEMMA UseStep ==
    ASSUME Inv, NEW p \in Providers, NEW to \in Pcs, NEW j,
           pc' = [pc EXCEPT ![p] = to], job' = [job EXCEPT ![p] = j],
           made \subseteq made', made' \subseteq Keys \X Payloads, returned' = returned,
           accepted' = None, allow_legacy_v1' = allow_legacy_v1, KeysAreHeld', Underway(p)'
    PROVE  Inv'
<1>1. TypeOK'
  BY DEF Inv, TypeOK
<1>2. ASSUME NEW o \in Providers
      PROVE  Underway(o)'
  <2>1. CASE o # p
    <3>1. pc'[o] = pc[o] /\ job'[o] = job[o]
      BY <2>1 DEF Inv, TypeOK
    <3> QED
      BY <3>1, UndisturbedUnderway DEF Inv
  <2> QED
    BY <2>1
<1>3. \A e \in returned' : Returned(e)'
  BY DEF Inv, Returned
<1> QED
  BY <1>1, <1>2, <1>3 DEF Inv, Accepted

-----------------------------------------------------------------------------
(* Steps.                                                                  *)

LEMMA KeysForKeys == \A p \in Providers : KeysFor(p) \subseteq Keys
BY DEF KeysFor, Keys

LEMMA InitInv ==
    ASSUME Init
    PROVE  Inv
<1>1. made \subseteq Keys \X Payloads
  <2>1. \A b \in Bodies : Payload("1", b, None, None) \in Payloads
    BY DEF Payload, Payloads
  <2> QED
    BY <2>1 DEF Init, Legacy, Keys
<1>2. TypeOK
  BY <1>1 DEF Init, TypeOK, Pcs
<1>3. KeysAreHeld
  BY DEF Init, KeysAreHeld
<1>4. (\A p \in Providers : Underway(p)) /\ (\A e \in returned : Returned(e)) /\ Accepted
  BY DEF Init, Underway, Accepted
<1> QED
  BY <1>2, <1>3, <1>4 DEF Inv

\* A token is opened, in two steps, or closed.
LEMMA TokenInv ==
    ASSUME Inv, NEW p \in Providers, OpenPrivate(p) \/ OpenPublic(p) \/ Close(p), accepted' = None
    PROVE  Inv'
<1>1. PICK to \in {"opening", "idle", "closed"} : pc' = [pc EXCEPT ![p] = to]
  BY DEF OpenPrivate, OpenPublic, Close, Step
<1>2. UNCHANGED <<named, job, made, returned, allow_legacy_v1>>
  BY DEF OpenPrivate, OpenPublic, Close, provider
<1>3. named[p] \in KeysFor(p) /\ named[p] \in Keys
  BY DEF Inv, KeysAreHeld
<1>4. KeysAreHeld'
  <2>1. CASE OpenPrivate(p)
    <3>1. handle' = [handle EXCEPT ![p] = named[p]] /\ cache' = cache
      BY <2>1 DEF OpenPrivate
    <3> QED
      BY <1>1, <1>2, <1>3, <3>1 DEF Inv, TypeOK, KeysAreHeld
  <2>2. CASE OpenPublic(p)
    <3>1. cache' = [cache EXCEPT ![p] = named[p]] /\ handle' = handle /\ pc[p] = "opening"
      BY <2>2 DEF OpenPublic, Step
    <3> QED
      BY <1>1, <1>2, <1>3, <3>1 DEF Inv, TypeOK, KeysAreHeld
  <2>3. CASE Close(p)
    <3>1. cache' = cache /\ handle' = handle /\ pc[p] # "closed"
      BY <2>3 DEF Close, provider
    <3> QED
      BY <1>1, <1>2, <3>1 DEF Inv, TypeOK, KeysAreHeld
  <2> QED
    BY <2>1, <2>2, <2>3
<1>5. job' = [job EXCEPT ![p] = job[p]] /\ pc'[p] = to
  BY <1>1, <1>2 DEF Inv, TypeOK
<1>6. Underway(p)'
  BY <1>1, <1>5 DEF Underway
<1> QED
  BY <1>1, <1>2, <1>4, <1>5, <1>6, UseStep DEF Inv, TypeOK, Pcs

LEMMA BeginInv ==
    ASSUME Inv, NEW p \in Providers, NEW body \in Bodies, Begin(p, body), accepted' = None
    PROVE  Inv'
<1> DEFINE j == [NoJob EXCEPT !.body = body]
<1>1. j = [body |-> body, key |-> None, envelope |-> None]
  BY DEF NoJob
<1>2. /\ pc[p] = "idle" /\ pc' = [pc EXCEPT ![p] = "key"] /\ job' = [job EXCEPT ![p] = j]
      /\ UNCHANGED <<named, cache, handle, made, returned, allow_legacy_v1>>
  BY DEF Begin, Step, provider
<1> HIDE DEF j
<1>3. pc'[p] = "key" /\ job'[p] = j
  BY <1>2 DEF Inv, TypeOK
<1>4. KeysAreHeld'
  BY <1>2 DEF Inv, TypeOK, KeysAreHeld
<1>5. j.body = body /\ j.key = None /\ j.envelope = None
  BY <1>1
<1>6. Underway(p)'
  BY <1>1, <1>3, <1>5 DEF Underway
<1> QED
  BY <1>2, <1>4, <1>6, UseStep DEF Inv, TypeOK, Pcs

LEMMA ReadPublicKeyInv ==
    ASSUME Inv, NEW p \in Providers, ReadPublicKey(p), accepted' = None
    PROVE  Inv'
<1>1. PICK k : k = public_key(p)
  OBVIOUS
<1>2. k \in KeysFor(p) /\ k \in Keys
  BY <1>1, KeysForKeys DEF Inv, KeysAreHeld, public_key
<1>3. /\ pc[p] = "key" /\ pc' = [pc EXCEPT ![p] = "sign"]
      /\ cache' = IF p \in Kms THEN [cache EXCEPT ![p] = k] ELSE cache
      /\ job' = [job EXCEPT ![p] = [job[p] EXCEPT !.key = k]]
      /\ UNCHANGED <<named, handle, made, returned, allow_legacy_v1>>
  BY <1>1 DEF ReadPublicKey, Step
<1>4. /\ job[p].body \in Bodies
      /\ job[p] = [body |-> job[p].body, key |-> job[p].key, envelope |-> job[p].envelope]
  BY <1>3 DEF Inv, Underway
<1> DEFINE j == [job[p] EXCEPT !.key = k]
<1>5. /\ j = [body |-> j.body, key |-> j.key, envelope |-> j.envelope]
      /\ j.key = k /\ j.body = job[p].body
  BY <1>4
<1> HIDE DEF j
<1>6. pc'[p] = "sign" /\ job'[p] = j
  BY <1>3 DEF Inv, TypeOK, j
<1>7. KeysAreHeld'
  BY <1>2, <1>3 DEF Inv, TypeOK, KeysAreHeld
<1>8. Underway(p)'
  BY <1>2, <1>4, <1>5, <1>6 DEF Underway
<1> QED
  BY <1>3, <1>7, <1>8, UseStep DEF Inv, TypeOK, Pcs, j

\* The payload commits to the key that was read; another may sign it.
LEMMA SignPayloadInv ==
    ASSUME Inv, NEW p \in Providers, SignPayload(p), accepted' = None
    PROVE  Inv'
<1>1. PICK body, key, signer : body = job[p].body /\ key = job[p].key /\ signer = signing_key(p)
  OBVIOUS
<1>2. PICK payload : payload = Payload("2", body, ProviderAlgorithm(p), key)
  OBVIOUS
<1>3. PICK e : e = Envelope(ProviderAlgorithm(p), payload,
                            Signature(signer, canonical_json(payload)), key)
  OBVIOUS
<1>4. /\ pc[p] = "sign" /\ pc' = [pc EXCEPT ![p] = "check"]
      /\ made' = made \cup {<<signer, payload>>}
      /\ job' = [job EXCEPT ![p] = [job[p] EXCEPT !.envelope = e]]
      /\ UNCHANGED <<named, cache, handle, returned, allow_legacy_v1>>
  BY <1>1, <1>2, <1>3 DEF SignPayload, Step, provider
<1>5. /\ body \in Bodies /\ key \in KeysFor(p) /\ key \in Keys
      /\ job[p] = [body |-> job[p].body, key |-> job[p].key, envelope |-> job[p].envelope]
  BY <1>1, <1>4, KeysForKeys DEF Inv, Underway
<1>6. signer \in Keys
  BY <1>1, <1>4, KeysForKeys DEF Inv, KeysAreHeld, signing_key
<1>7. payload \in Payloads
  BY <1>2, <1>5 DEF Payload, Payloads, ProviderAlgorithm
<1> DEFINE j == [job[p] EXCEPT !.envelope = e]
<1>8. /\ j = [body |-> j.body, key |-> j.key, envelope |-> j.envelope]
      /\ j.envelope = e
  BY <1>5
<1> HIDE DEF j
<1>9. pc'[p] = "check" /\ job'[p] = j
  BY <1>4 DEF Inv, TypeOK, j
<1>10. KeysAreHeld'
  BY <1>4 DEF Inv, TypeOK, KeysAreHeld
<1>11. Made(p, e)'
  BY <1>2, <1>3, <1>4, <1>5, <1>6 DEF Made
<1>12. Made(p, job[p].envelope)'
  BY <1>8, <1>9, <1>11 DEF Made
<1>13. Underway(p)'
  BY <1>8, <1>9, <1>12 DEF Underway
<1>14. made' \subseteq Keys \X Payloads
  BY <1>4, <1>6, <1>7 DEF Inv, TypeOK
<1> QED
  BY <1>4, <1>10, <1>13, <1>14, UseStep DEF Inv, TypeOK, Pcs, j

\* The check before the return finds out whether another key signed.
LEMMA ReturnEnvelopeInv ==
    ASSUME Inv, NEW p \in Providers, ReturnEnvelope(p), accepted' = None
    PROVE  Inv'
<1>1. PICK e : e = job[p].envelope
  OBVIOUS
<1>2. /\ pc[p] = "check" /\ pc' = [pc EXCEPT ![p] = "idle"] /\ returned' = returned \cup {e}
      /\ verify_envelope_signature(e, FALSE)
      /\ UNCHANGED <<named, cache, handle, job, made, allow_legacy_v1>>
  BY <1>1 DEF ReturnEnvelope, Step, provider, SelfCheck
<1>3. Made(p, e)
  BY <1>1, <1>2 DEF Inv, Underway
<1>4. PICK body \in Bodies, key \in KeysFor(p), signer \in Keys :
        LET payload == Payload("2", body, ProviderAlgorithm(p), key) IN
        /\ e = Envelope(ProviderAlgorithm(p), payload,
                        Signature(signer, canonical_json(payload)), key)
        /\ <<signer, payload>> \in made
  BY <1>3 DEF Made
<1>5. PICK payload : payload = Payload("2", body, ProviderAlgorithm(p), key)
  OBVIOUS
<1>6. PICK signature : signature = Signature(signer, canonical_json(payload))
  OBVIOUS
<1>7. e = Envelope(ProviderAlgorithm(p), payload, signature, key) /\ <<signer, payload>> \in made
  BY <1>4, <1>5, <1>6
<1>8. /\ payload.schema_version = "2" /\ payload.key_id = key
      /\ payload.signature_algorithm = ProviderAlgorithm(p)
  BY <1>5 DEF Payload
<1>9. /\ e.payload = payload /\ e.signature = signature /\ e.public_key = key
      /\ e.signature_type = ProviderAlgorithm(p)
  BY <1>7 DEF Envelope
<1>10. verify(Algorithm(e), e.public_key, e.signature, canonical_json(e.payload))
  BY <1>2 DEF verify_envelope_signature
<1>11. key \notin Weak
  BY DEF KeysFor
<1>12. signature = Signature(key, canonical_json(payload))
  BY <1>9, <1>10, <1>11 DEF verify
<1>13. signer = key
  BY <1>6, <1>12, SignatureInjective
<1>14. Returned(e)
  BY <1>7, <1>8, <1>9, <1>13 DEF Returned
<1>15. \A x \in returned' : Returned(x)'
  BY <1>2, <1>14 DEF Inv, Returned
<1>16. TypeOK' /\ KeysAreHeld'
  BY <1>2 DEF Inv, TypeOK, KeysAreHeld, Pcs
<1>17. ASSUME NEW o \in Providers
       PROVE  Underway(o)'
  <2>1. CASE o # p
    <3>1. pc'[o] = pc[o] /\ job'[o] = job[o]
      BY <1>2, <2>1 DEF Inv, TypeOK
    <3> QED
      BY <1>2, <3>1, UndisturbedUnderway DEF Inv
  <2>2. CASE o = p
    BY <1>2, <2>2 DEF Inv, TypeOK, Underway
  <2> QED
    BY <2>1, <2>2
<1> QED
  BY <1>15, <1>16, <1>17 DEF Inv, Accepted

LEMMA SignFailsInv ==
    ASSUME Inv, NEW p \in Providers, SignFails(p), accepted' = None
    PROVE  Inv'
<1>1. /\ pc' = [pc EXCEPT ![p] = "idle"] /\ pc[p] # "closed"
      /\ UNCHANGED <<named, cache, handle, job, made, returned, allow_legacy_v1>>
  BY DEF SignFails, provider
<1>2. job' = [job EXCEPT ![p] = job[p]] /\ pc'[p] = "idle"
  BY <1>1 DEF Inv, TypeOK
<1>3. KeysAreHeld'
  BY <1>1 DEF Inv, TypeOK, KeysAreHeld
<1>4. Underway(p)'
  BY <1>2 DEF Underway
<1> QED
  BY <1>1, <1>2, <1>3, <1>4, UseStep DEF Inv, TypeOK, Pcs

LEMMA MoveNameInv ==
    ASSUME Inv, NEW p \in Providers, NEW key \in Keys, MoveName(p, key), accepted' = None
    PROVE  Inv'
<1>1. /\ key \in KeysFor(p) /\ named' = [named EXCEPT ![p] = key]
      /\ UNCHANGED <<cache, handle, pc, job, made, returned, allow_legacy_v1>>
  BY DEF MoveName
<1>2. KeysAreHeld'
  BY <1>1 DEF Inv, KeysAreHeld
<1>3. \A o \in Providers : Underway(o)'
  BY <1>1, UndisturbedUnderway DEF Inv
<1> QED
  BY <1>1, <1>2, <1>3 DEF Inv, TypeOK, Returned, Accepted

LEMMA VerifyInv ==
    ASSUME Inv, Verify
    PROVE  Inv'
<1>1. PICK e \in Envelopes :
        /\ verify_envelope_signature(e, allow_legacy_v1) /\ accepted' = e
        /\ UNCHANGED <<named, cache, handle, pc, job, made, returned, allow_legacy_v1>>
  BY DEF Verify, provider
<1>2. \A o \in Providers : Underway(o)'
  BY <1>1, UndisturbedUnderway DEF Inv
<1>3. Accepted'
  <2>1. Envelopes' = Envelopes
    BY <1>1 DEF Envelopes, Signatures
  <2> QED
    BY <1>1, <2>1 DEF Accepted
<1>4. TypeOK' /\ KeysAreHeld' /\ \A x \in returned' : Returned(x)'
  BY <1>1 DEF Inv, TypeOK, KeysAreHeld, Returned
<1> QED
  BY <1>2, <1>3, <1>4 DEF Inv

LEMMA StutterInv ==
    ASSUME Inv, UNCHANGED vars
    PROVE  Inv'
<1>1. UNCHANGED <<named, cache, handle, pc, job, made, returned, accepted, allow_legacy_v1>>
  BY DEF vars, provider
<1>2. \A o \in Providers : Underway(o)'
  BY <1>1, UndisturbedUnderway DEF Inv
<1>3. Accepted'
  <2>1. Envelopes' = Envelopes
    BY <1>1 DEF Envelopes, Signatures
  <2> QED
    BY <1>1, <2>1 DEF Inv, Accepted
<1>4. TypeOK' /\ KeysAreHeld' /\ \A x \in returned' : Returned(x)'
  BY <1>1 DEF Inv, TypeOK, KeysAreHeld, Returned
<1> QED
  BY <1>2, <1>3, <1>4 DEF Inv

LEMMA NextInv ==
    ASSUME Inv, [Next]_vars
    PROVE  Inv'
<1>1. ASSUME NEW p \in Providers, Use(p), accepted' = None
      PROVE  Inv'
  BY <1>1, TokenInv, BeginInv, ReadPublicKeyInv, SignPayloadInv, ReturnEnvelopeInv, SignFailsInv,
     MoveNameInv
  DEF Use
<1> QED
  BY <1>1, VerifyInv, StutterInv DEF Next

-----------------------------------------------------------------------------
(* Theorems.                                                               *)

\* What providers hold and return stays bound to its key, whatever names move.
THEOREM Invariance == Spec => []Inv
<1>1. Init => Inv
  BY InitInv
<1>2. Inv /\ [Next]_vars => Inv'
  BY NextInv
<1> QED
  BY <1>1, <1>2, PTL DEF Spec

\* sign_with_provider() never returns an envelope signed by another key than
\* the one it names: the check after provider.sign() finds the mismatch.
THEOREM EnvelopesAreBound == Spec => []ReturnedBySignedKey
<1>1. Inv => ReturnedBySignedKey
  BY DEF Inv, Returned, ReturnedBySignedKey
<1> QED
  BY <1>1, Invariance, PTL

\* verify_envelope_signature() accepts under a sound key only payloads that its
\* holder signed, however the fields of signature files are recombined.
THEOREM AcceptanceMeansSigned == Spec => []AcceptedWasSigned
<1>1. Inv => AcceptedWasSigned
  <2> SUFFICES ASSUME Inv, accepted # None, accepted.public_key \notin Weak
               PROVE  <<accepted.public_key, accepted.payload>> \in made
    BY DEF AcceptedWasSigned
  <2>1. accepted \in Envelopes /\ verify_envelope_signature(accepted, allow_legacy_v1)
    BY DEF Inv, Accepted
  <2>2. accepted.payload \in Payloads /\ accepted.signature \in Signatures
    BY <2>1 DEF Envelopes
  <2>3. verify(Algorithm(accepted), accepted.public_key, accepted.signature,
               canonical_json(accepted.payload))
    BY <2>1 DEF verify_envelope_signature
  <2> QED
    BY <2>2, <2>3, VerifiedWasMade DEF Inv, TypeOK
<1> QED
  BY <1>1, Invariance, PTL

\* A payload that was returned is accepted with its own key and algorithm only:
\* format 2 commits to both.
THEOREM KeysCannotBeReplaced == Spec => []KeyCannotBeReplaced
<1>1. Inv => KeyCannotBeReplaced
  <2> SUFFICES ASSUME Inv, accepted # None, NEW r \in returned, accepted.payload = r.payload
               PROVE  /\ accepted.public_key = r.public_key
                      /\ accepted.signature_type = r.signature_type
    BY DEF KeyCannotBeReplaced
  <2>1. verify_envelope_signature(accepted, allow_legacy_v1) /\ Returned(r)
    BY DEF Inv, Accepted
  <2>2. accepted.payload.schema_version = "2"
    BY <2>1 DEF Returned
  <2>3. Bound(accepted)
    BY <2>1, <2>2 DEF verify_envelope_signature
  <2> QED
    BY <2>1, <2>3 DEF Returned, Bound
<1> QED
  BY <1>1, Invariance, PTL

-----------------------------------------------------------------------------
(* The trust configuration.                                                *)

\* The key's entry refuses whatever claims are made.
Refuses(config, k) == k \in DOMAIN config /\ config[k].status # "active"

Saving == {"write", "fill", "replace"}

\* What a command has in memory: a configuration that refuses every revoked
\* key but the one it removes, and the key it revokes.
Rotates(o) ==
    LET j == trustJob[o]
    IN  trustPc[o] # "idle" =>
        /\ j.config \in Configs
        /\ \A k \in standing : Refuses(j.config, k) \/ (j.command = "remove" /\ j.key = k)
        /\ j.command = "revoke" => Refuses(j.config, j.key)
        /\ trustPc[o] = "replace" => tmp[o] = j.config

TrustInv ==
    /\ file \in Configs \cup {None}
    /\ trustPc \in [Operators -> Saving \cup {"idle"}]
    /\ tmp = [o \in Operators |-> tmp[o]] /\ trustJob = [o \in Operators |-> trustJob[o]]
    /\ guard = [g \in Guards |-> guard[g]]
    /\ \A k \in standing : file # None /\ Refuses(file, k)
    /\ \A o \in Operators : Rotates(o)
    /\ \A g \in Guards : guard[g] # None =>
        \A k \in DOMAIN guard[g].loaded : guard[g].trust[k] = guard[g].loaded[k]

\* Neither an absent file nor a torn one is a configuration.
LEMMA ConfigsAreTold == None \notin Configs /\ Torn \notin Configs
<1>1. \A S \in SUBSET Fingerprints : None \notin [S -> TrustEntry] /\ Torn \notin [S -> TrustEntry]
  BY ConfigsAssumption
<1> QED
  BY <1>1 DEF Configs

\* Changing or deleting one entry leaves the others.
LEMMA ConfigWith ==
    ASSUME NEW config \in Configs, NEW k \in Fingerprints, NEW entry \in TrustEntry
    PROVE  /\ Trust!With(config, k, entry) \in Configs
           /\ k \in DOMAIN Trust!With(config, k, entry)
           /\ Trust!With(config, k, entry)[k] = entry
           /\ \A x \in DOMAIN config \ {k} : /\ x \in DOMAIN Trust!With(config, k, entry)
                                             /\ Trust!With(config, k, entry)[x] = config[x]
<1>1. PICK S \in SUBSET Fingerprints : config \in [S -> TrustEntry]
  BY DEF Configs
<1>2. PICK c : c = Trust!With(config, k, entry)
  OBVIOUS
<1>3. c = [x \in S \cup {k} |-> IF x = k THEN entry ELSE config[x]]
  BY <1>1, <1>2 DEF Trust!With
<1>4. c \in [S \cup {k} -> TrustEntry] /\ S \cup {k} \in SUBSET Fingerprints
  BY <1>1, <1>3
<1>5. c \in Configs
  BY <1>4 DEF Configs
<1> QED
  BY <1>1, <1>2, <1>3, <1>5

LEMMA ConfigWithout ==
    ASSUME NEW config \in Configs, NEW k
    PROVE  /\ Trust!Without(config, k) \in Configs
           /\ \A x \in DOMAIN config \ {k} : /\ x \in DOMAIN Trust!Without(config, k)
                                             /\ Trust!Without(config, k)[x] = config[x]
<1>1. PICK S \in SUBSET Fingerprints : config \in [S -> TrustEntry]
  BY DEF Configs
<1>2. PICK c : c = Trust!Without(config, k)
  OBVIOUS
<1>3. c = [x \in S \ {k} |-> config[x]]
  BY <1>1, <1>2 DEF Trust!Without
<1>4. c \in [S \ {k} -> TrustEntry] /\ S \ {k} \in SUBSET Fingerprints
  BY <1>1, <1>3
<1>5. c \in Configs
  BY <1>4 DEF Configs
<1> QED
  BY <1>1, <1>2, <1>3, <1>5

LEMMA ConfigEntry ==
    ASSUME NEW config \in Configs, NEW k \in DOMAIN config
    PROVE  config[k] \in TrustEntry
BY DEF Configs

\* A command starts from a configuration that refuses the revoked keys.
LEMMA CommandInv ==
    ASSUME TrustInv, NEW o \in Operators, NEW config \in Configs, NEW command, NEW k,
           Trust!Command(o, config, command, k),
           \A x \in standing : Refuses(config, x) \/ (command = "remove" /\ k = x),
           command = "revoke" => Refuses(config, k)
    PROVE  TrustInv'
<1>1. PICK j : j = [config |-> config, command |-> command, key |-> k]
  OBVIOUS
<1>2. j.config = config /\ j.command = command /\ j.key = k
  BY <1>1
<1>3. /\ trustPc' = [trustPc EXCEPT ![o] = "write"] /\ trustJob' = [trustJob EXCEPT ![o] = j]
      /\ UNCHANGED <<file, now, tmp, guard, standing>>
  BY <1>1 DEF Trust!Command
<1>4. /\ trustPc' \in [Operators -> Saving \cup {"idle"}]
      /\ trustJob' = [p \in Operators |-> trustJob'[p]]
      /\ trustPc'[o] = "write" /\ trustJob'[o] = j
      /\ \A p \in Operators : p # o => trustPc'[p] = trustPc[p] /\ trustJob'[p] = trustJob[p]
  BY <1>3 DEF TrustInv, Saving
<1>5. Rotates(o)'
  BY <1>2, <1>3, <1>4 DEF Rotates, Refuses
<1>6. \A p \in Operators : p # o => Rotates(p)'
  BY <1>3, <1>4 DEF TrustInv, Rotates, Refuses
<1> QED
  BY <1>3, <1>4, <1>5, <1>6 DEF TrustInv, Refuses

\* add-key, retire-key, revoke-key and remove-key build such a configuration.
LEMMA RotationInv ==
    ASSUME TrustInv, NEW o \in Operators, NEW k \in Fingerprints,
           \/ \E entry \in Trust!Entries : Trust!AddKey(o, k, entry)
           \/ \E until \in Trust!Times : Trust!RetireKey(o, k, until)
           \/ Trust!RevokeKey(o, k) \/ Trust!RemoveKey(o, k)
    PROVE  TrustInv'
<1>1. CASE \E entry \in Trust!Entries : Trust!AddKey(o, k, entry)
  <2>1. PICK entry \in Trust!Entries : Trust!AddKey(o, k, entry)
    BY <1>1
  <2>2. PICK loaded : loaded = Trust!Loaded
    OBVIOUS
  <2>3. loaded \in Configs /\ (file # None => loaded = file)
    <3>1. Trust!NoConfig \in [{} -> TrustEntry]
      BY DEF Trust!NoConfig
    <3>2. Trust!NoConfig \in Configs
      BY <3>1 DEF Configs
    <3> QED
      BY <2>2, <3>2 DEF Trust!Loaded, TrustInv
  <2>4. entry \in TrustEntry
    BY <2>1, ConfigsAssumption DEF Trust!Entries, TrustEntry
  <2>5. PICK config : config = Trust!With(loaded, k, entry)
    OBVIOUS
  <2>6. k \notin DOMAIN loaded /\ Trust!Command(o, config, "add", k)
    BY <2>1, <2>2, <2>5 DEF Trust!AddKey
  <2>7. config \in Configs /\ \A x \in DOMAIN loaded : Refuses(loaded, x) => Refuses(config, x)
    BY <2>3, <2>4, <2>5, <2>6, ConfigWith DEF Refuses
  <2>8. \A x \in standing : Refuses(config, x)
    BY <2>3, <2>7 DEF TrustInv, Refuses
  <2> QED
    BY <2>6, <2>7, <2>8, CommandInv
<1>2. ASSUME Trust!Known(k)
      PROVE  file \in Configs /\ k \in DOMAIN file /\ file[k] \in TrustEntry
  BY <1>2, ConfigEntry DEF TrustInv, Trust!Known
<1>3. ASSUME Trust!Known(k), NEW entry \in TrustEntry, entry.status # "active", NEW command,
             Trust!Command(o, Trust!With(file, k, entry), command, k)
      PROVE  TrustInv'
  <2>1. PICK config : config = Trust!With(file, k, entry)
    OBVIOUS
  <2>2. /\ config \in Configs /\ Refuses(config, k)
        /\ \A x \in DOMAIN file : Refuses(file, x) => Refuses(config, x)
    BY <1>2, <1>3, <2>1, ConfigWith DEF Refuses
  <2>3. \A x \in standing : Refuses(config, x)
    BY <2>2 DEF TrustInv, Refuses
  <2> QED
    BY <1>3, <2>1, <2>2, <2>3, CommandInv
<1>4. CASE \E until \in Trust!Times : Trust!RetireKey(o, k, until)
  <2>1. PICK until \in Trust!Times : Trust!RetireKey(o, k, until)
    BY <1>4
  <2>2. Trust!Known(k)
    BY <2>1 DEF Trust!RetireKey
  <2>3. PICK old : old = file[k] /\ old \in TrustEntry
    BY <1>2, <2>2
  <2>4. PICK window : window = <<old.window[1], IF until # None THEN until ELSE old.window[2]>>
    OBVIOUS
  <2>5. until \in Moments
    BY <2>1, ConfigsAssumption DEF Trust!Times
  <2>6. old.window[1] \in Moments /\ old.window[2] \in Moments
    BY <2>3 DEF TrustEntry
  <2>7. window \in Moments \X Moments
    BY <2>4, <2>5, <2>6
  <2>8. PICK half : half = [old EXCEPT !.status = "retired"]
    OBVIOUS
  <2>9. half \in TrustEntry /\ half.status = "retired"
    BY <2>3, <2>8 DEF TrustEntry, Trust!Status
  <2>10. PICK entry : entry = [half EXCEPT !.window = window]
    OBVIOUS
  <2>11. entry \in TrustEntry /\ entry.status = "retired"
    BY <2>7, <2>9, <2>10 DEF TrustEntry
  <2>12. Trust!Command(o, Trust!With(file, k, entry), "retire", k)
    BY <2>1, <2>3, <2>4, <2>8, <2>10 DEF Trust!RetireKey
  <2> QED
    BY <1>3, <2>2, <2>11, <2>12
<1>5. CASE Trust!RevokeKey(o, k)
  <2>1. Trust!Known(k)
    BY <1>5 DEF Trust!RevokeKey
  <2>2. PICK old : old = file[k] /\ old \in TrustEntry
    BY <1>2, <2>1
  <2>3. PICK entry : entry = [old EXCEPT !.status = "revoked"]
    OBVIOUS
  <2>4. entry \in TrustEntry /\ entry.status = "revoked"
    BY <2>2, <2>3 DEF TrustEntry, Trust!Status
  <2>5. Trust!Command(o, Trust!With(file, k, entry), "revoke", k)
    BY <1>5, <2>2, <2>3 DEF Trust!RevokeKey
  <2> QED
    BY <1>3, <2>1, <2>4, <2>5
<1>6. CASE Trust!RemoveKey(o, k)
  <2>1. PICK config : config = Trust!Without(file, k)
    OBVIOUS
  <2>2. Trust!Known(k) /\ Trust!Command(o, config, "remove", k)
    BY <1>6, <2>1 DEF Trust!RemoveKey
  <2>3. /\ config \in Configs
        /\ \A x \in DOMAIN file : Refuses(file, x) => Refuses(config, x) \/ x = k
    BY <1>2, <2>1, <2>2, ConfigWithout DEF Refuses
  <2>4. \A x \in standing : Refuses(config, x) \/ k = x
    BY <2>3 DEF TrustInv, Refuses
  <2> QED
    BY <2>2, <2>3, <2>4, CommandInv
<1> QED
  BY <1>1, <1>4, <1>5, <1>6

\* Writing the temporary file, and giving up on it.
LEMMA SavingInv ==
    ASSUME TrustInv, NEW o \in Operators,
           Trust!TruncateTmp(o) \/ Trust!FillTmp(o) \/ Trust!SaveFails(o) \/ Trust!Crash(o)
    PROVE  TrustInv'
<1>1. UNCHANGED <<file, guard, standing>>
  BY DEF Trust!TruncateTmp, Trust!FillTmp, Trust!SaveFails, Trust!Crash
<1>2. /\ trustPc' \in [Operators -> Saving \cup {"idle"}]
      /\ \A p \in Operators : p # o => trustPc'[p] = trustPc[p]
  BY DEF TrustInv, Saving, Trust!TruncateTmp, Trust!FillTmp, Trust!SaveFails, Trust!Crash
<1>3. /\ tmp' = [p \in Operators |-> tmp'[p]]
      /\ trustJob' = [p \in Operators |-> trustJob'[p]]
      /\ \A p \in Operators : p # o => tmp'[p] = tmp[p] /\ trustJob'[p] = trustJob[p]
  BY DEF TrustInv, Trust!TruncateTmp, Trust!FillTmp, Trust!SaveFails, Trust!Crash
<1>4. (trustPc[o] # "idle" /\ trustJob'[o] = trustJob[o]) \/ trustPc'[o] = "idle"
  BY DEF TrustInv, Trust!TruncateTmp, Trust!FillTmp, Trust!SaveFails, Trust!Crash
<1>5. trustPc'[o] = "replace" => tmp'[o] = trustJob[o].config
  BY DEF TrustInv, Trust!TruncateTmp, Trust!FillTmp, Trust!SaveFails, Trust!Crash
<1>6. Rotates(o)'
  BY <1>1, <1>4, <1>5 DEF TrustInv, Rotates, Refuses
<1>7. \A p \in Operators : p # o => Rotates(p)'
  BY <1>1, <1>2, <1>3 DEF TrustInv, Rotates, Refuses
<1> QED
  BY <1>1, <1>2, <1>3, <1>6, <1>7 DEF TrustInv, Refuses

\* The rename: alone, the command's configuration refuses what is revoked;
\* overlapping, nothing is promised any more.
LEMMA ReplaceInv ==
    ASSUME TrustInv, NEW o \in Operators, Trust!Replace(o)
    PROVE  TrustInv'
<1>1. /\ trustPc[o] = "replace" /\ trustPc' = [trustPc EXCEPT ![o] = "idle"]
      /\ file' = tmp[o] /\ tmp' = [tmp EXCEPT ![o] = None]
      /\ trustJob' = [trustJob EXCEPT ![o] = Trust!NoJob] /\ UNCHANGED guard
  BY DEF Trust!Replace
<1>2. PICK j : j = trustJob[o]
  OBVIOUS
<1>3. /\ file' = j.config /\ j.config \in Configs
      /\ \A k \in standing : Refuses(j.config, k) \/ (j.command = "remove" /\ j.key = k)
      /\ j.command = "revoke" => Refuses(j.config, j.key)
  BY <1>1, <1>2 DEF TrustInv, Rotates
<1>4. /\ trustPc' \in [Operators -> Saving \cup {"idle"}] /\ trustPc'[o] = "idle"
      /\ \A p \in Operators : p # o =>
            trustPc'[p] = trustPc[p] /\ tmp'[p] = tmp[p] /\ trustJob'[p] = trustJob[p]
      /\ tmp' = [p \in Operators |-> tmp'[p]] /\ trustJob' = [p \in Operators |-> trustJob'[p]]
  BY <1>1 DEF TrustInv, Saving
<1>5. file' # None
  BY <1>3, ConfigsAreTold
<1>6. CASE \E p \in Operators \ {o} : trustPc[p] # "idle"
  <2>1. standing' = {}
    BY <1>6 DEF Trust!Replace
  <2>2. \A p \in Operators : Rotates(p)'
    BY <1>1, <1>4, <2>1 DEF TrustInv, Rotates, Refuses
  <2> QED
    BY <1>1, <1>3, <1>4, <1>5, <2>1, <2>2 DEF TrustInv, Refuses
<1>7. CASE ~\E p \in Operators \ {o} : trustPc[p] # "idle"
  <2>1. standing' = CASE j.command = "revoke" -> standing \cup {j.key}
                      [] j.command = "remove" -> standing \ {j.key}
                      [] OTHER -> standing
    BY <1>2, <1>7 DEF Trust!Replace
  <2>2. \A k \in standing' : Refuses(j.config, k)
    BY <1>3, <2>1
  <2>3. \A p \in Operators : Rotates(p)'
    BY <1>4, <1>7 DEF Rotates
  <2> QED
    BY <1>1, <1>3, <1>4, <1>5, <2>2, <2>3 DEF TrustInv, Refuses
<1> QED
  BY <1>6, <1>7

\* An object takes from the file every entry that the file has.
LEMMA ConstructInv ==
    ASSUME TrustInv, NEW g \in Guards, NEW flags \in SUBSET Fingerprints, Trust!Construct(g, flags)
    PROVE  TrustInv'
<1>1. PICK merged : merged = Trust!merge_trust_configs(Trust!build_minimal_trust_config(flags), file)
  OBVIOUS
<1>2. /\ merged # None
      /\ guard' = [guard EXCEPT ![g] = [loaded |-> file, trust |-> merged]]
      /\ UNCHANGED <<file, trustPc, tmp, trustJob, standing>>
  BY <1>1 DEF Trust!Construct
<1>3. PICK flagged : flagged = Trust!build_minimal_trust_config(flags)
  OBVIOUS
<1>4. merged = [k \in DOMAIN flagged \cup DOMAIN file |->
                    IF k \in DOMAIN file THEN file[k] ELSE flagged[k]]
  BY <1>1, <1>2, <1>3 DEF Trust!merge_trust_configs
<1>5. \A k \in DOMAIN file : merged[k] = file[k]
  BY <1>4
<1>6. PICK object : object = [loaded |-> file, trust |-> merged]
  OBVIOUS
<1>7. object.loaded = file /\ object.trust = merged
  BY <1>6
<1>8. /\ guard' = [h \in Guards |-> guard'[h]] /\ guard'[g] = object
      /\ \A h \in Guards : h # g => guard'[h] = guard[h]
  BY <1>2, <1>6 DEF TrustInv
<1>9. \A h \in Guards : guard'[h] # None =>
          \A k \in DOMAIN guard'[h].loaded : guard'[h].trust[k] = guard'[h].loaded[k]
  BY <1>5, <1>7, <1>8 DEF TrustInv
<1>10. \A p \in Operators : Rotates(p)'
  BY <1>2 DEF TrustInv, Rotates, Refuses
<1> QED
  BY <1>2, <1>8, <1>9, <1>10 DEF TrustInv, Refuses

LEMMA DiscardInv ==
    ASSUME TrustInv, NEW g \in Guards, Trust!Discard(g)
    PROVE  TrustInv'
<1>1. /\ guard' = [guard EXCEPT ![g] = None]
      /\ UNCHANGED <<file, trustPc, tmp, trustJob, standing>>
  BY DEF Trust!Discard
<1>2. /\ guard' = [h \in Guards |-> guard'[h]] /\ guard'[g] = None
      /\ \A h \in Guards : h # g => guard'[h] = guard[h]
  BY <1>1 DEF TrustInv
<1>3. \A h \in Guards : guard'[h] # None =>
          \A k \in DOMAIN guard'[h].loaded : guard'[h].trust[k] = guard'[h].loaded[k]
  BY <1>2 DEF TrustInv
<1>4. \A p \in Operators : Rotates(p)'
  BY <1>1 DEF TrustInv, Rotates, Refuses
<1> QED
  BY <1>1, <1>2, <1>3, <1>4 DEF TrustInv, Refuses

\* The invariant: what is on disk, and what every command in progress is
\* about to put there, refuses every key that stands revoked, and an object's
\* entry for a key the file lists is the file's.
THEOREM TrustInvariance == Trust!Spec => []TrustInv
<1>1. Trust!Init => TrustInv
  <2> SUFFICES ASSUME Trust!Init PROVE TrustInv
    OBVIOUS
  <2>1. /\ trustPc \in [Operators -> Saving \cup {"idle"}]
        /\ tmp = [o \in Operators |-> tmp[o]] /\ trustJob = [o \in Operators |-> trustJob[o]]
        /\ guard = [g \in Guards |-> guard[g]]
    BY DEF Trust!Init, Saving
  <2>2. \A o \in Operators : Rotates(o)
    BY DEF Trust!Init, Rotates
  <2> QED
    BY <2>1, <2>2 DEF Trust!Init, TrustInv
<1>2. TrustInv /\ [Trust!Next]_(Trust!vars) => TrustInv'
  <2> SUFFICES ASSUME TrustInv, [Trust!Next]_(Trust!vars) PROVE TrustInv'
    OBVIOUS
  <2>1. ASSUME NEW o \in Operators, Trust!Rotate(o) PROVE TrustInv'
    BY <2>1, RotationInv, SavingInv, ReplaceInv DEF Trust!Rotate
  <2>2. ASSUME NEW g \in Guards,
               Trust!Discard(g) \/ \E flags \in SUBSET Fingerprints : Trust!Construct(g, flags)
        PROVE  TrustInv'
    BY <2>2, DiscardInv, ConstructInv
  <2>3. ASSUME UNCHANGED <<file, trustPc, tmp, trustJob, guard, standing>> PROVE TrustInv'
    <3>1. \A p \in Operators : Rotates(p)'
      BY <2>3 DEF TrustInv, Rotates, Refuses
    <3> QED
      BY <2>3, <3>1 DEF TrustInv, Refuses
  <2>4. CASE Trust!Tick \/ UNCHANGED Trust!vars
    BY <2>3, <2>4 DEF Trust!Tick, Trust!vars
  <2> QED
    BY <2>1, <2>2, <2>4 DEF Trust!Next
<1> QED
  BY <1>1, <1>2, PTL DEF Trust!Spec

\* While no two rotation commands overlap, a key whose revoke-key returned is
\* trusted by no object constructed afterwards, for any number of operators,
\* keys and crashes; and however many commands overlap, the file is whole.
THEOREM RevocationsStick == Trust!Spec => []RevocationSticks
<1>1. TrustInv => RevocationSticks
  BY ConfigsAreTold, ConfigsAssumption
  DEF TrustInv, Refuses, RevocationSticks, Trust!RevocationSticks, Trust!Readable, Trust!Known,
         Trust!evaluate_trust
<1> QED
  BY <1>1, TrustInvariance, PTL

\* A fingerprint given on the command line never lifts what the file says of a key.
THEOREM FlagsNeverOverride == Trust!Spec => []FlagsCannotOverride
<1>1. TrustInv => FlagsCannotOverride
  BY DEF TrustInv, FlagsCannotOverride, Trust!FlagsCannotOverride, Trust!evaluate_trust
<1> QED
  BY <1>1, TrustInvariance, PTL

-----------------------------------------------------------------------------
(* Both together.                                                          *)

\* Rotation and signing do not touch each other's state: where the two are
\* model-checked together, the trust configuration behaves as by itself.
THEOREM RotationIsIndependent == KeysSpec => Trust!Spec
<1>1. KeysInit => Trust!Init
  BY DEF KeysInit
<1>2. [KeysNext]_<<part, signingVars, trustVars>> => [Trust!Next]_(Trust!vars)
  BY DEF KeysNext, trustVars, Trust!vars
<1> QED
  BY <1>1, <1>2, PTL DEF KeysSpec, Trust!Spec
=============================================================================
