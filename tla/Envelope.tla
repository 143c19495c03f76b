------------------------------ MODULE Envelope ------------------------------
(***************************************************************************)
(* The signed envelope (internal/platform/envelope/envelope.go), the codec *)
(* around it (internal/platform/message/codec.go) and the two kinds of     *)
(* keys of internal/platform/crypto/keyring.go.                            *)
(*                                                                         *)
(* An envelope is a record with the fields subject, type, producer, key,   *)
(* occurred and expires; times are integers.  Strings that do not parse,   *)
(* sizes and base64 are left out: Sign makes well-formed envelopes only.   *)
(* A signature is right when it was made with the private half of the key  *)
(* the envelope names, which for an envelope of Sign is always so.         *)
(***************************************************************************)
EXTENDS Integers

CONSTANTS
    Keys,        \* signing keys, one for each (producer, key_id)
    ValidFrom,   \* of a key in the trusted-keys manifest
    ValidUntil,
    Skew,        \* config.ClockSkew
    EventMaxAge  \* the 24 hours Codec.Verify allows

ASSUME EnvelopeAssumption ==
    /\ ValidFrom \in [Keys -> Int] /\ ValidUntil \in [Keys -> Int]
    /\ Skew \in Nat
    /\ EventMaxAge \in Nat \ {0}

-----------------------------------------------------------------------------
(* Trusted keys and the data keyring                                       *)

\* LoadTrustedKeys refuses a key whose validity is empty.
LoadableManifest(trusted) ==
    trusted # {} /\ \A k \in trusted : ValidUntil[k] > ValidFrom[k]

\* TrustedKeys.Lookup finds key k at time at.
Lookup(trusted, k, at) ==
    k \in trusted /\ at >= ValidFrom[k] /\ at < ValidUntil[k]

\* LoadDataKeyring wants its active key among its keys.  That the active key
\* is not decrypt_only adds nothing, because Encrypt takes no other.
LoadableKeyring(ring) == ring.active \in ring.keys

\* Mutant: the key is looked up as the active one, whatever the row names.
Decrypts_ActiveOnly(ring, d) == d = ring.active

\* Decrypt finds the key a ciphertext names; Encrypt names the active one.
Decrypts(ring, d) == d \in ring.keys
Encrypts(ring) == ring.active

-----------------------------------------------------------------------------
(* Envelopes                                                               *)

\* The two timestamps, as validateFields compares them.
ValidateFields(env) == env.expires > env.occurred

\* The comparisons of Verify with what the subscription allows.
PolicyAllows(policy, env) ==
    /\ env.subject = policy.subject
    /\ env.type = policy.type
    /\ env.producer \in policy.producers

NotFromFuture(env, now) == env.occurred <= now + Skew

NotTooOld(env, now) == env.occurred >= now - EventMaxAge

\* Mutant: the age limit is taken to be enough.
NotExpired_AgeOnly(env, now) == NotTooOld(env, now)

NotExpired(env, now) == now <= env.expires + Skew

\* Mutant: the key has to be valid at the time of delivery.
Verify_KeyAtDelivery(env, trusted, policy, now) ==
    /\ ValidateFields(env)
    /\ PolicyAllows(policy, env)
    /\ NotFromFuture(env, now) /\ NotTooOld(env, now) /\ NotExpired(env, now)
    /\ Lookup(trusted, env.key, now)

\* Verify on a clock that shows now, with the manifest read at start-up.
Verify(env, trusted, policy, now) ==
    /\ ValidateFields(env)
    /\ PolicyAllows(policy, env)
    /\ NotFromFuture(env, now) /\ NotTooOld(env, now) /\ NotExpired(env, now)
    /\ Lookup(trusted, env.key, env.occurred)
=============================================================================
