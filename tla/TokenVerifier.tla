---------------------------- MODULE TokenVerifier ----------------------------
(***************************************************************************)
(* internal/adapters/oidc/verifier.go: the signing keys of the identity    *)
(* provider are cached, refreshed when a token names a key that is not     *)
(* cached or whose cache entry expired, and used somewhat longer while the *)
(* provider cannot be reached.  Every request refreshes for itself, so     *)
(* refreshes overlap and the document that was fetched first may be stored *)
(* last.                                                                   *)
(***************************************************************************)
EXTENDS Naturals

CONSTANTS
    Kid,             \* signing keys of the provider
    Call,            \* concurrent requests
    JWKSMinTTL, JWKSMaxTTL, JWKSStaleTTL,
    AdvisedTTL,      \* max-age values the provider answers with
    FetchTime,       \* longest time from the provider's answer to storing it
    MaxInstant       \* bound: time

(* OIDCConfig is validated: 0 < min <= max <= stale.                       *)
ASSUME TTLAssumption ==
    /\ JWKSMinTTL \in Nat \ {0} /\ JWKSMaxTTL \in Nat /\ JWKSStaleTTL \in Nat
    /\ JWKSMinTTL <= JWKSMaxTTL /\ JWKSMaxTTL <= JWKSStaleTTL
    /\ AdvisedTTL \subseteq Nat /\ FetchTime \in Nat /\ MaxInstant \in Nat

VARIABLES
    instant,
    published,   \* keys in the provider's document
    retired,     \* when a key left it; NotYet: it has not
    keys, expiresAt, staleAt,
    call         \* each request's progress through Verify

verifierVars == <<instant, published, retired, keys, expiresAt, staleAt, call>>

NotYet == MaxInstant + 1

(* now: key's reading of the clock.  document, ttl, at: what the provider  *)
(* answered and when.                                                      *)
NoCall == [pc |-> "idle"]
Looking == [pc : {"fetch", "recheck", "found"}, kid : Kid, now : Nat]
Storing == [pc : {"store"}, kid : Kid, now : Nat, document : SUBSET Kid,
            ttl : Nat, at : Nat]

VerifierTypeOK ==
    /\ instant \in Nat
    /\ published \subseteq Kid /\ keys \subseteq Kid
    /\ retired \in [Kid -> Nat]
    /\ expiresAt \in Nat /\ staleAt \in Nat
    /\ call \in [Call -> {NoCall} \cup Looking \cup Storing]

(* The provider's advice, clamped.                                         *)
Clamped(ttl) ==
    IF ttl < JWKSMinTTL THEN JWKSMinTTL ELSE IF ttl > JWKSMaxTTL THEN JWKSMaxTTL ELSE ttl

(* New fails without a live discovery and a usable document.               *)
VerifierInit ==
    /\ instant = 0
    /\ published \in SUBSET Kid \ {{}}
    /\ retired = [kid \in Kid |-> NotYet]
    /\ keys = published
    /\ \E ttl \in AdvisedTTL : expiresAt = Clamped(ttl)
    /\ staleAt = JWKSStaleTTL
    /\ call = [c \in Call |-> NoCall]

-----------------------------------------------------------------------------
(* The provider (external): a key is added once, and removed for good.     *)
AddKey(kid) ==
    /\ kid \notin published /\ retired[kid] = NotYet
    /\ published' = published \cup {kid}
    /\ UNCHANGED <<instant, retired, keys, expiresAt, staleAt, call>>

RetireKey(kid) ==
    /\ kid \in published
    /\ published' = published \ {kid}
    /\ retired' = [retired EXCEPT ![kid] = instant]
    /\ UNCHANGED <<instant, keys, expiresAt, staleAt, call>>

(* Time passes, but a document that was answered is stored within          *)
(* FetchTime (DiscoveryTimeout bounds reading it).                         *)
VerifierTick ==
    /\ instant < MaxInstant
    /\ \A c \in Call : call[c].pc = "store" => instant < call[c].at + FetchTime
    /\ instant' = instant + 1
    /\ UNCHANGED <<published, retired, keys, expiresAt, staleAt, call>>

-----------------------------------------------------------------------------
(* Verify: the header names a key; key reads the cache and the instant.    *)
Verify(c, kid) ==
    /\ call[c] = NoCall
    /\ call' = [call EXCEPT ![c] =
          IF kid \in keys /\ instant < expiresAt
          THEN [pc |-> "found", kid |-> kid, now |-> instant]
          ELSE [pc |-> "fetch", kid |-> kid, now |-> instant]]
    /\ UNCHANGED <<instant, published, retired, keys, expiresAt, staleAt>>

(* getJSON and the parsing of refresh.  The request may fail, time out or  *)
(* bring a document that is refused; one without usable keys always is.    *)
getJSON(c) ==
    /\ call[c].pc = "fetch"
    /\ \/ call' = [call EXCEPT ![c].pc = "recheck"]
       \/ /\ published # {}
          /\ \E ttl \in AdvisedTTL :
                call' = [call EXCEPT ![c] =
                   [pc |-> "store", kid |-> @.kid, now |-> @.now, document |-> published,
                    ttl |-> Clamped(ttl), at |-> instant]]
    /\ UNCHANGED <<instant, published, retired, keys, expiresAt, staleAt>>

(* refresh stores the document, whatever was stored meanwhile, with        *)
(* horizons counted from now.                                              *)
refresh(c) ==
    /\ call[c].pc = "store"
    /\ keys' = call[c].document
    /\ expiresAt' = instant + call[c].ttl
    /\ staleAt' = instant + JWKSStaleTTL
    /\ call' = [call EXCEPT ![c] =
          [pc |-> "recheck", kid |-> @.kid, now |-> @.now]]
    /\ UNCHANGED <<instant, published, retired>>

(* Slip: an outage never ends the use of a cached key.                     *)
KnownAtAll(kid, now) == kid \in keys

(* The second look, with the instant as it was before refreshing.          *)
WithinStale(kid, now) == kid \in keys /\ now < staleAt

(* Otherwise: unavailable after a failed refresh, unauthenticated else.    *)
key(c) ==
    /\ call[c].pc = "recheck"
    /\ call' = [call EXCEPT ![c] =
          IF WithinStale(@.kid, @.now)
          THEN [pc |-> "found", kid |-> @.kid, now |-> @.now] ELSE NoCall]
    /\ UNCHANGED <<instant, published, retired, keys, expiresAt, staleAt>>

(* Signature, claims and role mappings decide about the token with the key *)
(* that was found.                                                         *)
mapClaims(c) ==
    /\ call[c].pc = "found"
    /\ call' = [call EXCEPT ![c] = NoCall]
    /\ UNCHANGED <<instant, published, retired, keys, expiresAt, staleAt>>

VerifierNext ==
    \/ VerifierTick
    \/ \E kid \in Kid : AddKey(kid) \/ RetireKey(kid) \/ \E c \in Call : Verify(c, kid)
    \/ \E c \in Call : getJSON(c) \/ refresh(c) \/ key(c) \/ mapClaims(c)

-----------------------------------------------------------------------------
(* A key the provider has retired is not found for a token any more after  *)
(* the stale interval, though refreshes overlap, an old document may be    *)
(* stored last and stamped as fresh, and the provider may be unreachable   *)
(* ever since.                                                             *)
RetiredKeyExpires ==
    \A c \in Call : call[c].pc = "found" =>
        call[c].now < retired[call[c].kid] + FetchTime + JWKSStaleTTL

=============================================================================
