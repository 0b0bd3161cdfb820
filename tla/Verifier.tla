------------------------------ MODULE Verifier ------------------------------
(***************************************************************************)
(* verify_signature of verifier.py over the challenges of app.py and the   *)
(* message of protocol.py: which requests prove a wallet's address, in     *)
(* each verifier mode.  Clients send the addresses their wallets show; the *)
(* gateway derives its own from the key.  A Schnorr signature verifies     *)
(* exactly when its key's owner made it over that message.                 *)
(***************************************************************************)
EXTENDS KaspaAddress, FiniteSets

CONSTANTS Wallets,        \* keys with an owner who signs
          NoPoint,        \* a key that is no point of the curve
          Bytes,          \* the bytes of each
          Networks,       \* networks as clients spell them
          Modes,          \* values of signature_verifier_mode, valid or not
          MaxChallenges,  \* bound: challenges drafted
          MaxSignatures   \* bound: signatures made

VARIABLES mode,           \* settings.signature_verifier_mode
          challenges,     \* the challenges drafted, in order
          signatures,     \* what wallets have signed
          answer          \* the last request and what verify_signature said
vars == <<mode, challenges, signatures, answer>>

Keys == Wallets \cup {NoPoint}

Malformed == {"blank", "nonhex", "short"}
KeyText == Keys \cup Malformed \cup {"none"}

ASSUME KeysAssumption ==
    Bytes \in [Keys -> Seq(0..255)] /\ Keys \cap (Malformed \cup {"none"}) = {}

\* A challenge keeps its network as the client spelled it; only the native
\* mode strips it.
Lower(n) == IF n = " MainNet" THEN " mainnet" ELSE n
Normalized(n) == IF n = " MainNet" THEN "mainnet" ELSE n

NoAddress == [network |-> "none", symbols |-> <<>>]
\* The gateway's derivation, and the addresses that wallets show.
Derived == [k \in Keys |-> [n \in Supported |-> DerivedAddress(Bytes[k], n)]]
Shown == [k \in Keys |-> [n \in Supported |-> WalletAddress(Bytes[k], n)]]
Addresses == {Shown[k][Normalized(n)] : k \in Keys, n \in {m \in Networks : Normalized(m) \in Supported}}

\* An address may be sent in capitals and with spaces around it: what strip and
\* lower leave is the address.
Form == {"plain", "shouted"}
StripLower(text) == text.address

\* The message has the address, the nonce and the ticket, not the network.
Message(address, nonce) == [address |-> address, nonce |-> nonce]

\* No request was answered yet. A behaviour answers one: verify_signature
\* keeps nothing from one request to the next.
None == [challenge |-> 0, said |-> "none"]

Init ==
    /\ mode \in Modes
    /\ challenges = <<>>
    /\ signatures = {}
    /\ answer = None

\* The nonce is 32 random bytes: no two challenges share one.
CreateChallenge ==
    /\ answer = None /\ Len(challenges) < MaxChallenges
    /\ \E address \in Addresses, n \in Networks:
           challenges' = Append(challenges,
               [address |-> address, network |-> n,
                message |-> Message(address, Len(challenges) + 1)])
    /\ UNCHANGED <<mode, signatures, answer>>

\* A wallet signs the message of a challenge it was shown, or another text.
WalletSigns ==
    /\ answer = None /\ Cardinality(signatures) < MaxSignatures
    /\ \E w \in Wallets, i \in DOMAIN challenges, tampered \in BOOLEAN:
           signatures' = signatures \cup
               {[kind |-> "schnorr", key |-> w, challenge |-> i,
                 message |-> IF tampered THEN Message(NoAddress, i)
                                         ELSE challenges[i].message]}
    /\ UNCHANGED <<mode, challenges, answer>>

\* The demo signature names the challenge; hmac.compare_digest takes no text
\* outside ASCII.
Demo(i) == [kind |-> "demo", challenge |-> i]
Submitted == signatures \cup {Demo(i) : i \in DOMAIN challenges}
                        \cup [kind: Malformed \cup {"nonascii"}]
IsHex(s) == s.kind = "schnorr"

\* PublicKeyXOnly.verify
Verifies(k, s, message) == k \in Wallets /\ s.key = k /\ s.message = message

FirstFailure(checks) ==
    LET failing == {i \in DOMAIN checks: checks[i][1]}
        first == CHOOSE i \in failing: \A j \in failing: i <= j
    IN  IF failing = {} THEN "ok" ELSE checks[first][2]

\* Mutant: the key is checked against the signature, and the address is not derived.
NativeAnyAddress(c, r) ==
    FirstFailure(<<
          <<r.publicKey \in Malformed \cup {"none"}, "public_key_required">>,
          <<~IsHex(r.signature),                 "signature_invalid_hex">>,
          <<IsHex(r.signature) /\ ~Verifies(r.publicKey, r.signature, c.message),
                                                 "auth_signature_invalid">> >>)

\* _verify_native_signature, its checks in their order.
Native(c, r) ==
    LET n == Normalized(c.network)
    IN  FirstFailure(<<
          <<r.publicKey \in {"none", "blank"},   "public_key_required">>,
          <<r.publicKey = "nonhex",              "public_key_invalid_hex">>,
          <<r.publicKey = "short",               "public_key_invalid_length">>,
          <<r.signature.kind = "short",          "signature_invalid_length">>,
          <<~IsHex(r.signature),                 "signature_invalid_hex">>,
          <<n \notin Supported,                  "unsupported_network">>,
          <<r.publicKey \in Keys /\ n \in Supported /\ Derived[r.publicKey][n] # StripLower(r),
                                                 "address_does_not_match_public_key">>,
          <<IsHex(r.signature) /\ ~Verifies(r.publicKey, r.signature, c.message),
                                                 "auth_signature_invalid">> >>)

\* Demo mode. A text outside ASCII raises TypeError, which no handler expects.
Compared(i, r) ==
    FirstFailure(<<
          <<r.signature.kind = "nonascii",  "TypeError">>,
          <<r.signature # Demo(i),          "auth_signature_invalid">> >>)

\* verify_signature: two checks of every mode, then the mode's own. A mode
\* that is neither "disabled" nor "demo" is native.
Verify(i, r) ==
    LET c == challenges[i]
    IN  FirstFailure(<<
          <<c.address # StripLower(r),   "auth_challenge_address_mismatch">>,
          <<r.signature.kind = "blank",  "signature_required">>,
          <<mode \notin {"disabled", "demo"} /\ Native(c, r) # "ok", Native(c, r)>>,
          <<mode = "demo" /\ Compared(i, r) # "ok", Compared(i, r)>> >>)

\* What a successful verification reports for the session.
Report(i, r) ==
    CASE mode = "disabled" ->
             [verifier |-> mode, network |-> Lower(challenges[i].network),
              recorded |-> IF r.publicKey = "none" THEN "unverified" ELSE r.publicKey]
      [] mode = "demo" ->
             [verifier |-> mode, network |-> Lower(challenges[i].network),
              recorded |-> IF r.publicKey = "none" THEN "demo-public-key" ELSE r.publicKey]
      [] OTHER ->
             [verifier |-> "native", network |-> Normalized(challenges[i].network),
              recorded |-> r.publicKey]

Approve ==
    /\ answer = None
    /\ \E i, j \in DOMAIN challenges, f \in Form, s \in Submitted, k \in KeyText:
        LET r == [address |-> challenges[j].address, form |-> f, signature |-> s, publicKey |-> k]
            said == Verify(i, r)
        IN  answer' = [challenge |-> i, request |-> r, said |-> said,
                       report |-> IF said = "ok" THEN Report(i, r) ELSE None]
    /\ UNCHANGED <<mode, challenges, signatures>>

Next == CreateChallenge \/ WalletSigns \/ Approve
Spec == Init /\ [][Next]_vars

-----------------------------------------------------------------------------
(* Properties *)

Accepted == answer.said = "ok"
Challenge == challenges[answer.challenge]
ChecksSignatures == mode \notin {"disabled", "demo"}

\* In native mode, and in any mode the configuration should not have, a request
\* succeeds only with a signature by the wallet that shows the challenge's
\* address for the session's network, made over that challenge's own message
\* for no other challenge; the key that goes into the session is that wallet's.
SignerOwnsAddress ==
    Accepted /\ ChecksSignatures =>
        \E s \in signatures:
            /\ s.challenge = answer.challenge /\ s.message = Challenge.message
            /\ answer.report.network \in Supported
            /\ Shown[s.key][answer.report.network] = Challenge.address
            /\ answer.report.recorded = s.key

\* Whoever signed the challenge of the address the own wallet shows, and sends
\* key and address in whatever case and with whatever spaces, is not turned away.
OwnerIsAccepted ==
    (/\ answer # None /\ ChecksSignatures
     /\ answer.request.address = Challenge.address
     /\ Normalized(Challenge.network) \in Supported
     /\ answer.request.publicKey \in Wallets
     /\ Shown[answer.request.publicKey][Normalized(Challenge.network)] = Challenge.address
     /\ answer.request.signature \in signatures
     /\ answer.request.signature.key = answer.request.publicKey
     /\ answer.request.signature.message = Challenge.message) => Accepted
=============================================================================
