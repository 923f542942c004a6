----------------------------- MODULE LoginData -----------------------------
(***************************************************************************)
(* The wire types of challenge and login, common to the two servers that   *)
(* speak the protocol: crates/demo-server (DemoAuth) and                   *)
(* examples/coffee-fastapi-server (FastApiLogin).                          *)
(***************************************************************************)
EXTENDS Naturals, FiniteSets

CONSTANTS
  Challenge,    \* challenge ids; random in the code, so never minted twice
  Identity,     \* (session, Skill, user DID, agent DID) tuples
  User,         \* user DIDs
  UserOf,       \* the user DID of an identity
  Requests,     \* the login requests clients send
  Configs,      \* the configurations a server may be started with
  Ttl,          \* challenge_ttl_ms, in clock ticks
  Nobody,       \* the identity of a challenge that was never minted
  NoRequest,    \* the request of a task that serves no login
  Malformed     \* a signedChallenge that is no proof at all

\* A DockDidChallengeProof: the payload that was signed (its challenge stands
\* for the id, nonce, audience and times that are unique to it), the DID of the
\* key id, and whether the signature verifies under that DID's document.
Proof == [challenge : Challenge, identity : Identity,
          keyDid : User, verifies : BOOLEAN]

Request == [merchant : BOOLEAN,   \* names this server's merchant DID
            challenge : Challenge,
            identity : Identity,
            proof : Proof \cup {Malformed}]

\* Whether the server has a token issuer, and the DIDs whose documents it trusts.
Config == [issuer : BOOLEAN, trusted : SUBSET User]

ASSUME LoginDataAssumption ==
  /\ UserOf \in [Identity -> User]
  /\ Requests \subseteq Request
  /\ Configs \subseteq Config
  /\ Ttl \in Nat \ {0}
  /\ Nobody \notin Identity
  /\ NoRequest \notin Request
  /\ Malformed \notin Proof

NotMinted == [identity |-> Nobody, expires |-> 0]

\* What a server keeps of a challenge: whom it was minted for, and until when.
MintedRecord == [identity : Identity, expires : Nat] \cup {NotMinted}

============================================================================
