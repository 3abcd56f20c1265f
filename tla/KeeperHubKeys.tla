--------------------------- MODULE KeeperHubKeys ----------------------------
(***************************************************************************)
(* The KeeperHub key of an account (application/keeperhub_key.rs): the     *)
(* requests that connect, replace and forget it, and what a dispatch reads *)
(* of it.  A request's pc is the access it is about to make; KeeperHub and *)
(* the database may fail at any.                                           *)
(*                                                                         *)
(* A key is a model value, its wallet what KeeperHub says it executes as.  *)
(* Ciphertexts are abstracted to what opens them: the encryption key of    *)
(* the deployment that sealed them (domain/secret_box.rs).                 *)
(***************************************************************************)
EXTENDS Naturals, FiniteSets

CONSTANTS ApiKeys,       \* KeeperHub keys, good and bad ones
          Wallets,       \* the wallets KeeperHub executes as
          WalletOf,      \* [ApiKeys -> a wallet, or "none" for a rejected key]
          KeyRequests,   \* the slots of requests in progress
          MaxRotations   \* bound: changes of CREDENTIAL_ENCRYPTION_KEY

ASSUME KeysAssumption ==
    /\ WalletOf \in [ApiKeys -> Wallets \cup {"none"}]
    /\ "none" \notin ApiKeys \cup Wallets
    /\ MaxRotations \in Nat

VARIABLES credential,  \* the row of keeperhub_credentials, or NoCredential
          box,         \* the encryption key of this deployment
          keyRequest,  \* [KeyRequests -> a request, NoRequest if none]
          trail,       \* the keys whose connection the security events tell
          missed       \* the keys connected without an event, after a failure

keyVars == <<credential, box, keyRequest, trail, missed>>

Boxes == 0..MaxRotations

NoCredential == [key |-> "none", box |-> 0, wallet |-> "none"]

Credentials == [key: ApiKeys, box: Boxes, wallet: Wallets] \cup {NoCredential}

NoRequest == [pc |-> "idle", key |-> "none", wallet |-> "none"]

KeyRequestRows ==
    [pc: {"ask", "upsert", "connected", "disconnected"},
     key: ApiKeys \cup {"none"}, wallet: Wallets \cup {"none"}] \cup {NoRequest}

KeysInit == /\ credential = NoCredential
            /\ box = 0
            /\ keyRequest = [s \in KeyRequests |-> NoRequest]
            /\ trail = {}
            /\ missed = {}

Going(s, pc) == keyRequest[s].pc = pc

Goes(s, pc) == keyRequest' = [keyRequest EXCEPT ![s].pc = pc]

Answers(s) == keyRequest' = [keyRequest EXCEPT ![s] = NoRequest]

\* PUT /api/settings/keeperhub-key with a key that is not blank.
PutKey(s, k) ==
    /\ keyRequest[s] = NoRequest
    /\ keyRequest' = [keyRequest EXCEPT ![s] = [pc |-> "ask", key |-> k, wallet |-> "none"]]
    /\ UNCHANGED <<credential, box, trail, missed>>

\* What KeeperHub says of a key; it may also be out of reach.
Recognised(k) == WalletOf[k] # "none"

\* Mutant of AskWallet: a key that is not recognised is saved like another.
AskWalletAnyway(s) ==
    /\ Going(s, "ask")
    /\ keyRequest' = [keyRequest EXCEPT ![s].pc = "upsert",
                                        ![s].wallet = WalletOf[keyRequest[s].key]]
    /\ UNCHANGED <<credential, box, trail, missed>>

\* KeeperHubKeys::connect asks for the wallet of the key.
AskWallet(s) ==
    /\ Going(s, "ask")
    /\ \/ /\ Recognised(keyRequest[s].key)
          /\ keyRequest' = [keyRequest EXCEPT ![s].pc = "upsert",
                                              ![s].wallet = WalletOf[keyRequest[s].key]]
       \/ Answers(s)
    /\ UNCHANGED <<credential, box, trail, missed>>

\* SecretBox::seal with the key of this deployment.
Sealed(k, wallet) == [key |-> k, box |-> box, wallet |-> wallet]

\* Mutant of UpsertKey: the event is left to nobody.
UpsertKeySilently(s) ==
    /\ Going(s, "upsert")
    /\ credential' = Sealed(keyRequest[s].key, keyRequest[s].wallet)
    /\ Answers(s)
    /\ UNCHANGED <<box, trail, missed>>

\* The sealed key takes the place of what is stored; the date of the connection
\* it replaces, read just before, is left out.
UpsertKey(s) ==
    /\ Going(s, "upsert")
    /\ credential' = Sealed(keyRequest[s].key, keyRequest[s].wallet)
    /\ Goes(s, "connected")
    /\ UNCHANGED <<box, trail, missed>>

\* SecurityAudit::record.
Told(k) == trail \cup {k}

\* The security event of a connection, after which the request is answered.
RecordConnected(s) ==
    /\ Going(s, "connected")
    /\ trail' = Told(keyRequest[s].key)
    /\ missed' = missed \ {keyRequest[s].key}
    /\ Answers(s)
    /\ UNCHANGED <<credential, box>>

\* DELETE /api/settings/keeperhub-key: KeeperHubKeys::disconnect.
DeleteKey(s) ==
    /\ keyRequest[s] = NoRequest
    /\ credential # NoCredential
    /\ credential' = NoCredential
    /\ Goes(s, "disconnected")
    /\ UNCHANGED <<box, trail, missed>>

\* Its security event; which keys were connected stays known.
RecordDisconnected(s) ==
    /\ Going(s, "disconnected")
    /\ Answers(s)
    /\ UNCHANGED <<credential, box, trail, missed>>

\* The keys that requests have stored and not recorded.
Unrecorded(slots) ==
    {keyRequest[s].key : s \in {t \in slots : Going(t, "connected")}}

\* The database fails, or the client goes away and its handler with it.
KeyRequestFails(s) ==
    /\ keyRequest[s] # NoRequest
    /\ missed' = missed \cup (Unrecorded({s}) \ trail)
    /\ Answers(s)
    /\ UNCHANGED <<credential, box, trail>>

\* A deployment with another encryption key: requests in progress end, and
\* what was sealed before does not open any more.
Rotate ==
    /\ box < MaxRotations
    /\ box' = box + 1
    /\ missed' = missed \cup (Unrecorded(KeyRequests) \ trail)
    /\ keyRequest' = [s \in KeyRequests |-> NoRequest]
    /\ UNCHANGED <<credential, trail>>

KeysNext == \E s \in KeyRequests :
              \/ \E k \in ApiKeys : PutKey(s, k)
              \/ AskWallet(s) \/ UpsertKey(s) \/ RecordConnected(s)
              \/ DeleteKey(s) \/ RecordDisconnected(s) \/ KeyRequestFails(s)

\* SecretBox::open with the key of this deployment.
Opens(cred) == cred # NoCredential /\ cred.box = box

\* api_key_for, and dispatch_key when the read fails: no key then, and the
\* worker takes the one of its environment.
DispatchKeys == {"none"} \cup (IF Opens(credential) THEN {credential.key} ELSE {})

KeysTypeOK ==
    /\ credential \in Credentials
    /\ box \in Boxes
    /\ keyRequest \in [KeyRequests -> KeyRequestRows]
    /\ trail \subseteq ApiKeys
    /\ missed \subseteq ApiKeys
=============================================================================
