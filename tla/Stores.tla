-------------------------------- MODULE Stores --------------------------------
(***************************************************************************)
(* The eight remote stores of dynamic-config-python-remote: what their     *)
(* constructors accept, how a fetch resolves its credential, and the client *)
(* or slot through which the credential reaches the request.               *)
(*                                                                         *)
(* Source: python/dynamic_config_remote/_*.py and src/*.rs of that package. *)
(*                                                                         *)
(* A credential is the version of each rotating part of it: an argument    *)
(* that may be a callable, asked on every fetch.  Parts that never change  *)
(* (mounts, roles, paths, user names that are plain strings) are left out. *)
(***************************************************************************)
EXTENDS Integers, Sequences, FiniteSets

CONSTANTS Fetches,       \* the calls of fetch(), on any threads
          MaxRotations,  \* bound on the rotations of the credential
          Nobody         \* no fetch, no client

ASSUME StoresAssumption == MaxRotations \in Nat /\ Nobody \notin Fetches

VARIABLES
    config,      \* the arguments the store was built with
    state,       \* whether the constructor took them
    version,     \* the version of the credential outside
    built,       \* the cached client: the credential inside it, or Nobody
    clients,     \* the credentials of the clients built so far
    lock,        \* the fetch holding the lock on the client, or git's reading
    slot,        \* the credential of the slot (git, s3)
    pc,
    args,        \* what each fetch has resolved so far
    sent,        \* what each fetch's request carried
    overlapped   \* history: the fetches that ran beside another

storeVars == <<built, clients, lock, slot>>
callVars == <<pc, args, sent>>
vars == <<config, state, version, storeVars, callVars, overlapped>>

-----------------------------------------------------------------------------
(* What can be asked for: kinds of credential with the parts that rotate.   *)

Parts == {"first", "second", "third"}
Pair == {"first", "second"}
First == {"first"}
Second == {"second"}

\* Stores whose credentials are optional arguments: any subset can be written.
OptionalArguments == [redis |-> Pair, etcd |-> Pair, s3 |-> Parts]

VaultAuth ==
    [token |-> First, app_role |-> Pair, kubernetes |-> {}, jwt |-> First,
     userpass |-> Second, ldap |-> Second, certificate |-> {}]

ConsulAuth ==
    [anonymous |-> {}, token |-> First, kubernetes |-> {}, jwt |-> First]

NatsAuth ==
    [anonymous |-> {}, token |-> First, user_and_password |-> Second,
     nkey_seed |-> First, credentials |-> First]

FirestoreAuth == [emulator |-> {}, access_token |-> First, metadata_server |-> {}]

GitAuth ==
    [anonymous |-> {}, token |-> Second, basic |-> Second, ssh_agent |-> {},
     ssh_key |-> {}, ssh_command |-> First]

Auths ==
    [vault |-> VaultAuth, consul |-> ConsulAuth, nats |-> NatsAuth,
     firestore |-> FirestoreAuth, git |-> GitAuth]

Tls == {"none", "ca file", "ca bytes", "client files", "client bytes"}
Urls(store) ==
    CASE store = "git" -> {"https", "http", "ssh"}
      [] store = "redis" -> {"plain", "tls"}
      [] OTHER -> {"any"}

Configs ==
    {[store |-> s, kind |-> "arguments", parts |-> p, url |-> u, tls |-> t] :
        s \in DOMAIN OptionalArguments, p \in SUBSET Parts,
        u \in {"any", "plain", "tls"}, t \in Tls}
    \cup
    UNION {{[store |-> s, kind |-> k, parts |-> Auths[s][k], url |-> u, tls |-> t] :
              k \in DOMAIN Auths[s], u \in Urls(s), t \in Tls} : s \in DOMAIN Auths}

Writable(c) ==
    /\ c.url \in Urls(c.store)
    /\ c.kind = "arguments" => c.parts \subseteq OptionalArguments[c.store]

-----------------------------------------------------------------------------
(* The constructors.                                                       *)

Half(c) == Cardinality(c.parts \cap Pair) = 1

EtcdRefuses(c) == c.store = "etcd" /\ Half(c)

S3Refuses(c) == c.store = "s3" /\
    \/ Half(c)
    \/ "third" \in c.parts /\ "first" \notin c.parts
    \/ c.tls \in {"client files", "client bytes"}

NatsRefuses(c) == c.store = "nats" /\ c.tls \in {"ca bytes", "client bytes"}

Transport(kind) ==
    CASE kind = "anonymous" -> "any"
      [] kind \in {"token", "basic"} -> "https"
      [] OTHER -> "ssh"

OneTransport(c) == c.store = "git" /\
    \/ Transport(c.kind) = "https" /\ c.url = "ssh"
    \/ Transport(c.kind) = "ssh" /\ c.url # "ssh"
    \/ c.tls # "none" /\ c.url # "https"

Refused(c) == EtcdRefuses(c) \/ S3Refuses(c) \/ NatsRefuses(c) \/ OneTransport(c)

-----------------------------------------------------------------------------
(* The credential as the compiled half takes it.                           *)

NoCredential == [p \in {} |-> 0]

\* One half of a pair on its own is no credential at all; Redis' password
\* without a user is, and an auth method is taken as it is.
Normalised(store, a) ==
    IF store \in {"etcd", "s3"} /\ ~ Pair \subseteq DOMAIN a THEN NoCredential ELSE a

\* What a failure's message is scrubbed of.
RedisSecrets == Second
EtcdSecrets == Second
S3Secrets == {"second", "third"}
VaultSecrets(kind) ==
    CASE kind \in {"token", "jwt"} -> First
      [] kind \in {"app_role", "userpass", "ldap"} -> Second
      [] OTHER -> {}
ConsulSecrets(kind) == IF kind \in {"token", "jwt"} THEN First ELSE {}
NatsSecrets(kind) ==
    CASE kind \in {"token", "nkey_seed", "credentials"} -> First
      [] kind = "user_and_password" -> Second
      [] OTHER -> {}
FirestoreSecrets(kind) == IF kind = "access_token" THEN First ELSE {}

\* Mutant: only what goes in a header is secret.
GitSecretsOfHttps(kind) == IF kind \in {"token", "basic"} THEN Second ELSE {}

GitSecrets(kind) ==
    CASE kind \in {"token", "basic"} -> Second
      [] kind = "ssh_command" -> First
      [] OTHER -> {}

Secrets(c) ==
    CASE c.store = "redis" -> RedisSecrets
      [] c.store = "etcd" -> EtcdSecrets
      [] c.store = "s3" -> S3Secrets
      [] c.store = "vault" -> VaultSecrets(c.kind)
      [] c.store = "consul" -> ConsulSecrets(c.kind)
      [] c.store = "nats" -> NatsSecrets(c.kind)
      [] c.store = "firestore" -> FirestoreSecrets(c.kind)
      [] c.store = "git" -> GitSecrets(c.kind)

\* What a repr hides of the same credential, which is what the facade holds to
\* be secret.
Hidden(c) ==
    CASE c.store \in {"redis", "etcd"} -> Second
      [] c.store = "s3" -> {"second", "third"}
      [] c.store = "vault" /\ c.kind \in {"token", "jwt"} -> First
      [] c.store = "vault" /\ c.kind \in {"app_role", "userpass", "ldap"} -> Second
      [] c.store = "consul" /\ c.kind \in {"token", "jwt"} -> First
      [] c.store = "nats" /\ c.kind = "user_and_password" -> Second
      [] c.store = "nats" /\ c.kind \notin {"user_and_password", "anonymous"} -> First
      [] c.store = "firestore" /\ c.kind = "access_token" -> First
      [] c.store = "git" /\ c.kind \in {"token", "basic"} -> Second
      [] c.store = "git" /\ c.kind = "ssh_command" -> First
      [] OTHER -> {}

Valued(a, parts) == {<<p, a[p]>> : p \in DOMAIN a \cap parts}

-----------------------------------------------------------------------------

\* A part that was never asked for has no version.
Credentials == UNION {[parts -> 0..MaxRotations] : parts \in SUBSET Parts}

TypeOK ==
    /\ config \in Configs /\ Writable(config)
    /\ state \in {"new", "ready", "refused"}
    /\ version \in 0..MaxRotations
    /\ built \in Credentials \cup {Nobody}
    /\ clients \in Seq(Credentials)
    /\ lock \in Fetches \cup {Nobody}
    /\ slot \in Credentials
    /\ pc \in [Fetches -> {"idle", "resolving", "resolved", "slotted", "locked",
                           "building", "connected", "returned", "raised"}]
    /\ args \in [Fetches -> Credentials]
    /\ sent \in [Fetches -> Credentials \cup {Nobody}]
    /\ overlapped \subseteq Fetches

Init ==
    /\ config \in {c \in Configs : Writable(c)}
    /\ state = "new"
    /\ version = 0
    /\ built = Nobody
    /\ clients = <<>>
    /\ lock = Nobody
    /\ slot = NoCredential
    /\ pc = [f \in Fetches |-> "idle"]
    /\ args = [f \in Fetches |-> NoCredential]
    /\ sent = [f \in Fetches |-> Nobody]
    /\ overlapped = {}

At(f, p) == pc[f] = p
Goto(f, p) == pc' = [pc EXCEPT ![f] = p]
Active == {f \in Fetches : pc[f] \notin {"idle", "returned", "raised"}}

\* What the compiled half makes of a fetch's arguments.
Own(f) == Normalised(config.store, args[f])

\* What a cached client is compared by.  S3's signs with whatever the slot holds,
\* so only the presence of a key pair is in it.
ClientKey(f) == IF config.store = "s3" THEN [p \in DOMAIN Own(f) |-> 0] ELSE Own(f)

Construct ==
    /\ state = "new"
    /\ state' = IF Refused(config) THEN "refused" ELSE "ready"
    /\ UNCHANGED <<config, version, storeVars, callVars, overlapped>>

\* A new credential is issued; a callable answers with it from now on.
Rotate ==
    /\ state = "ready" /\ version < MaxRotations
    /\ version' = version + 1
    /\ UNCHANGED <<config, state, storeVars, callVars, overlapped>>

-----------------------------------------------------------------------------
(* A fetch: resolve on the caller's thread, then the compiled half.         *)

Begin(f) ==
    /\ state = "ready" /\ At(f, "idle")
    /\ Goto(f, "resolving")
    /\ overlapped' = overlapped \cup (IF Active = {} THEN {} ELSE Active \cup {f})
    /\ UNCHANGED <<config, state, version, storeVars, args, sent>>

Unresolved(f) == config.parts \ DOMAIN args[f]

\* The parts in the order the facade asks for them.
NextPart(f) ==
    CHOOSE p \in Unresolved(f) :
        \/ p = "first"
        \/ p = "second" /\ "first" \notin Unresolved(f)
        \/ Unresolved(f) = {"third"}

\* resolve(): one call per part, and any Python may run between two of them.
Resolve(f) ==
    /\ At(f, "resolving") /\ Unresolved(f) # {}
    /\ args' = [args EXCEPT ![f] =
           [p \in DOMAIN @ \cup {NextPart(f)} |->
               IF p = NextPart(f) THEN version ELSE @[p]]]
    /\ UNCHANGED <<config, state, version, storeVars, pc, sent, overlapped>>

\* A callable raises, or answers with something that is no string.
ResolveFails(f) ==
    /\ At(f, "resolving") /\ Unresolved(f) # {}
    /\ Goto(f, "raised")
    /\ UNCHANGED <<config, state, version, storeVars, args, sent, overlapped>>

Resolved(f) ==
    /\ At(f, "resolving") /\ Unresolved(f) = {}
    /\ Goto(f, "resolved")
    /\ UNCHANGED <<config, state, version, storeVars, args, sent, overlapped>>

\* S3 writes the slot under no lock that covers the request.
WriteKeys(f) ==
    /\ At(f, "resolved") /\ config.store = "s3"
    /\ slot' = IF Own(f) = NoCredential THEN slot ELSE Own(f)
    /\ Goto(f, "slotted")
    /\ UNCHANGED <<config, state, version, built, clients, lock, args, sent, overlapped>>

\* Mutant: the client is looked at under no lock.
AcquireFreely(f) ==
    /\ At(f, IF config.store = "s3" THEN "slotted" ELSE "resolved")
    /\ lock' = f
    /\ Goto(f, "locked")
    /\ UNCHANGED <<config, state, version, built, clients, slot, args, sent, overlapped>>

\* The lock on the cached client, or the one git reads under.
Acquire(f) ==
    /\ At(f, IF config.store = "s3" THEN "slotted" ELSE "resolved")
    /\ lock = Nobody
    /\ lock' = f
    /\ Goto(f, "locked")
    /\ UNCHANGED <<config, state, version, built, clients, slot, args, sent, overlapped>>

\* Mutant: the first client serves every credential.
ReuseAny(f) ==
    /\ At(f, "locked") /\ config.store # "git" /\ built # Nobody
    /\ lock' = Nobody
    /\ Goto(f, "connected")
    /\ sent' = [sent EXCEPT ![f] = built]
    /\ UNCHANGED <<config, state, version, built, clients, slot, args, overlapped>>

\* The cached client was built with this credential.  What it was built with is
\* what the fetch will present.
Reuse(f) ==
    /\ At(f, "locked") /\ config.store # "git"
    /\ built = ClientKey(f)
    /\ lock' = Nobody
    /\ Goto(f, "connected")
    /\ sent' = [sent EXCEPT ![f] = built]
    /\ UNCHANGED <<config, state, version, built, clients, slot, args, overlapped>>

\* The first fetch, or the credential moved.
Rebuild(f) ==
    /\ At(f, "locked") /\ config.store # "git"
    /\ built # ClientKey(f)
    /\ Goto(f, "building")
    /\ UNCHANGED <<config, state, version, storeVars, args, sent, overlapped>>

\* TLS material on a plain Redis URL is refused here, every time.
Unbuildable == config.store = "redis" /\ config.url = "plain" /\ config.tls # "none"

\* The lock is held across the build.
Build(f) ==
    /\ At(f, "building") /\ ~ Unbuildable
    /\ built' = ClientKey(f)
    /\ clients' = Append(clients, ClientKey(f))
    /\ lock' = Nobody
    /\ Goto(f, "connected")
    /\ sent' = [sent EXCEPT ![f] = ClientKey(f)]
    /\ UNCHANGED <<config, state, version, slot, args, overlapped>>

\* No connection, no login, no file: what was built before stays.
BuildFails(f) ==
    /\ At(f, "building") /\ config.store # "vault"
    /\ lock' = Nobody
    /\ Goto(f, "raised")
    /\ UNCHANGED <<config, state, version, built, clients, slot, args, sent, overlapped>>

\* Git keeps one source for good; its credential is the slot's.
WriteCredential(f) ==
    /\ At(f, "locked") /\ config.store = "git"
    /\ slot' = Own(f)
    /\ Goto(f, "connected")
    /\ UNCHANGED <<config, state, version, built, clients, lock, args, sent, overlapped>>

\* The request: S3 and git read the slot now, and git lets the next reader in.
Request(f) ==
    /\ At(f, "connected")
    /\ sent' = [sent EXCEPT ![f] =
           IF config.store = "git" \/ (config.store = "s3" /\ @ # NoCredential)
           THEN slot ELSE @]
    /\ lock' = IF config.store = "git" THEN Nobody ELSE lock
    /\ Goto(f, "returned")
    /\ UNCHANGED <<config, state, version, built, clients, slot, args, overlapped>>

-----------------------------------------------------------------------------

Next ==
    \/ Construct \/ Rotate
    \/ \E f \in Fetches :
        \/ Begin(f) \/ Resolve(f) \/ ResolveFails(f) \/ Resolved(f)
        \/ WriteKeys(f) \/ Acquire(f)
        \/ Reuse(f) \/ Rebuild(f) \/ Build(f) \/ BuildFails(f)
        \/ WriteCredential(f) \/ Request(f)

Spec == Init /\ [][Next]_vars

-----------------------------------------------------------------------------
(* Properties.                                                             *)

\* A request carries all of the credential its own fetch resolved, never the one
\* a client was cached with before a rotation, never another fetch's, and never
\* none because half of what was given is not enough for the store.  Only S3
\* promises less, to fetches that overlap (read of s3.rs).
UsesItsOwn ==
    \A f \in Fetches :
        At(f, "returned") /\ (config.store = "s3" => f \notin overlapped) =>
            sent[f] = args[f] /\ DOMAIN args[f] = config.parts

\* A credential that has not moved builds no second client, however many threads
\* arrive together; S3's client outlives every rotation (client of each store).
OneClientPerCredential ==
    \A i \in 1 .. Len(clients) - 1 :
        clients[i] # clients[i + 1] /\ config.store # "s3"

\* Whatever secret a request carried is among those the message of its failure is
\* scrubbed of, which are taken from the fetch's own arguments.
SecretsAreScrubbed ==
    \A f \in Fetches :
        At(f, "returned") /\ (config.store = "s3" => f \notin overlapped) =>
            Valued(sent[f], Hidden(config)) \subseteq Valued(args[f], Secrets(config))

=============================================================================
