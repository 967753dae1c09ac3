----------------------------- MODULE StoresProofs -----------------------------
(***************************************************************************)
(* A request carries its own fetch's credential, a client is built once per *)
(* credential, and what is secret in a request is scrubbed from its failure, *)
(* for any number of fetches and rotations and for every store.            *)
(*                                                                         *)
(* The argument: whoever looks at the client holds the lock until it is    *)
(* built; whoever put a credential in git's slot holds it until the request *)
(* read it; and a fetch of S3's that is alone finds in the slot what it put *)
(* there.  What the constructors refuse is what the compiled half would    *)
(* have taken for no credential at all.                                    *)
(***************************************************************************)
EXTENDS Stores, FiniteSetTheorems, TLAPS

USE StoresAssumption

Past == {"resolved", "slotted", "locked", "building", "connected", "returned"}

\* A store that is used was not refused.
Used ==
    /\ \A f \in Fetches : ~ At(f, "idle") => state = "ready"
    /\ state = "ready" => ~ Refused(config)

\* What a fetch has asked for.
Asked == \A f \in Fetches :
    /\ DOMAIN args[f] \subseteq config.parts
    /\ pc[f] \in Past => DOMAIN args[f] = config.parts

\* Who holds the lock; git builds no client.
LockHeld == \A f \in Fetches :
    /\ pc[f] \in {"locked", "building"} => lock = f
    /\ At(f, "building") => config.store # "git"
    /\ config.store = "git" /\ At(f, "connected") => lock = f

\* Fetches that are under way together are known to be.
Together == \A f, g \in Fetches :
    f # g /\ f \in Active /\ g \in Active => f \in overlapped

\* What the slot holds is what the fetch about to read it put there.
InTheSlot == \A f \in Fetches :
    /\ config.store = "git" /\ At(f, "connected") => slot = args[f]
    /\ /\ config.store = "s3" /\ f \notin overlapped /\ args[f] # NoCredential
       /\ pc[f] \in {"slotted", "locked", "building", "connected"}
       => slot = args[f]

\* The key of every client of S3's.
Keyed == [p \in config.parts |-> 0]

\* What a connected fetch is about to present, and what it presented.
Presented ==
    /\ \A f \in Fetches : At(f, "connected") =>
        /\ config.store = "s3" => sent[f] = Keyed
        /\ config.store \notin {"s3", "git"} => sent[f] = args[f]
    /\ UsesItsOwn

\* The cached client is the last one built, and is not what a builder wants.
Cached ==
    /\ built = IF clients = <<>> THEN Nobody ELSE clients[Len(clients)]
    /\ \A f \in Fetches : At(f, "building") => built # ClientKey(f)
    /\ config.store = "s3" => Len(clients) <= 1 /\ (clients # <<>> => built = Keyed)
    /\ OneClientPerCredential

StoresInv ==
    TypeOK /\ Used /\ Asked /\ LockHeld /\ Together /\ InTheSlot /\ Presented /\ Cached

-----------------------------------------------------------------------------
(* Facts about credentials and configurations.                             *)

LEMMA CredentialIs ==
  ASSUME NEW a
  PROVE  a \in Credentials <=>
           /\ a = [p \in DOMAIN a |-> a[p]]
           /\ DOMAIN a \subseteq Parts /\ \A p \in DOMAIN a : a[p] \in 0..MaxRotations
<1>1. ASSUME a \in Credentials
      PROVE  /\ a = [p \in DOMAIN a |-> a[p]]
             /\ DOMAIN a \subseteq Parts /\ \A p \in DOMAIN a : a[p] \in 0..MaxRotations
  <2>1. PICK parts \in SUBSET Parts : a \in [parts -> 0..MaxRotations]
    BY <1>1 DEF Credentials
  <2>. QED  BY <2>1
<1>2. ASSUME /\ a = [p \in DOMAIN a |-> a[p]]
             /\ DOMAIN a \subseteq Parts /\ \A p \in DOMAIN a : a[p] \in 0..MaxRotations
      PROVE  a \in Credentials
  <2>1. a \in [DOMAIN a -> 0..MaxRotations]
    BY <1>2
  <2>. QED  BY <1>2, <2>1 DEF Credentials
<1>. QED  BY <1>1, <1>2

LEMMA NoCredentialIs == NoCredential \in Credentials /\ DOMAIN NoCredential = {}
<1>1. DOMAIN NoCredential = {} /\ NoCredential = [p \in DOMAIN NoCredential |-> NoCredential[p]]
  BY DEF NoCredential
<1>. QED  BY <1>1, CredentialIs

LEMMA EmptyIsNoCredential ==
  ASSUME NEW a \in Credentials, DOMAIN a = {}
  PROVE  a = NoCredential
<1>1. a = [p \in {} |-> a[p]]
  BY CredentialIs
<1>2. [p \in {} |-> a[p]] = [p \in {} |-> 0]
  OBVIOUS
<1>. QED  BY <1>1, <1>2 DEF NoCredential

LEMMA NormalisedIsCredential ==
  ASSUME NEW s, NEW a \in Credentials
  PROVE  Normalised(s, a) \in Credentials
  BY NoCredentialIs DEF Normalised

LEMMA PresenceIsCredential ==
  ASSUME NEW S, S \subseteq Parts
  PROVE  [p \in S |-> 0] \in Credentials
<1>. DEFINE a == [p \in S |-> 0]
<1>1. DOMAIN a = S /\ a = [p \in DOMAIN a |-> a[p]] /\ \A p \in S : a[p] \in 0..MaxRotations
  OBVIOUS
<1>. HIDE DEF a
<1>2. a \in Credentials
  BY <1>1, CredentialIs
<1>. QED  BY <1>2 DEF a

Stored == {"redis", "etcd", "s3", "vault", "consul", "nats", "firestore", "git"}

\* What can be asked for: which parts, and of NATS which methods.
LEMMA ConfigIs ==
  ASSUME NEW c \in Configs, Writable(c)
  PROVE  /\ c.store \in Stored /\ c.parts \subseteq Parts
         /\ c.store = "etcd" => c.parts \subseteq Pair
         /\ c.store = "nats" => c.kind \in DOMAIN NatsAuth
<1>1. CASE c \in {[store |-> s, kind |-> "arguments", parts |-> p, url |-> u, tls |-> t] :
                    s \in DOMAIN OptionalArguments, p \in SUBSET Parts,
                    u \in {"any", "plain", "tls"}, t \in Tls}
  <2>1. /\ c.store \in {"redis", "etcd", "s3"} /\ c.parts \subseteq Parts
        /\ c.kind = "arguments"
    BY <1>1 DEF OptionalArguments
  <2>2. c.parts \subseteq OptionalArguments[c.store]
    BY <2>1 DEF Writable
  <2>3. c.store = "etcd" => c.parts \subseteq Pair
    BY <2>2 DEF OptionalArguments
  <2>. QED  BY <2>1, <2>3 DEF Stored
<1>2. CASE c \in UNION {{[store |-> s, kind |-> k, parts |-> Auths[s][k], url |-> u,
                          tls |-> t] :
                          k \in DOMAIN Auths[s], u \in Urls(s), t \in Tls} : s \in DOMAIN Auths}
  <2>1. PICK s \in DOMAIN Auths : \E k \in DOMAIN Auths[s], u \in Urls(s), t \in Tls :
              c = [store |-> s, kind |-> k, parts |-> Auths[s][k], url |-> u, tls |-> t]
    BY <1>2
  <2>2. PICK k \in DOMAIN Auths[s] : c.store = s /\ c.kind = k /\ c.parts = Auths[s][k]
    BY <2>1
  <2>3. s \in {"vault", "consul", "nats", "firestore", "git"}
    BY DEF Auths
  <2>4. /\ s = "vault" => Auths[s] = VaultAuth
        /\ s = "consul" => Auths[s] = ConsulAuth
        /\ s = "nats" => Auths[s] = NatsAuth
        /\ s = "firestore" => Auths[s] = FirestoreAuth
        /\ s = "git" => Auths[s] = GitAuth
    BY DEF Auths
  <2>5. \A m \in DOMAIN VaultAuth : VaultAuth[m] \subseteq Parts
    BY DEF VaultAuth, Parts, Pair, First, Second
  <2>6. \A m \in DOMAIN ConsulAuth : ConsulAuth[m] \subseteq Parts
    BY DEF ConsulAuth, Parts, Pair, First, Second
  <2>7. \A m \in DOMAIN NatsAuth : NatsAuth[m] \subseteq Parts
    BY DEF NatsAuth, Parts, Pair, First, Second
  <2>8. \A m \in DOMAIN FirestoreAuth : FirestoreAuth[m] \subseteq Parts
    BY DEF FirestoreAuth, Parts, Pair, First, Second
  <2>9. \A m \in DOMAIN GitAuth : GitAuth[m] \subseteq Parts
    BY DEF GitAuth, Parts, Pair, First, Second
  <2>10. c.parts \subseteq Parts
    BY <2>2, <2>3, <2>4, <2>5, <2>6, <2>7, <2>8, <2>9
  <2>. QED  BY <2>2, <2>3, <2>4, <2>10 DEF Stored
<1>. QED  BY <1>1, <1>2 DEF Configs

\* What a repr hides, the redactor knows.
LEMMA HiddenIsSecret ==
  ASSUME NEW c \in Configs, Writable(c)
  PROVE  Hidden(c) \subseteq Secrets(c)
<1>1. c.store \in Stored /\ (c.store = "nats" => c.kind \in DOMAIN NatsAuth)
  BY ConfigIs
<1>2. CASE c.store \in {"redis", "etcd", "s3"}
  BY <1>2 DEF Hidden, Secrets, RedisSecrets, EtcdSecrets, S3Secrets, First, Second
<1>3. CASE c.store = "vault"
  BY <1>3 DEF Hidden, Secrets, VaultSecrets, First, Second
<1>4. CASE c.store = "consul"
  BY <1>4 DEF Hidden, Secrets, ConsulSecrets, First, Second
<1>5. CASE c.store = "nats"
  <2>1. c.kind \in {"anonymous", "token", "user_and_password", "nkey_seed", "credentials"}
    BY <1>1, <1>5 DEF NatsAuth
  <2>. QED  BY <1>5, <2>1 DEF Hidden, Secrets, NatsSecrets, First, Second
<1>6. CASE c.store = "firestore"
  BY <1>6 DEF Hidden, Secrets, FirestoreSecrets, First, Second
<1>7. CASE c.store = "git"
  BY <1>7 DEF Hidden, Secrets, GitSecrets, First, Second
<1>. QED  BY <1>1, <1>2, <1>3, <1>4, <1>5, <1>6, <1>7 DEF Stored

\* Of etcd and S3, whatever is not refused is a whole pair or nothing at all.
LEMMA WholePair ==
  ASSUME NEW c \in Configs, Writable(c), ~ Refused(c), c.store \in {"etcd", "s3"},
         ~ Pair \subseteq c.parts
  PROVE  c.parts = {}
<1>1. c.parts \subseteq Parts /\ (c.store = "etcd" => c.parts \subseteq Pair)
  BY ConfigIs
<1>2. ~ Half(c) /\ (c.store = "s3" /\ "third" \in c.parts => "first" \in c.parts)
  BY DEF Refused, EtcdRefuses, S3Refuses
<1>3. c.parts \cap Pair # {"first"} /\ c.parts \cap Pair # {"second"}
  <2>1. Cardinality({"first"}) = 1 /\ Cardinality({"second"}) = 1
    BY FS_Singleton
  <2>. QED  BY <1>2, <2>1 DEF Half
<1>4. "first" \notin c.parts /\ "second" \notin c.parts
  BY <1>3 DEF Pair
<1>. QED  BY <1>1, <1>2, <1>4 DEF Parts, Pair

\* The compiled half takes the credential as it was resolved.
LEMMA OwnIsArgs ==
  ASSUME TypeOK, Used, Asked, NEW f \in Fetches, pc[f] \in Past
  PROVE  /\ Own(f) = args[f]
         /\ ClientKey(f) = IF config.store = "s3" THEN Keyed ELSE args[f]
<1>1. args[f] \in Credentials /\ DOMAIN args[f] = config.parts /\ ~ Refused(config)
  BY DEF TypeOK, Asked, Used, Past, At
<1>2. Own(f) = args[f]
  <2>1. CASE config.store \in {"etcd", "s3"} /\ ~ Pair \subseteq config.parts
    <3>1. config.parts = {}
      BY <2>1, <1>1, WholePair DEF TypeOK
    <3>2. args[f] = NoCredential
      BY <1>1, <3>1, EmptyIsNoCredential
    <3>. QED  BY <1>1, <2>1, <3>2 DEF Own, Normalised
  <2>2. CASE ~ (config.store \in {"etcd", "s3"} /\ ~ Pair \subseteq config.parts)
    BY <1>1, <2>2 DEF Own, Normalised
  <2>. QED  BY <2>1, <2>2
<1>. QED  BY <1>1, <1>2 DEF ClientKey, Keyed

LEMMA NextPartIsUnresolved ==
  ASSUME TypeOK, NEW f \in Fetches, Unresolved(f) # {}
  PROVE  NextPart(f) \in Unresolved(f)
<1>1. Unresolved(f) \subseteq {"first", "second", "third"}
  BY ConfigIs DEF TypeOK, Unresolved, Parts
<1>2. \E p \in Unresolved(f) :
        \/ p = "first"
        \/ p = "second" /\ "first" \notin Unresolved(f)
        \/ Unresolved(f) = {"third"}
  <2>1. CASE "first" \in Unresolved(f)
    BY <2>1
  <2>2. CASE "first" \notin Unresolved(f) /\ "second" \in Unresolved(f)
    BY <2>2
  <2>3. CASE "first" \notin Unresolved(f) /\ "second" \notin Unresolved(f)
    <3>1. Unresolved(f) = {"third"}
      BY <1>1, <2>3
    <3>. QED  BY <3>1
  <2>. QED  BY <2>1, <2>2, <2>3
<1>. QED  BY <1>2 DEF NextPart

-----------------------------------------------------------------------------
(* One step of a fetch, part by part of the invariant.                     *)

\* A step of a fetch moves its own program counter and its own results.
Fetch(f) ==
    \/ Begin(f) \/ Resolve(f) \/ ResolveFails(f) \/ Resolved(f)
    \/ WriteKeys(f) \/ Acquire(f)
    \/ Reuse(f) \/ Rebuild(f) \/ Build(f) \/ BuildFails(f)
    \/ WriteCredential(f) \/ Request(f)

LEMMA InitStores == Init => StoresInv
<1>. SUFFICES ASSUME Init PROVE StoresInv
  OBVIOUS
<1>1. TypeOK
  <2>1. <<>> \in Seq(Credentials)
    OBVIOUS
  <2>. QED  BY <2>1, NoCredentialIs DEF Init, TypeOK
<1>2. Used /\ LockHeld /\ Together /\ InTheSlot /\ Presented
  BY DEF Init, Used, At, LockHeld, Together, Active, InTheSlot, Presented, UsesItsOwn
<1>3. Asked
  BY NoCredentialIs DEF Init, Asked, Past
<1>4. Cached
  BY DEF Init, Cached, At, OneClientPerCredential
<1>. QED  BY <1>1, <1>2, <1>3, <1>4 DEF StoresInv

LEMMA TypesKept ==
  ASSUME StoresInv, NEW f \in Fetches, Fetch(f)
  PROVE  TypeOK'
<1>. USE DEF StoresInv
<1>1. Own(f) \in Credentials
  BY NormalisedIsCredential DEF TypeOK, Own
<1>2. ClientKey(f) \in Credentials
  <2>1. DOMAIN Own(f) \subseteq Parts
    BY <1>1, CredentialIs
  <2>. QED  BY <1>1, <2>1, PresenceIsCredential DEF ClientKey
<1>3. CASE Begin(f)
  BY <1>3 DEF TypeOK, Begin, Goto, storeVars, Active
<1>4. CASE Resolve(f)
  <2>. DEFINE a == [p \in DOMAIN args[f] \cup {NextPart(f)} |->
                      IF p = NextPart(f) THEN version ELSE args[f][p]]
  <2>1. NextPart(f) \in Parts
    BY <1>4, NextPartIsUnresolved, ConfigIs DEF Resolve, Unresolved, TypeOK
  <2>2. args[f] \in Credentials
    BY DEF TypeOK
  <2>3. /\ DOMAIN a = DOMAIN args[f] \cup {NextPart(f)}
        /\ a = [p \in DOMAIN a |-> a[p]]
        /\ \A p \in DOMAIN a : a[p] = IF p = NextPart(f) THEN version ELSE args[f][p]
    OBVIOUS
  <2>4. args' = [args EXCEPT ![f] = a]
    BY <1>4 DEF Resolve
  <2>. HIDE DEF a
  <2>5. a \in Credentials
    BY <2>1, <2>2, <2>3, CredentialIs DEF TypeOK
  <2>. QED  BY <1>4, <2>4, <2>5 DEF TypeOK, Resolve, storeVars
<1>5. CASE ResolveFails(f) \/ Resolved(f) \/ Rebuild(f) \/ BuildFails(f) \/ Acquire(f)
  BY <1>5 DEF TypeOK, ResolveFails, Resolved, Rebuild, BuildFails, Acquire, Goto, storeVars
<1>6. CASE WriteKeys(f) \/ WriteCredential(f)
  BY <1>1, <1>6 DEF TypeOK, WriteKeys, WriteCredential, Goto
<1>7. CASE Reuse(f)
  BY <1>2, <1>7 DEF TypeOK, Reuse, Goto
<1>8. CASE Build(f)
  <2>1. clients' \in Seq(Credentials)
    BY <1>2, <1>8 DEF Build, TypeOK
  <2>. QED  BY <1>2, <1>8, <2>1 DEF TypeOK, Build, Goto
<1>9. CASE Request(f)
  BY <1>9 DEF TypeOK, Request, Goto
<1>. QED  BY <1>3, <1>4, <1>5, <1>6, <1>7, <1>8, <1>9 DEF Fetch

\* What a step changes, fetch by fetch.
LEMMA StepOf ==
  ASSUME TypeOK, NEW f \in Fetches, Fetch(f)
  PROVE  /\ UNCHANGED <<config, state, version>>
         /\ \A g \in Fetches \ {f} :
               pc'[g] = pc[g] /\ args'[g] = args[g] /\ sent'[g] = sent[g]
         /\ ~ Resolve(f) => args' = args
         /\ overlapped \subseteq overlapped'
         /\ ~ Begin(f) => overlapped' = overlapped
  BY DEF TypeOK, Fetch, Begin, Resolve, ResolveFails, Resolved, WriteKeys, Acquire, Reuse,
         Rebuild, Build, BuildFails, WriteCredential, Request, Goto, storeVars

LEMMA UsedAskedKept ==
  ASSUME StoresInv, NEW f \in Fetches, Fetch(f)
  PROVE  Used' /\ Asked'
<1>. USE DEF StoresInv
<1>1. /\ UNCHANGED <<config, state>>
      /\ \A g \in Fetches \ {f} : pc'[g] = pc[g] /\ args'[g] = args[g]
  BY StepOf
<1>2. state = "ready"
  BY DEF Fetch, Used, At, Begin, Resolve, ResolveFails, Resolved, WriteKeys, Acquire, Reuse,
         Rebuild, Build, BuildFails, WriteCredential, Request
<1>3. Used'
  BY <1>1, <1>2 DEF Used
<1>4. DOMAIN args'[f] \subseteq config.parts /\ (pc'[f] \in Past => DOMAIN args'[f] = config.parts)
  <2>1. CASE Resolve(f)
    <3>1. NextPart(f) \in config.parts
      BY <2>1, NextPartIsUnresolved DEF Resolve, Unresolved
    <3>2. DOMAIN args'[f] = DOMAIN args[f] \cup {NextPart(f)} /\ pc'[f] = "resolving"
      BY <2>1 DEF Resolve, At, TypeOK
    <3>. QED  BY <3>1, <3>2 DEF Asked, Past
  <2>2. CASE Resolved(f)
    BY <2>2 DEF Resolved, Unresolved, Asked, Goto, TypeOK
  <2>3. CASE Begin(f) \/ ResolveFails(f)
    BY <2>3 DEF Begin, ResolveFails, Asked, Goto, TypeOK, Past
  <2>4. CASE ~ (Resolve(f) \/ Resolved(f) \/ Begin(f) \/ ResolveFails(f))
    <3>1. args' = args /\ pc[f] \in Past
      BY <2>4 DEF Fetch, WriteKeys, Acquire, Reuse, Rebuild, Build, BuildFails,
                  WriteCredential, Request, At, Past
    <3>. QED  BY <3>1 DEF Asked
  <2>. QED  BY <2>1, <2>2, <2>3, <2>4
<1>5. Asked'
  <2>1. ASSUME NEW g \in Fetches
        PROVE  DOMAIN args'[g] \subseteq config'.parts
               /\ (pc'[g] \in Past => DOMAIN args'[g] = config'.parts)
    BY <1>1, <1>4 DEF Asked
  <2>. QED  BY <2>1 DEF Asked
<1>. QED  BY <1>3, <1>5

LEMMA LockKept ==
  ASSUME StoresInv, NEW f \in Fetches, Fetch(f)
  PROVE  LockHeld'
<1>. USE DEF StoresInv
<1>1. CASE Begin(f) \/ Resolve(f) \/ ResolveFails(f) \/ Resolved(f) \/ WriteKeys(f)
  BY <1>1 DEF TypeOK, LockHeld, Begin, Resolve, ResolveFails, Resolved, WriteKeys, Goto, At,
              storeVars
<1>2. CASE Acquire(f)
  BY <1>2 DEF TypeOK, LockHeld, Acquire, Goto, At
<1>3. CASE Reuse(f) \/ Build(f) \/ BuildFails(f)
  <2>1. \A g \in Fetches : lock = g => g = f
    BY <1>3 DEF LockHeld, Reuse, Build, BuildFails, At
  <2>2. config.store # "git"
    BY <1>3 DEF Reuse, Build, BuildFails, LockHeld
  <2>3. pc'[f] \notin {"locked", "building"} /\ \A g \in Fetches \ {f} : pc'[g] = pc[g]
    BY <1>3 DEF Reuse, Build, BuildFails, Goto, TypeOK
  <2>. QED  BY <1>3, <2>1, <2>2, <2>3 DEF LockHeld, Reuse, Build, BuildFails, At
<1>4. CASE Rebuild(f) \/ WriteCredential(f)
  BY <1>4 DEF TypeOK, LockHeld, Rebuild, WriteCredential, Goto, At, storeVars
<1>5. CASE Request(f)
  BY <1>5 DEF TypeOK, LockHeld, Request, Goto, At
<1>. QED  BY <1>1, <1>2, <1>3, <1>4, <1>5 DEF Fetch

LEMMA TogetherKept ==
  ASSUME StoresInv, NEW f \in Fetches, Fetch(f)
  PROVE  Together'
<1>. USE DEF StoresInv
<1>1. CASE Begin(f)
  <2>1. Active' = Active \cup {f}
    BY <1>1 DEF Begin, Active, Goto, At, TypeOK
  <2>2. overlapped' = overlapped \cup (IF Active = {} THEN {} ELSE Active \cup {f})
    BY <1>1 DEF Begin
  <2>3. ASSUME NEW g \in Fetches, NEW h \in Fetches, g # h, g \in Active', h \in Active'
        PROVE  g \in overlapped'
    BY <2>1, <2>2, <2>3
  <2>. QED  BY <2>3 DEF Together
<1>2. CASE ~ Begin(f)
  <2>1. overlapped' = overlapped
    BY <1>2, StepOf
  <2>2. f \in Active
    BY <1>2 DEF Fetch, Active, Resolve, ResolveFails, Resolved, WriteKeys, Acquire, Reuse,
           Rebuild, Build, BuildFails, WriteCredential, Request, At
  <2>3. \A g \in Fetches \ {f} : pc'[g] = pc[g]
    BY StepOf
  <2>4. Active' \subseteq Active
    BY <2>2, <2>3 DEF Active
  <2>. QED  BY <2>1, <2>4 DEF Together
<1>. QED  BY <1>1, <1>2

LEMMA SlotKept ==
  ASSUME StoresInv, NEW f \in Fetches, Fetch(f)
  PROVE  InTheSlot'
<1>. USE DEF StoresInv
<1>1. /\ UNCHANGED config /\ overlapped \subseteq overlapped'
      /\ \A g \in Fetches \ {f} : pc'[g] = pc[g] /\ args'[g] = args[g]
  BY StepOf
<1>2. CASE WriteKeys(f)
  <2>1. Own(f) = args[f]
    BY <1>2, OwnIsArgs DEF WriteKeys, At, Past
  <2>2. args' = args /\ pc'[f] = "slotted" /\ config.store = "s3" /\ f \in Active
        /\ slot' = IF args[f] = NoCredential THEN slot ELSE args[f]
    BY <1>2, <2>1 DEF WriteKeys, Goto, TypeOK, At, Active
  <2>3. ASSUME NEW g \in Fetches \ {f}, g \notin overlapped
        PROVE  pc[g] \notin {"slotted", "locked", "building", "connected"}
    BY <2>2, <2>3 DEF Together, Active
  <2>. QED  BY <1>1, <2>2, <2>3 DEF InTheSlot, At
<1>3. CASE WriteCredential(f)
  <2>1. Own(f) = args[f]
    BY <1>3, OwnIsArgs DEF WriteCredential, At, Past
  <2>2. args' = args /\ pc'[f] = "connected" /\ config.store = "git" /\ slot' = args[f]
    BY <1>3, <2>1 DEF WriteCredential, Goto, TypeOK
  <2>3. \A g \in Fetches \ {f} : ~ At(g, "connected")
    BY <1>3, <2>2 DEF LockHeld, WriteCredential, At
  <2>. QED  BY <1>1, <2>2, <2>3 DEF InTheSlot, At
<1>4. CASE ~ (WriteKeys(f) \/ WriteCredential(f))
  <2>1. slot' = slot
    BY <1>4 DEF Fetch, Begin, Resolve, ResolveFails, Resolved, Acquire, Reuse,
           Rebuild, Build, BuildFails, Request, storeVars
  <2>2. CASE Acquire(f) \/ Reuse(f) \/ Rebuild(f) \/ Build(f)
    <3>1. /\ args' = args
          /\ config.store = "s3" => pc[f] \in {"slotted", "locked", "building"}
          /\ config.store = "git" => ~ At(f, "connected")'
      BY <2>2 DEF Acquire, Reuse, Rebuild, Build, At, Goto, TypeOK, LockHeld
    <3>. QED  BY <1>1, <2>1, <3>1 DEF InTheSlot, At
  <2>3. CASE ~ (Acquire(f) \/ Reuse(f) \/ Rebuild(f) \/ Build(f))
    <3>1. pc'[f] \in {"resolving", "raised", "resolved", "returned"}
      BY <1>4, <2>3 DEF Fetch, Begin, Resolve, ResolveFails, Resolved, BuildFails, Request,
                        At, Goto, TypeOK
    <3>. QED  BY <1>1, <2>1, <3>1 DEF InTheSlot, At
  <2>. QED  BY <2>2, <2>3
<1>. QED  BY <1>2, <1>3, <1>4

LEMMA PresentedKept ==
  ASSUME StoresInv, NEW f \in Fetches, Fetch(f)
  PROVE  Presented'
<1>. USE DEF StoresInv
<1>1. /\ UNCHANGED config /\ overlapped \subseteq overlapped'
      /\ \A g \in Fetches \ {f} :
            pc'[g] = pc[g] /\ args'[g] = args[g] /\ sent'[g] = sent[g]
  BY StepOf
<1>2. At(f, "connected")' =>
        /\ config.store = "s3" => sent'[f] = Keyed
        /\ config.store \notin {"s3", "git"} => sent'[f] = args'[f]
  <2>1. CASE Reuse(f) \/ Build(f)
    <3>1. ClientKey(f) = IF config.store = "s3" THEN Keyed ELSE args[f]
      BY <2>1, OwnIsArgs DEF Reuse, Build, At, Past
    <3>2. sent'[f] = ClientKey(f) /\ args' = args
      BY <2>1 DEF Reuse, Build, TypeOK
    <3>. QED  BY <3>1, <3>2
  <2>2. CASE WriteCredential(f)
    BY <2>2 DEF WriteCredential
  <2>3. CASE ~ (Reuse(f) \/ Build(f) \/ WriteCredential(f))
    BY <2>3 DEF Fetch, Begin, Resolve, ResolveFails, Resolved, WriteKeys, Acquire,
                Rebuild, BuildFails, Request, At, Goto, TypeOK
  <2>. QED  BY <2>1, <2>2, <2>3
<1>3. ASSUME At(f, "returned")', config.store = "s3" => f \notin overlapped'
      PROVE  sent'[f] = args'[f] /\ DOMAIN args'[f] = config.parts
  <2>1. Request(f)
    BY <1>3 DEF Fetch, Begin, Resolve, ResolveFails, Resolved, WriteKeys, Acquire, Reuse,
                Rebuild, Build, BuildFails, WriteCredential, At, Goto, TypeOK
  <2>2. /\ At(f, "connected") /\ args' = args /\ overlapped' = overlapped
        /\ sent'[f] = IF config.store = "git"
                         \/ (config.store = "s3" /\ sent[f] # NoCredential)
                      THEN slot ELSE sent[f]
    BY <2>1 DEF Request, TypeOK
  <2>3. DOMAIN args[f] = config.parts
    BY <2>2 DEF Asked, Past, At
  <2>4. CASE config.store = "git"
    BY <2>2, <2>3, <2>4 DEF InTheSlot
  <2>5. CASE config.store = "s3"
    <3>1. sent[f] = Keyed /\ DOMAIN Keyed = config.parts
      BY <2>2, <2>5 DEF Presented, Keyed
    <3>2. CASE config.parts = {}
      <4>1. args[f] \in Credentials
        BY DEF TypeOK
      <4>2. args[f] = NoCredential
        BY <2>3, <3>2, <4>1, EmptyIsNoCredential
      <4>3. sent[f] = NoCredential
        BY <3>1, <3>2 DEF Keyed, NoCredential
      <4>. QED  BY <2>2, <2>3, <2>5, <4>2, <4>3
    <3>3. CASE config.parts # {}
      <4>1. args[f] # NoCredential /\ sent[f] # NoCredential
        BY <2>3, <3>1, <3>3, NoCredentialIs
      <4>2. slot = args[f]
        BY <1>3, <2>2, <2>5, <4>1 DEF InTheSlot, At
      <4>. QED  BY <2>2, <2>3, <2>5, <4>1, <4>2
    <3>. QED  BY <3>2, <3>3
  <2>6. CASE config.store \notin {"s3", "git"}
    BY <2>2, <2>3, <2>6 DEF Presented
  <2>. QED  BY <2>4, <2>5, <2>6
<1>4. UsesItsOwn'
  <2>1. ASSUME NEW g \in Fetches, At(g, "returned")',
               config.store = "s3" => g \notin overlapped'
        PROVE  sent'[g] = args'[g] /\ DOMAIN args'[g] = config.parts
    <3>1. CASE g = f
      BY <1>3, <2>1, <3>1
    <3>2. CASE g # f
      BY <1>1, <2>1, <3>2 DEF Presented, UsesItsOwn, At
    <3>. QED  BY <3>1, <3>2
  <2>. QED  BY <1>1, <2>1 DEF UsesItsOwn
<1>5. Keyed' = Keyed
  BY <1>1 DEF Keyed
<1>6. ASSUME NEW g \in Fetches, At(g, "connected")'
      PROVE  /\ config.store = "s3" => sent'[g] = Keyed
             /\ config.store \notin {"s3", "git"} => sent'[g] = args'[g]
  <2>1. CASE g = f
    BY <1>2, <1>6, <2>1
  <2>2. CASE g # f
    BY <1>1, <1>6, <2>2 DEF Presented, At
  <2>. QED  BY <2>1, <2>2
<1>. QED  BY <1>1, <1>4, <1>5, <1>6 DEF Presented

LEMMA CachedKept ==
  ASSUME StoresInv, NEW f \in Fetches, Fetch(f)
  PROVE  Cached'
<1>. USE DEF StoresInv
<1>1. /\ UNCHANGED config
      /\ \A g \in Fetches \ {f} : pc'[g] = pc[g] /\ args'[g] = args[g]
  BY StepOf
<1>2. Keyed' = Keyed
  BY <1>1 DEF Keyed
<1>3. \A g \in Fetches : args'[g] = args[g] => ClientKey(g)' = ClientKey(g)
  BY <1>1 DEF ClientKey, Own
<1>4. CASE Build(f)
  <2>. DEFINE k == ClientKey(f)
  <2>1. /\ built' = k /\ clients' = Append(clients, k) /\ built # k
        /\ config.store = "s3" => k = Keyed
    BY <1>4, OwnIsArgs DEF Build, Cached, At, Past
  <2>2. clients \in Seq(Credentials) /\ k \in Credentials
    <3>1. Own(f) \in Credentials
      BY NormalisedIsCredential DEF TypeOK, Own
    <3>2. DOMAIN Own(f) \subseteq Parts
      BY <3>1, CredentialIs
    <3>. QED  BY <3>1, <3>2, PresenceIsCredential DEF ClientKey, TypeOK
  <2>. HIDE DEF k
  <2>3. /\ clients' # <<>> /\ Len(clients') = Len(clients) + 1 /\ Len(clients) \in Nat
        /\ clients'[Len(clients) + 1] = k
        /\ \A i \in 1 .. Len(clients) : clients'[i] = clients[i]
    BY <2>1, <2>2
  <2>4. \A g \in Fetches : pc'[g] # "building"
    BY <1>1, <1>4 DEF LockHeld, Build, At, Goto, TypeOK
  <2>5. config.store = "s3" => clients = <<>>
    BY <2>1 DEF Cached
  <2>6. OneClientPerCredential'
    <3>1. ASSUME NEW i \in 1 .. Len(clients') - 1
          PROVE  clients'[i] # clients'[i + 1] /\ config.store # "s3"
      <4>1. CASE i = Len(clients)
        <5>1. clients # <<>> /\ clients[i] = built
          BY <3>1, <4>1, <2>2, <2>3 DEF Cached
        <5>. QED  BY <2>1, <2>3, <2>5, <3>1, <4>1, <5>1
      <4>2. CASE i # Len(clients)
        <5>1. i \in 1 .. Len(clients) - 1 /\ i \in 1 .. Len(clients) /\ i + 1 \in 1 .. Len(clients)
          BY <2>3, <3>1, <4>2
        <5>. QED  BY <2>3, <5>1 DEF Cached, OneClientPerCredential
      <4>. QED  BY <4>1, <4>2
    <3>. QED  BY <1>1, <3>1 DEF OneClientPerCredential
  <2>7. config.store = "s3" => Len(clients') <= 1 /\ built' = Keyed
    BY <2>1, <2>3, <2>5
  <2>. QED  BY <1>1, <1>2, <2>1, <2>3, <2>4, <2>6, <2>7 DEF Cached, At
<1>5. CASE ~ Build(f)
  <2>1. UNCHANGED <<built, clients>>
    BY <1>5 DEF Fetch, Begin, Resolve, ResolveFails, Resolved, WriteKeys, Acquire, Reuse,
           Rebuild, BuildFails, WriteCredential, Request, storeVars
  <2>2. At(f, "building")' => Rebuild(f)
    BY <1>5 DEF Fetch, Begin, Resolve, ResolveFails, Resolved, WriteKeys, Acquire, Reuse,
           BuildFails, WriteCredential, Request, At, Goto, TypeOK
  <2>3. ASSUME NEW g \in Fetches, At(g, "building")' PROVE built' # ClientKey(g)'
    <3>1. CASE g = f
      BY <1>3, <2>1, <2>2, <2>3, <3>1 DEF Rebuild
    <3>2. CASE g # f
      BY <1>1, <1>3, <2>1, <2>3, <3>2 DEF Cached, At
    <3>. QED  BY <3>1, <3>2
  <2>4. OneClientPerCredential'
    BY <1>1, <2>1 DEF Cached, OneClientPerCredential
  <2>. QED  BY <1>1, <1>2, <2>1, <2>3, <2>4 DEF Cached
<1>. QED  BY <1>4, <1>5

LEMMA OutsideKeeps ==
  ASSUME StoresInv, Construct \/ Rotate \/ UNCHANGED vars
  PROVE  StoresInv'
<1>1. UNCHANGED <<config, storeVars, callVars, overlapped>>
  BY DEF Construct, Rotate, vars
<1>2. /\ state' \in {"new", "ready", "refused"} /\ version' \in 0..MaxRotations
      /\ state = "ready" => state' = "ready"
      /\ state' = "ready" => ~ Refused(config)
  BY DEF Construct, Rotate, vars, StoresInv, TypeOK, Used
<1>3. TypeOK' /\ Used'
  BY <1>1, <1>2 DEF StoresInv, TypeOK, Used, At, storeVars, callVars
<1>4. Asked' /\ LockHeld' /\ Together' /\ InTheSlot' /\ Presented'
  BY <1>1 DEF StoresInv, Asked, LockHeld, Together, Active, InTheSlot, Presented, UsesItsOwn,
              Keyed, At, storeVars, callVars
<1>5. Cached'
  BY <1>1 DEF StoresInv, Cached, ClientKey, Own, Keyed, At, OneClientPerCredential,
              storeVars, callVars
<1>. QED  BY <1>3, <1>4, <1>5 DEF StoresInv

LEMMA NextKeeps == StoresInv /\ [Next]_vars => StoresInv'
<1>. SUFFICES ASSUME StoresInv, [Next]_vars PROVE StoresInv'
  OBVIOUS
<1>1. CASE Construct \/ Rotate \/ UNCHANGED vars
  BY <1>1, OutsideKeeps
<1>2. ASSUME NEW f \in Fetches, Fetch(f) PROVE StoresInv'
  BY <1>2, TypesKept, UsedAskedKept, LockKept, TogetherKept, SlotKept, PresentedKept,
     CachedKept DEF StoresInv
<1>. QED  BY <1>1, <1>2 DEF Next, Fetch

-----------------------------------------------------------------------------
(* The theorems.                                                           *)

\* The state of a store is typed, its lock has one holder, and what a fetch is
\* about to present is what it resolved (client and fetch of each store).
THEOREM StoresInvariant == Spec => []StoresInv
<1>1. Init => StoresInv
  BY InitStores
<1>2. StoresInv /\ [Next]_vars => StoresInv'
  BY NextKeeps
<1>. QED  BY <1>1, <1>2, PTL DEF Spec

\* A request carries the whole credential its own fetch resolved (fetch).
THEOREM UsesItsOwnThm == Spec => []UsesItsOwn
<1>1. StoresInv => UsesItsOwn
  BY DEF StoresInv, Presented
<1>. QED  BY <1>1, StoresInvariant, PTL

\* A credential that has not moved builds no second client (client).
THEOREM OneClientThm == Spec => []OneClientPerCredential
<1>1. StoresInv => OneClientPerCredential
  BY DEF StoresInv, Cached
<1>. QED  BY <1>1, StoresInvariant, PTL

\* What is secret in a request is scrubbed from the message of its failure (secrets).
THEOREM SecretsAreScrubbedThm == Spec => []SecretsAreScrubbed
<1>1. StoresInv => SecretsAreScrubbed
  <2>. SUFFICES ASSUME StoresInv, NEW f \in Fetches, At(f, "returned"),
                       config.store = "s3" => f \notin overlapped
                PROVE  Valued(sent[f], Hidden(config)) \subseteq Valued(args[f], Secrets(config))
    BY DEF SecretsAreScrubbed
  <2>1. sent[f] = args[f]
    BY DEF StoresInv, Presented, UsesItsOwn
  <2>2. Hidden(config) \subseteq Secrets(config)
    BY HiddenIsSecret DEF StoresInv, TypeOK
  <2>. QED  BY <2>1, <2>2 DEF Valued
<1>. QED  BY <1>1, StoresInvariant, PTL

=============================================================================
