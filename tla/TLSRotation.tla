----------------------------- MODULE TLSRotation ------------------------------
(***************************************************************************)
(* The certificate of the admission webhooks: TLSManager.EnsureCert and    *)
(* patchWebhookCABundle of internal/webhook/tls.go, called by Start and    *)
(* runRotationLoop of server.go, one step for each call to the API server. *)
(*                                                                         *)
(* The certificate is in three places that no transaction joins: the       *)
(* Secret, the caBundle of each ValidatingWebhookConfiguration, and the    *)
(* certHolder the TLS server reads.  The API server calls a webhook only   *)
(* when its caBundle is the certificate that is served.                    *)
(*                                                                         *)
(* A tick is the 12h of the loop's ticker; a round takes much less.  A     *)
(* certificate has an age in ticks.  Only the leader runs the webhook, so  *)
(* there is one process.                                                   *)
(***************************************************************************)
EXTENDS Integers, Sequences, Functions

CONSTANTS
  Certs,          \* the certificates, a new one is any that is nowhere in use
  certValidity,   \* the age at which a certificate expires
  certRenewBefore,
  Faults,         \* which of AllFaults happen
  Absent,         \* no such object, or no certificate in the holder
  Empty           \* a Secret or a caBundle without a certificate

AllFaults == {"error",    \* a call to the API server fails
              "lost",     \* a write is done and its reply is lost
              "crash",    \* the operator stops, or loses its lease, at any point
              "secret",   \* somebody deletes or spoils the Secret, or its key
              "install"}  \* Helm installs, removes or resets a webhook configuration

ASSUME TLSAssumption ==
  /\ certValidity \in Nat /\ certRenewBefore \in Nat
  /\ 0 < certRenewBefore /\ certRenewBefore < certValidity
  /\ Absent \notin Certs /\ Empty \notin Certs /\ Absent # Empty
  /\ Faults \subseteq AllFaults

\* The configurations, in the order of patchWebhookCABundle.
Configs == <<"klink-gate", "klink-wd-validator">>
Webhooks == Range(Configs)

VARIABLES
  secret,    \* the certificate that Secret/klink-webhook-tls has
  keyFits,   \* the key that it has is that of the certificate
  caBundle,  \* caBundle[n]: what configuration n has
  holder,    \* what the TLS server serves
  age,       \* age[c], kept only while c is stored or served
  pc,        \* what the round does next
  pem,       \* the certificate of the round
  fits,      \* the key of the round is that of the certificate
  current,   \* the Secret is still as the round read it
  next,      \* the configuration that is next
  has,       \* it had the certificate of the round when the round read it
  \* History, for the properties only:
  since,     \* ticks since a round last reached the holder
  clean      \* nothing has gone wrong since the round began

vars == <<secret, keyFits, caBundle, holder, age, pc, pem, fits, current, next, has,
          since, clean>>
keyPair == <<secret, keyFits>>
store == <<secret, keyFits, caBundle>>
round == <<pem, fits, current, next, has>>
history == <<since, clean>>

TypeOK ==
  /\ secret \in Certs \cup {Absent, Empty}
  /\ keyFits \in BOOLEAN
  /\ caBundle \in [Webhooks -> Certs \cup {Absent, Empty}]
  /\ holder \in Certs \cup {Absent}
  /\ age \in [Certs -> Nat]
  /\ pc \in {"off", "get", "save", "read", "patch", "load", "wait"}
  /\ pem \in Certs \cup {Absent}
  /\ fits \in BOOLEAN
  /\ current \in BOOLEAN
  /\ next \in 1 .. Len(Configs)
  /\ has \in BOOLEAN
  /\ since \in Nat
  /\ clean \in BOOLEAN

\* The operator is installed with its configurations, and has not started.
Init ==
  /\ secret \in {Absent, Empty} /\ keyFits = FALSE
  /\ caBundle \in [Webhooks -> {Absent, Empty}]
  /\ holder = Absent
  /\ age = [c \in Certs |-> 0]
  /\ pc = "off"
  /\ pem = Absent /\ fits = FALSE /\ current = FALSE /\ next = 1 /\ has = FALSE
  /\ since = 0 /\ clean = FALSE
-----------------------------------------------------------------------------
(***************************************************************************)
(* A round: EnsureCert, then the key pair into the holder.                 *)
(***************************************************************************)

\* Mutant: a certificate is renewed when it has expired.
certNeedsRenewal_Expired(c) == c = Empty \/ age[c] >= certValidity

certNeedsRenewal(c) == c = Empty \/ certValidity - age[c] < certRenewBefore

\* A new certificate has a new key.  Which of the unused names it gets is immaterial.
Unused ==
  LET unused == Certs \ ({secret, holder} \cup Range(caBundle))
  IN  IF unused = {} THEN {} ELSE {CHOOSE c \in unused : TRUE}

Reusable == secret # Absent /\ ~certNeedsRenewal(secret)

\* The round is over and leaves nothing behind.
EndRound(where) ==
  /\ pc' = where
  /\ pem' = Absent /\ fits' = FALSE /\ current' = FALSE /\ next' = 1 /\ has' = FALSE

\* An error ends the round: Start returns it and the process ends, the loop logs
\* it and goes on with what it serves.
GiveUp == EndRound(IF holder = Absent THEN "off" ELSE "wait")

\* EnsureCert returns an error.
Fail ==
  /\ GiveUp
  /\ UNCHANGED <<caBundle, holder, age, since>>
  /\ clean' = FALSE

\* Start, after the process was started again.
Start ==
  /\ pc = "off"
  /\ pc' = "get"
  /\ clean' = TRUE
  /\ UNCHANGED <<holder, age, since>> /\ UNCHANGED store /\ UNCHANGED round

GetFails ==
  /\ "error" \in Faults
  /\ pc = "get"
  /\ Fail /\ UNCHANGED keyPair

\* Mutant: a certificate that is still good is not published again.
KeepCert_NoPatch ==
  /\ pc = "get" /\ Reusable
  /\ pem' = secret /\ fits' = keyFits
  /\ current' = TRUE
  /\ pc' = "load"
  /\ UNCHANGED <<holder, age, next, has>>
  /\ UNCHANGED store /\ UNCHANGED history

\* The Secret has a certificate that is good for long enough.
KeepCert ==
  /\ pc = "get" /\ Reusable
  /\ pem' = secret /\ fits' = keyFits
  /\ current' = TRUE
  /\ pc' = "read"
  /\ UNCHANGED <<holder, age, next, has>>
  /\ UNCHANGED store /\ UNCHANGED history

\* Mutant: published first, saved later.
generateCert_Publish ==
  /\ pc = "get" /\ ~Reusable
  /\ \E c \in Unused :
       /\ pem' = c /\ fits' = TRUE
       /\ age' = [age EXCEPT ![c] = 0]
  /\ current' = TRUE
  /\ pc' = "read"
  /\ UNCHANGED <<holder, next, has, since, clean>> /\ UNCHANGED store

generateCert ==
  /\ pc = "get" /\ ~Reusable
  /\ \E c \in Unused :
       /\ pem' = c /\ fits' = TRUE
       /\ age' = [age EXCEPT ![c] = 0]
  /\ current' = TRUE
  /\ pc' = "save"
  /\ UNCHANGED <<holder, next, has, since, clean>> /\ UNCHANGED store

\* Create, or Update with the resourceVersion that was read.
SaveSecret ==
  /\ pc = "save" /\ current
  /\ secret' = pem /\ keyFits' = fits
  /\ pc' = "read"
  /\ UNCHANGED <<caBundle, holder, age, since, clean>> /\ UNCHANGED round

\* A conflict, a Secret that is gone, or another error.
SaveFails ==
  /\ pc = "save"
  /\ "error" \in Faults \/ ~current
  /\ Fail /\ UNCHANGED keyPair

SaveLost ==
  /\ "lost" \in Faults
  /\ pc = "save" /\ current
  /\ secret' = pem /\ keyFits' = fits
  /\ Fail

\* Mutant: the loop runs past its last configuration.
NextConfig_Past ==
  IF next <= Len(Configs) THEN pc' = "read" /\ next' = next + 1
                          ELSE pc' = "load" /\ UNCHANGED next

\* The end of one turn of the loop in patchWebhookCABundle.
NextConfig ==
  IF next < Len(Configs) THEN pc' = "read" /\ next' = next + 1
                         ELSE pc' = "load" /\ UNCHANGED next

\* The loop of patchWebhookCABundle: a configuration that is not installed is skipped.
ReadConfig ==
  /\ pc = "read"
  /\ IF caBundle[Configs[next]] = Absent
     THEN NextConfig /\ UNCHANGED has
     ELSE pc' = "patch" /\ has' = (caBundle[Configs[next]] = pem) /\ UNCHANGED next
  /\ UNCHANGED <<holder, age, pem, fits, current>> /\ UNCHANGED store /\ UNCHANGED history

\* The merge patch is empty when the copy that was read has the certificate already.
PatchConfig ==
  /\ pc = "patch" /\ caBundle[Configs[next]] # Absent
  /\ caBundle' = [caBundle EXCEPT ![Configs[next]] = IF has THEN @ ELSE pem]
  /\ NextConfig
  /\ UNCHANGED <<holder, age, pem, fits, current, has>>
  /\ UNCHANGED keyPair /\ UNCHANGED history

\* The patch is done, the error skips the configurations that are left.
PatchLost ==
  /\ "lost" \in Faults
  /\ pc = "patch" /\ caBundle[Configs[next]] # Absent
  /\ caBundle' = [caBundle EXCEPT ![Configs[next]] = IF has THEN @ ELSE pem]
  /\ pc' = "load"
  /\ clean' = FALSE
  /\ UNCHANGED <<holder, age, since>> /\ UNCHANGED keyPair /\ UNCHANGED round

\* An error skips the configurations that are left; EnsureCert only logs it.
ConfigFails ==
  /\ \/ pc \in {"read", "patch"} /\ "error" \in Faults
     \/ pc = "patch" /\ caBundle[Configs[next]] = Absent
  /\ pc' = "load"
  /\ clean' = FALSE
  /\ UNCHANGED <<holder, age, since>> /\ UNCHANGED store /\ UNCHANGED round

\* Mutant: the server keeps the certificate it started with.
SetHolder_Once ==
  /\ pc = "load" /\ fits
  /\ holder' = IF holder = Absent THEN pem ELSE holder
  /\ since' = 0
  /\ EndRound("wait")
  /\ UNCHANGED <<age, clean>> /\ UNCHANGED store

\* tls.X509KeyPair and holder.set; Start goes on to serve and starts the loop.
SetHolder ==
  /\ pc = "load" /\ fits
  /\ holder' = pem
  /\ since' = 0
  /\ EndRound("wait")
  /\ UNCHANGED <<age, clean>> /\ UNCHANGED store

\* tls.X509KeyPair refuses the pair, which EnsureCert did not look at: the
\* configurations have the new certificate, the holder keeps what it had.
LoadFails ==
  /\ pc = "load" /\ ~fits
  /\ GiveUp
  /\ UNCHANGED <<holder, age>> /\ UNCHANGED store /\ UNCHANGED history

EnsureCert ==
  \/ GetFails \/ KeepCert \/ generateCert \/ SaveSecret \/ SaveFails \/ SaveLost
  \/ ReadConfig \/ PatchConfig \/ PatchLost \/ ConfigFails
-----------------------------------------------------------------------------
(***************************************************************************)
(* Time, crashes, and the cluster's users.                                 *)
(***************************************************************************)

AtMost(n, limit) == IF n < limit THEN n ELSE limit

\* 12h pass, and the ticker of a loop that waits starts a round.
Tick ==
  /\ pc \in {"off", "wait"}
  /\ age' = [c \in Certs |-> IF c \in {secret, holder} THEN AtMost(age[c] + 1, certValidity)
                                                       ELSE 0]
  /\ since' = AtMost(since + 1, certRenewBefore)
  /\ IF pc = "wait" THEN pc' = "get" /\ clean' = TRUE ELSE UNCHANGED <<pc, clean>>
  /\ UNCHANGED <<holder>> /\ UNCHANGED store /\ UNCHANGED round

Crash ==
  /\ "crash" \in Faults
  /\ pc # "off"
  /\ EndRound("off")
  /\ holder' = Absent
  /\ clean' = FALSE
  /\ UNCHANGED <<age, since>> /\ UNCHANGED store

\* kubectl delete secret, a Secret without a certificate in its place, or another
\* key beside the certificate.
ChangeSecret ==
  /\ "secret" \in Faults
  /\ \/ secret' \in {Absent, Empty} \ {secret} /\ keyFits' = FALSE
     \/ keyFits /\ keyFits' = FALSE /\ UNCHANGED secret
  /\ current' = FALSE
  /\ clean' = FALSE
  /\ UNCHANGED <<caBundle, holder, age, pc, pem, fits, next, has, since>>

\* helm install, upgrade (the template has an empty caBundle) or uninstall.
ChangeConfig(n) ==
  /\ "install" \in Faults
  /\ \E b \in {Absent, Empty} \ {caBundle[n]} : caBundle' = [caBundle EXCEPT ![n] = b]
  /\ clean' = FALSE
  /\ UNCHANGED <<holder, age, pc, since>> /\ UNCHANGED keyPair /\ UNCHANGED round

Disturbance ==
  \/ Crash \/ ChangeSecret \/ \E n \in Webhooks : ChangeConfig(n)
  \/ GetFails \/ SaveFails \/ SaveLost \/ PatchLost \/ ConfigFails

Next ==
  \/ Start \/ EnsureCert \/ SetHolder \/ LoadFails \/ Tick
  \/ Crash \/ ChangeSecret \/ \E n \in Webhooks : ChangeConfig(n)

Spec == Init /\ [][Next]_vars

\* The kubelet starts the process again, and calls return.  Time passes: strong
\* fairness, since a process that starts and fails again and again takes no tick.
FairSpec ==
  /\ Spec
  /\ WF_vars(Start) /\ WF_vars(EnsureCert) /\ WF_vars(SetHolder \/ LoadFails)
  /\ SF_vars(Tick)
-----------------------------------------------------------------------------
(***************************************************************************)
(* Properties.                                                             *)
(***************************************************************************)

\* The API server would call webhook n.
Trusted(n) == caBundle[n] = holder /\ age[holder] < certValidity

Installed == {n \in Webhooks : caBundle[n] # Absent}

\* One round is enough: after a round in which no call failed and nobody touched
\* the Secret or the configurations, every configuration that is installed trusts
\* what is served, whatever crashes, errors and resets came before it.  A Secret
\* whose key does not fit its certificate is the one thing a round does not repair.
RoundRepairs == pc = "wait" /\ clean /\ keyFits => \A n \in Installed : Trusted(n)

\* An expired certificate is served only if no round has reached the holder for the
\* whole of certRenewBefore, however many rounds failed before.
ServesUnexpired ==
  holder # Absent /\ since < certRenewBefore => age[holder] < certValidity

\* The Secret comes first: a certificate is published, and served, only when it is
\* the one in the Secret, unless somebody has changed the Secret since the round
\* read it.  So a crash at any point leaves what a restart can serve.
SecretFirst ==
  [][\/ ~current
     \/ /\ \A n \in Webhooks : caBundle'[n] \in {caBundle[n], Absent, Empty, secret}
        /\ holder' \in {holder, Absent, secret}]_vars

\* Trust returns by itself: once the faults stop, between rounds every installed
\* configuration trusts what is served, for good, rotations included.  If the key in
\* the Secret does not fit, this takes until its certificate is due for renewal: until
\* then every round publishes it and fails to serve it.
TrustReturns ==
  <>[][~Disturbance]_vars => <>[](pc = "wait" => \A n \in Installed : Trusted(n))
=============================================================================
