------------------------------ MODULE TLSProofs -------------------------------
(***************************************************************************)
(* The three safety properties of TLSRotation, for every validity and      *)
(* renewal period and any set of faults.  Each is about the end of a       *)
(* round, and each needs to know what the round has in hand: AgeInv that   *)
(* it is young enough, TrustInv that the configurations behind it have it, *)
(* SecretInv that the Secret has it too.                                   *)
(***************************************************************************)
EXTENDS TLSRotation, TLAPS

\* The round has a certificate in hand.
InHand == pc \in {"save", "read", "patch", "load"}

AgeInv ==
  /\ \A c \in Certs : age[c] <= certValidity
  /\ since <= certRenewBefore
  /\ InHand => pem \in Certs /\ age[pem] <= certValidity - certRenewBefore
  /\ holder # Absent => age[holder] <= certValidity - certRenewBefore + since

\* While the round is clean, the configurations it has passed have its certificate,
\* and it knows the key of the Secret.
TrustInv ==
  /\ pc \in {"off", "get", "save", "wait"} => next = 1
  /\ pc = "wait" => holder # Absent
  /\ clean => /\ pc \in {"read", "patch"} =>
                   \A i \in 1 .. next - 1 : caBundle[Configs[i]] \in {Absent, pem}
              /\ pc = "patch" => (has <=> caBundle[Configs[next]] = pem)
              /\ pc = "load" => \A n \in Webhooks : caBundle[n] \in {Absent, pem}
              /\ pc \in {"read", "patch", "load"} => (fits <=> keyFits)
              /\ pc = "wait" /\ keyFits =>
                                /\ \A n \in Webhooks : caBundle[n] \in {Absent, holder}
                                /\ age[holder] < certValidity

SecretInv == pc \in {"read", "patch", "load"} /\ current => secret = pem

Inv == TypeOK /\ AgeInv /\ TrustInv /\ SecretInv
-----------------------------------------------------------------------------
\* There are two configurations.
LEMMA TwoConfigs ==
  /\ Len(Configs) = 2
  /\ Configs[1] = "klink-gate" /\ Configs[2] = "klink-wd-validator"
  /\ Webhooks = {"klink-gate", "klink-wd-validator"}
BY DEF Configs, Webhooks, Range

\* A certificate that a round generates is one that nobody has.
LEMMA UnusedIsNew ==
  ASSUME NEW c \in Unused
  PROVE  c \in Certs /\ c # secret /\ c # holder
BY DEF Unused

\* A round ends with nothing in hand.
LEMMA EndRoundType ==
  ASSUME NEW w \in {"off", "wait"}, EndRound(w)
  PROVE  /\ pc' \in {"off", "get", "save", "read", "patch", "load", "wait"}
         /\ pem' \in Certs \cup {Absent}
         /\ fits' \in BOOLEAN /\ current' \in BOOLEAN /\ has' \in BOOLEAN
         /\ next' \in 1 .. Len(Configs)
<1>1. 1 \in 1 .. Len(Configs) BY TwoConfigs
<1>2. next' \in 1 .. Len(Configs) BY <1>1 DEF EndRound
<1> QED BY <1>2, Zenon DEF EndRound

\* Every round and everything around it keeps the types.
LEMMA TypeStep == ASSUME TypeOK, [Next]_vars PROVE TypeOK'
<1> USE TLSAssumption DEF TypeOK, keyPair, store, round, history
<1>1. CASE Start BY <1>1 DEF Start
<1>2. ASSUME Fail, secret' \in Certs \cup {Absent, Empty}, keyFits' \in BOOLEAN PROVE TypeOK'
  BY <1>2, EndRoundType, Zenon DEF Fail, GiveUp
<1>3. CASE GetFails \/ SaveFails BY <1>2, <1>3 DEF GetFails, SaveFails
<1>4. CASE KeepCert BY <1>4 DEF KeepCert, Reusable, certNeedsRenewal
<1>5. CASE generateCert BY <1>5, UnusedIsNew DEF generateCert
<1>6. CASE SaveSecret BY <1>6 DEF SaveSecret
<1>7. CASE SaveLost BY <1>2, <1>7 DEF SaveLost
<1>8. ASSUME NextConfig
      PROVE  pc' \in {"read", "load"} /\ next' \in 1 .. Len(Configs)
  BY <1>8, TwoConfigs DEF NextConfig
<1>9. CASE ReadConfig
  <2>1. /\ pc' \in {"patch", "read", "load"}
        /\ next' \in 1 .. Len(Configs)
        /\ has' \in BOOLEAN
    BY <1>8, <1>9, Zenon DEF ReadConfig
  <2> QED BY <1>9, <2>1 DEF ReadConfig
<1>10. CASE PatchConfig BY <1>8, <1>10, Zenon DEF PatchConfig
<1>11. CASE PatchLost \/ ConfigFails BY <1>11, Zenon DEF PatchLost, ConfigFails
<1>12. CASE SetHolder \/ LoadFails
  <2>1. CASE SetHolder BY <2>1, EndRoundType DEF SetHolder
  <2>2. CASE LoadFails BY <2>2, EndRoundType, Zenon DEF LoadFails, GiveUp
  <2> QED BY <1>12, <2>1, <2>2
<1>13. CASE Tick
  <2>1. since' \in Nat BY <1>13 DEF Tick, AtMost
  <2>2. age' \in [Certs -> Nat] BY <1>13 DEF Tick, AtMost
  <2>3. pc' \in {"off", "get"} /\ clean' \in BOOLEAN BY <1>13, Zenon DEF Tick
  <2> QED BY <1>13, <2>1, <2>2, <2>3 DEF Tick
<1>14. CASE Crash BY <1>14, EndRoundType, Zenon DEF Crash
<1>15. CASE ChangeSecret BY <1>15, Zenon DEF ChangeSecret
<1>16. ASSUME NEW n \in Webhooks, ChangeConfig(n) PROVE TypeOK'
  <2>1. caBundle' \in [Webhooks -> Certs \cup {Absent, Empty}] BY <1>16 DEF ChangeConfig
  <2> QED BY <1>16, <2>1, Zenon DEF ChangeConfig
<1>17. CASE UNCHANGED vars BY <1>17 DEF vars
<1> QED BY <1>1, <1>3, <1>4, <1>5, <1>6, <1>7, <1>9, <1>10, <1>11, <1>12, <1>13, <1>14,
           <1>15, <1>16, <1>17 DEF Next, EnsureCert
-----------------------------------------------------------------------------
\* The ages: what is in hand was good for certRenewBefore when the round took it,
\* no tick comes between, and what is served has aged since then only.
LEMMA AgeStep == ASSUME TypeOK, AgeInv, [Next]_vars PROVE AgeInv'
<1> USE TLSAssumption DEF TypeOK, AgeInv, InHand, keyPair, store, round, history
<1>1. CASE Start BY <1>1 DEF Start
<1>2. CASE Fail BY <1>2 DEF Fail, GiveUp, EndRound
<1>3. CASE GetFails \/ SaveFails \/ SaveLost
  BY <1>2, <1>3 DEF GetFails, SaveFails, SaveLost
<1>4. CASE KeepCert BY <1>4 DEF KeepCert, Reusable, certNeedsRenewal
<1>5. CASE generateCert
  <2> PICK c \in Unused : pem' = c /\ age' = [age EXCEPT ![c] = 0]
    BY <1>5, Zenon DEF generateCert
  <2>1. c \in Certs /\ c # holder BY UnusedIsNew
  <2>2. \A d \in Certs : age'[d] <= certValidity BY <2>1
  <2>3. age'[pem'] = 0 BY <2>1
  <2>4. holder # Absent => age'[holder] = age[holder] BY <2>1
  <2> QED BY <1>5, <2>1, <2>2, <2>3, <2>4 DEF generateCert
<1>6. CASE SaveSecret BY <1>6 DEF SaveSecret
<1>7. CASE ReadConfig BY <1>7 DEF ReadConfig, NextConfig
<1>8. CASE PatchConfig BY <1>8 DEF PatchConfig, NextConfig
<1>9. CASE PatchLost \/ ConfigFails BY <1>9 DEF PatchLost, ConfigFails
<1>10. CASE SetHolder
  <2>1. age[pem] <= certValidity - certRenewBefore + 0 BY <1>10 DEF SetHolder
  <2> QED BY <1>10, <2>1 DEF SetHolder, EndRound
<1>10a. CASE LoadFails BY <1>10a DEF LoadFails, GiveUp, EndRound
<1>11. CASE Tick
  <2>1. \A c \in Certs : age'[c] <= certValidity BY <1>11 DEF Tick, AtMost
  <2>2. since' <= certRenewBefore BY <1>11 DEF Tick, AtMost
  <2>3. ~InHand' BY <1>11 DEF Tick
  <2>4. ASSUME holder # Absent
        PROVE  age'[holder] <= certValidity - certRenewBefore + since'
    <3>1. age'[holder] = AtMost(age[holder] + 1, certValidity) BY <1>11, <2>4 DEF Tick
    <3>2. age[holder] \in Nat /\ age[holder] <= certValidity BY <2>4
    <3> QED BY <1>11, <2>4, <3>1, <3>2 DEF Tick, AtMost
  <2> QED BY <1>11, <2>1, <2>2, <2>3, <2>4 DEF Tick
<1>12. CASE Crash BY <1>12 DEF Crash, EndRound
<1>13. CASE ChangeSecret BY <1>13 DEF ChangeSecret
<1>14. ASSUME NEW n \in Webhooks, ChangeConfig(n) PROVE AgeInv' BY <1>14 DEF ChangeConfig
<1>15. CASE UNCHANGED vars BY <1>15 DEF vars
<1> QED BY <1>1, <1>3, <1>4, <1>5, <1>6, <1>7, <1>8, <1>9, <1>10, <1>10a, <1>11, <1>12,
           <1>13, <1>14, <1>15 DEF Next, EnsureCert

\* The Secret has what the round publishes, until somebody changes it.
LEMMA SecretStep == ASSUME TypeOK, SecretInv, [Next]_vars PROVE SecretInv'
<1>0. UNCHANGED vars => UNCHANGED <<secret, pc, pem, current>> BY DEF vars
<1> USE DEF TypeOK, SecretInv, keyPair, store, round, history
<1>1. CASE Start BY <1>1 DEF Start
<1>2. CASE Fail BY <1>2 DEF Fail, GiveUp, EndRound
<1>3. CASE GetFails \/ SaveFails \/ SaveLost
  BY <1>2, <1>3 DEF GetFails, SaveFails, SaveLost
<1>4. CASE KeepCert BY <1>4 DEF KeepCert
<1>5. CASE generateCert BY <1>5 DEF generateCert
<1>6. CASE SaveSecret BY <1>6 DEF SaveSecret
<1>7. CASE ReadConfig BY <1>7 DEF ReadConfig, NextConfig
<1>8. CASE PatchConfig BY <1>8 DEF PatchConfig, NextConfig
<1>9. CASE PatchLost \/ ConfigFails BY <1>9, Zenon DEF PatchLost, ConfigFails
<1>10. CASE SetHolder BY <1>10 DEF SetHolder, EndRound
<1>10a. CASE LoadFails BY <1>10a DEF LoadFails, GiveUp, EndRound
<1>11. CASE Tick BY <1>11 DEF Tick
<1>12. CASE Crash BY <1>12 DEF Crash, EndRound
<1>13. CASE ChangeSecret BY <1>13 DEF ChangeSecret
<1>14. ASSUME NEW n \in Webhooks, ChangeConfig(n) PROVE SecretInv' BY <1>14 DEF ChangeConfig
<1>15. CASE UNCHANGED vars
  <2>1. UNCHANGED <<secret, pc, pem, current>> BY <1>0, <1>15
  <2> HIDE DEF TypeOK, keyPair, store, round, history
  <2> QED BY <2>1
<1> QED BY <1>1, <1>3, <1>4, <1>5, <1>6, <1>7, <1>8, <1>9, <1>10, <1>10a, <1>11, <1>12,
           <1>13, <1>14, <1>15 DEF Next, EnsureCert

\* A clean round: the configurations behind it are patched one by one.
LEMMA TrustStep == ASSUME TypeOK, AgeInv, TrustInv, [Next]_vars PROVE TrustInv'
<1> USE TLSAssumption, TwoConfigs DEF TypeOK, TrustInv, keyPair, store, round, history
<1>1. CASE Start BY <1>1 DEF Start
<1>2. CASE Fail BY <1>2 DEF Fail, GiveUp, EndRound
<1>3. CASE GetFails \/ SaveFails \/ SaveLost
  BY <1>2, <1>3 DEF GetFails, SaveFails, SaveLost
<1>4. CASE KeepCert BY <1>4 DEF KeepCert
<1>5. CASE generateCert BY <1>5 DEF generateCert
<1>6. CASE SaveSecret BY <1>6 DEF SaveSecret
<1>7. next \in {1, 2} /\ 1 .. 0 = {} /\ 1 .. 1 = {1} OBVIOUS
<1>8. CASE ReadConfig
  <2>1. CASE caBundle[Configs[next]] # Absent BY <1>8, <2>1, Zenon DEF ReadConfig
  <2>2. CASE caBundle[Configs[next]] = Absent /\ next = 1
    BY <1>7, <1>8, <2>2 DEF ReadConfig, NextConfig
  <2>3. CASE caBundle[Configs[next]] = Absent /\ next = 2
    BY <1>7, <1>8, <2>3 DEF ReadConfig, NextConfig
  <2> QED BY <1>7, <2>1, <2>2, <2>3
<1>9. CASE PatchConfig
  <2>1. clean => caBundle'[Configs[next]] = pem BY <1>9 DEF PatchConfig
  <2>2. CASE next = 1
    <3>1. pc' = "read" /\ next' = 2 BY <1>9, <2>2 DEF PatchConfig, NextConfig
    <3> QED BY <1>7, <1>9, <2>1, <2>2, <3>1 DEF PatchConfig
  <2>3. CASE next = 2
    <3>1. pc' = "load" BY <1>9, <2>3 DEF PatchConfig, NextConfig
    <3>2. clean => caBundle'["klink-gate"] \in {Absent, pem} BY <1>9, <2>3 DEF PatchConfig
    <3>3. clean => \A n \in Webhooks : caBundle'[n] \in {Absent, pem} BY <2>1, <2>3, <3>2
    <3> QED BY <1>9, <3>1, <3>3 DEF PatchConfig
  <2> QED BY <1>7, <2>2, <2>3
<1>10. CASE PatchLost \/ ConfigFails BY <1>10 DEF PatchLost, ConfigFails
<1>11. CASE SetHolder
  <2>1. pem \in Certs /\ age[pem] < certValidity BY <1>11 DEF SetHolder, AgeInv, InHand
  <2> QED BY <1>11, <2>1 DEF SetHolder, EndRound
<1>11a. CASE LoadFails BY <1>11a DEF LoadFails, GiveUp, EndRound
<1>12. CASE Tick BY <1>12 DEF Tick
<1>13. CASE Crash BY <1>13 DEF Crash, EndRound
<1>14. CASE ChangeSecret BY <1>14 DEF ChangeSecret
<1>15. ASSUME NEW n \in Webhooks, ChangeConfig(n) PROVE TrustInv' BY <1>15 DEF ChangeConfig
<1>16. CASE UNCHANGED vars BY <1>16 DEF vars
<1> QED BY <1>1, <1>3, <1>4, <1>5, <1>6, <1>8, <1>9, <1>10, <1>11, <1>11a, <1>12, <1>13,
           <1>14, <1>15, <1>16 DEF Next, EnsureCert

\* Before the first round nothing has been issued.
LEMMA InitInv == Init => Inv
<1> SUFFICES ASSUME Init PROVE Inv OBVIOUS
<1>1. TypeOK
  <2>1. 1 \in 1 .. Len(Configs) BY TwoConfigs
  <2> QED BY <2>1, TLSAssumption, Zenon DEF Init, TypeOK
<1>2. AgeInv /\ TrustInv /\ SecretInv
  BY TLSAssumption, TwoConfigs DEF Init, AgeInv, InHand, TrustInv, SecretInv
<1> QED BY <1>1, <1>2 DEF Inv

\* Every step of the rotation keeps Inv.
LEMMA InvHolds == Spec => []Inv
<1>1. Inv /\ [Next]_vars => Inv' BY TypeStep, AgeStep, TrustStep, SecretStep DEF Inv
<1> QED BY <1>1, InitInv, PTL DEF Spec

\* The variables of the rotation have their types: the loop of EnsureCert over the
\* configurations does not run past the last of them.
THEOREM RotationTypes == Spec => []TypeOK
  BY InvHolds, PTL DEF Inv
-----------------------------------------------------------------------------
\* One clean round of EnsureCert repairs everything but a key that does not fit,
\* whatever came before it.
THEOREM OneRoundRepairs == Spec => []RoundRepairs
<1>1. Inv => RoundRepairs
  BY DEF Inv, TypeOK, TrustInv, RoundRepairs, Installed, Trusted
<1> QED BY <1>1, InvHolds, PTL

\* The server does not serve an expired certificate while rounds succeed at least
\* once in every certRenewBefore.
THEOREM NoExpiredCertificate == Spec => []ServesUnexpired
<1>1. Inv => ServesUnexpired
  BY TLSAssumption DEF Inv, TypeOK, AgeInv, ServesUnexpired
<1> QED BY <1>1, InvHolds, PTL

\* The Secret has a certificate before a configuration or the server has it.
THEOREM SavedBeforePublished == Spec => SecretFirst
<1> DEFINE Publishes ==
      \/ ~current
      \/ /\ \A n \in Webhooks : caBundle'[n] \in {caBundle[n], Absent, Empty, secret}
         /\ holder' \in {holder, Absent, secret}
<1>1. ASSUME Inv, [Next]_vars, current PROVE [Publishes]_vars
  <2> USE <1>1, TwoConfigs DEF Inv, TypeOK, SecretInv, keyPair, store, round
  <2>1. CASE PatchConfig \/ PatchLost BY <2>1, Zenon DEF PatchConfig, PatchLost
  <2>2. CASE SetHolder BY <2>2 DEF SetHolder
  <2>3. ASSUME NEW n \in Webhooks, ChangeConfig(n) PROVE Publishes BY <2>3 DEF ChangeConfig
  <2>4. CASE Start \/ Tick \/ Crash \/ ChangeSecret \/ LoadFails
    BY <2>4, Zenon DEF Start, Tick, Crash, ChangeSecret, LoadFails
  <2>5. CASE \/ GetFails \/ KeepCert \/ generateCert \/ SaveSecret \/ SaveFails \/ SaveLost
             \/ ReadConfig \/ ConfigFails
    BY <2>5, Zenon DEF GetFails, KeepCert, generateCert, SaveSecret, SaveFails, SaveLost,
                       ReadConfig, ConfigFails, Fail
  <2> QED BY <2>1, <2>2, <2>3, <2>4, <2>5 DEF Next, EnsureCert
<1>2. Inv /\ [Next]_vars => [Publishes]_vars BY <1>1
<1> QED BY <1>2, InvHolds, PTL DEF Spec, SecretFirst
=============================================================================
