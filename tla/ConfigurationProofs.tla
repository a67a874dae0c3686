------------------------ MODULE ConfigurationProofs ------------------------
(***************************************************************************)
(* That a saved rule keeps its targets and the keyring no credential too   *)
(* many, for any channels, rules, projects, threads and faults.            *)
(***************************************************************************)
EXTENDS Configuration, TLAPS

(***************************************************************************)
(* Commands                                                                *)
(***************************************************************************)
LEMMA IdleIsCommand == Idle \in Command /\ Idle.stage = "found"
  <1>1. (CHOOSE c \in Channels : TRUE) \in Channels
    BY ConfigurationAssumption
  <1> QED BY <1>1 DEF Idle, Command, Operations, Stages

\* What one client's step does to its command and to the others'.
LEMMA OneGoes ==
  ASSUME TypeOK, NEW k \in Clients, NEW op \in Operations, NEW c \in Channels,
         NEW stage \in Stages, Goes(k, op, c, stage)
  PROVE  /\ cmd' \in [Clients -> Command]
         /\ cmd'[k].op = op /\ cmd'[k].chan = c /\ cmd'[k].stage = stage
         /\ \A j \in Clients : j # k => cmd'[j] = cmd[j]
  BY DEF Goes, TypeOK, Command

LEMMA OneEnds ==
  ASSUME TypeOK, NEW k \in Clients, Ends(k)
  PROVE  /\ cmd' \in [Clients -> Command]
         /\ cmd'[k].stage = "found"
         /\ \A j \in Clients : j # k => cmd'[j] = cmd[j]
  BY IdleIsCommand DEF Ends, TypeOK

LEMMA CommandTyped ==
  ASSUME TypeOK, NEW k \in Clients
  PROVE  cmd[k].chan \in Channels /\ cmd[k].op \in Operations /\ cmd[k].stage \in Stages
  BY DEF TypeOK, Command

LEMMA RowSet ==
  ASSUME TypeOK, NEW c \in Channels, NEW present \in BOOLEAN, SetRow(c, present)
  PROVE  /\ exists' \in [Channels -> BOOLEAN]
         /\ \A d \in Channels : exists'[d] = IF d = c THEN present ELSE exists[d]
  BY DEF SetRow, TypeOK

LEMMA SecretSet ==
  ASSUME TypeOK, NEW c \in Channels, NEW present \in BOOLEAN, SetSecret(c, present)
  PROVE  /\ secret' \in [Channels -> BOOLEAN]
         /\ \A d \in Channels : secret'[d] = IF d = c THEN present ELSE secret[d]
  BY DEF SetSecret, TypeOK

(***************************************************************************)
(* Patches                                                                 *)
(***************************************************************************)
LEMMA NoPatchTyped == NoPatch \in RulePatch
  BY DEF NoPatch, RulePatch

\* Resetting a field leaves a patch that is not on, or one without targets.
LEMMA ClearedPatch ==
  ASSUME NEW q \in RulePatch, NEW field \in PatchFields
  PROVE  /\ Cleared(q, field) \in RulePatch
         /\ Cleared(q, field).on # "on" \/ Cleared(q, field).targets = {}
  BY DEF Cleared, PatchFields, RulePatch

LEMMA PatchPut ==
  ASSUME TypeOK, NEW p \in Projects, NEW r \in Rules, NEW q \in RulePatch, PutPatch(p, r, q)
  PROVE  /\ patch' \in [Projects -> [Rules -> RulePatch]]
         /\ \A o \in Projects, s \in Rules :
              patch'[o][s] = IF o = p /\ s = r THEN q ELSE patch[o][s]
  BY DEF PutPatch, TypeOK

(***************************************************************************)
(* Types                                                                   *)
(***************************************************************************)
LEMMA TypeInit == Init => TypeOK
  <1> SUFFICES ASSUME Init PROVE TypeOK
    OBVIOUS
  <1>1. global \in [Rules -> GlobalRule]
    BY DEF Init, GlobalRule
  <1>2. patch \in [Projects -> [Rules -> RulePatch]]
    BY NoPatchTyped DEF Init
  <1>3. cmd \in [Clients -> Command]
    BY IdleIsCommand DEF Init
  <1> QED BY <1>1, <1>2, <1>3 DEF Init, TypeOK

LEMMA TypeStep == TypeOK /\ [Next]_vars => TypeOK'
  <1> SUFFICES ASSUME TypeOK, [Next]_vars PROVE TypeOK'
    OBVIOUS
  <1> USE DEF Operations, Stages
  <1>1. ASSUME NEW r \in Rules, SaveGlobalRule(r) PROVE TypeOK'
    BY <1>1 DEF SaveGlobalRule, PutGlobalRule, TypeOK
  <1>2. ASSUME NEW p \in Projects, NEW r \in Rules, SaveProjectPatch(p, r) PROVE TypeOK'
    <2>1. patch' \in [Projects -> [Rules -> RulePatch]]
      BY <1>2, PatchPut DEF SaveProjectPatch
    <2> QED BY <1>2, <2>1 DEF SaveProjectPatch, TypeOK
  <1>3. ASSUME NEW p \in Projects, NEW r \in Rules, ResetPatchField(p, r) PROVE TypeOK'
    <2>1. PICK field \in PatchFields : PutPatch(p, r, Cleared(patch[p][r], field))
      BY <1>3 DEF ResetPatchField
    <2>2. Cleared(patch[p][r], field) \in RulePatch
      BY ClearedPatch DEF TypeOK
    <2>3. patch' \in [Projects -> [Rules -> RulePatch]]
      BY <2>1, <2>2, PatchPut
    <2> QED BY <1>3, <2>3 DEF ResetPatchField, TypeOK
  <1>4. ASSUME NEW k \in Clients, NEW c \in Channels, Find(k, c) \/ StoreNew(k, c) PROVE TypeOK'
    <2>1. CASE Find(k, c)
      <3>1. cmd' \in [Clients -> Command]
        BY <2>1, OneGoes DEF Find
      <3> QED BY <2>1, <3>1 DEF Find, TypeOK, rules
    <2>2. CASE StoreNew(k, c)
      <3>1. cmd' \in [Clients -> Command] /\ secret' \in [Channels -> BOOLEAN]
        BY <2>2, OneGoes, SecretSet DEF StoreNew
      <3> QED BY <2>2, <3>1 DEF StoreNew, TypeOK, rules
    <2> QED BY <1>4, <2>1, <2>2
  <1>5. ASSUME NEW k \in Clients,
               StoreReplacement(k) \/ SaveRow(k) \/ SaveRowFails(k)
               \/ DeleteRow(k) \/ DeleteSecret(k) \/ StopsShort(k)
        PROVE  TypeOK'
    <2> DEFINE c == cmd[k].chan
    <2>0. c \in Channels
      BY CommandTyped
    <2>1. CASE StoreReplacement(k)
      <3>1. cmd' \in [Clients -> Command] /\ secret' \in [Channels -> BOOLEAN]
        BY <2>0, <2>1, OneGoes, SecretSet DEF StoreReplacement
      <3> QED BY <2>1, <3>1 DEF StoreReplacement, TypeOK, rules
    <2>2. CASE SaveRow(k)
      <3>1. cmd' \in [Clients -> Command] /\ exists' \in [Channels -> BOOLEAN]
        BY <2>0, <2>2, OneGoes, OneEnds, RowSet DEF SaveRow
      <3>2. replaced' \subseteq Channels
        BY <2>2 DEF SaveRow, TypeOK
      <3> QED BY <2>2, <3>1, <3>2 DEF SaveRow, TypeOK, rules
    <2>3. CASE SaveRowFails(k)
      <3>1. cmd' \in [Clients -> Command]
        BY <2>0, <2>3, OneGoes, OneEnds DEF SaveRowFails
      <3> QED BY <2>0, <2>3, <3>1 DEF SaveRowFails, Fault, TypeOK, rules
    <2>4. CASE DeleteRow(k)
      <3>1. cmd' \in [Clients -> Command]
        BY <2>0, <2>4, OneGoes, OneEnds DEF DeleteRow
      <3>2. exists' \in [Channels -> BOOLEAN]
        BY <2>0, <2>4, RowSet DEF DeleteRow, TypeOK
      <3> QED BY <2>4, <3>1, <3>2 DEF DeleteRow, TypeOK, rules
    <2>5. CASE DeleteSecret(k)
      <3>1. cmd' \in [Clients -> Command] /\ secret' \in [Channels -> BOOLEAN]
        BY <2>0, <2>5, OneEnds, SecretSet DEF DeleteSecret
      <3>2. replaced' \subseteq Channels
        BY <2>0, <2>5 DEF DeleteSecret, TypeOK
      <3> QED BY <2>5, <3>1, <3>2 DEF DeleteSecret, TypeOK, rules
    <2>6. CASE StopsShort(k)
      <3>1. cmd' \in [Clients -> Command]
        BY <2>6, OneEnds DEF StopsShort
      <3> QED BY <2>0, <2>6, <3>1 DEF StopsShort, Fault, TypeOK, rules
    <2> QED BY <1>5, <2>1, <2>2, <2>3, <2>4, <2>5, <2>6
  <1>6. CASE UNCHANGED vars
    BY <1>6 DEF vars, TypeOK
  <1> QED BY <1>1, <1>2, <1>3, <1>4, <1>5, <1>6 DEF Next

(***************************************************************************)
(* Targets                                                                 *)
(***************************************************************************)
\* What deletion checks is enough: a channel that no rule in force names is
\* named by no rule that is on where it is saved.
LEMMA UntargetedIsUnchosen ==
  ASSUME TypeOK, NEW c \in Channels, ~ Targeted(c)
  PROVE  /\ \A r \in Rules : global[r].on => c \notin global[r].targets
         /\ \A p \in Projects, r \in Rules : patch[p][r].on = "on" => c \notin patch[p][r].targets
  <1>1. ASSUME NEW r \in Rules, global[r].on PROVE c \notin global[r].targets
    <2>1. global[r] \in Effective
      BY DEF Effective
    <2> QED BY <1>1, <2>1 DEF Targeted, Names
  <1>2. ASSUME NEW p \in Projects, NEW r \in Rules, patch[p][r].on = "on",
               c \in patch[p][r].targets
        PROVE  FALSE
    <2>1. Resolved(global[r], patch[p][r]) \in Effective
      BY DEF Effective
    <2>2. patch[p][r].own
      BY <1>2 DEF TypeOK, RulePatch
    <2>3. Names(Resolved(global[r], patch[p][r]), c)
      BY <1>2, <2>2 DEF Names, Resolved
    <2> QED BY <2>1, <2>3 DEF Targeted
  <1> QED BY <1>1, <1>2

\* Rows only appear, and the rules stay: the rules' targets stay.
LEMMA TargetsStay ==
  ASSUME ChosenTargetsExist, TypeOK, UNCHANGED rules,
         \A c \in Channels : exists[c] => exists'[c]
  PROVE  ChosenTargetsExist'
  <1>1. \A r \in Rules : global[r].targets \subseteq Channels
    BY DEF TypeOK, GlobalRule
  <1>2. \A p \in Projects, r \in Rules : patch[p][r].targets \subseteq Channels
    BY DEF TypeOK, RulePatch
  <1> QED BY <1>1, <1>2 DEF ChosenTargetsExist, AllExist, rules

LEMMA TargetsStep == TypeOK /\ ChosenTargetsExist /\ [Next]_vars => ChosenTargetsExist'
  <1> SUFFICES ASSUME TypeOK, ChosenTargetsExist, [Next]_vars PROVE ChosenTargetsExist'
    OBVIOUS
  <1>1. ASSUME NEW r \in Rules, SaveGlobalRule(r) PROVE ChosenTargetsExist'
    <2>1. PICK rule \in GlobalRule : PutGlobalRule(r, rule)
      BY <1>1 DEF SaveGlobalRule
    <2>2. \A s \in Rules : global'[s] = IF s = r THEN rule ELSE global[s]
      BY <2>1 DEF PutGlobalRule, TypeOK
    <2>3. UNCHANGED <<exists, patch>>
      BY <1>1 DEF SaveGlobalRule
    <2>4. AllExist(rule.targets)
      BY <2>1 DEF PutGlobalRule
    <2> QED BY <2>2, <2>3, <2>4 DEF ChosenTargetsExist, AllExist
  <1>2. ASSUME NEW p \in Projects, NEW r \in Rules, NEW q \in RulePatch, PutPatch(p, r, q),
               q.on = "on" => AllExist(q.targets), UNCHANGED <<exists, global>>
        PROVE  ChosenTargetsExist'
    <2>1. \A o \in Projects, s \in Rules :
            patch'[o][s] = IF o = p /\ s = r THEN q ELSE patch[o][s]
      BY <1>2, PatchPut
    <2>2. \A o \in Projects, s \in Rules : patch'[o][s].on = "on" => AllExist(patch'[o][s].targets)
      BY <1>2, <2>1 DEF ChosenTargetsExist
    <2> QED BY <1>2, <2>2 DEF ChosenTargetsExist, AllExist
  <1>3. ASSUME NEW p \in Projects, NEW r \in Rules, SaveProjectPatch(p, r)
        PROVE  ChosenTargetsExist'
    <2>1. PICK q \in RulePatch : PatchTargetsExist(q) /\ PutPatch(p, r, q)
      BY <1>3 DEF SaveProjectPatch
    <2>2. q.own \/ q.targets = {}
      BY DEF RulePatch
    <2>3. AllExist(q.targets)
      BY <2>1, <2>2 DEF PatchTargetsExist, AllExist
    <2> QED BY <1>2, <1>3, <2>1, <2>3 DEF SaveProjectPatch
  <1>4. ASSUME NEW p \in Projects, NEW r \in Rules, ResetPatchField(p, r)
        PROVE  ChosenTargetsExist'
    <2>1. PICK field \in PatchFields : PutPatch(p, r, Cleared(patch[p][r], field))
      BY <1>4 DEF ResetPatchField
    <2> DEFINE q == Cleared(patch[p][r], field)
    <2>2. q \in RulePatch /\ (q.on # "on" \/ q.targets = {})
      BY ClearedPatch DEF TypeOK
    <2> HIDE DEF q
    <2>3. q.on = "on" => AllExist(q.targets)
      BY <2>2 DEF AllExist
    <2>4. PutPatch(p, r, q) /\ UNCHANGED <<exists, global>>
      BY <1>4, <2>1 DEF ResetPatchField, q
    <2> QED BY <1>2, <2>2, <2>3, <2>4
  <1>5. ASSUME NEW k \in Clients, DeleteRow(k) PROVE ChosenTargetsExist'
    <2> DEFINE c == cmd[k].chan
    <2>0. c \in Channels
      BY CommandTyped
    <2>1. UNCHANGED rules
      BY <1>5 DEF DeleteRow
    <2>2. CASE exists[c] /\ ~ Targeted(c)
      <3>1. \A d \in Channels : d # c => exists'[d] = exists[d]
        BY <1>5, <2>0, <2>2, RowSet DEF DeleteRow
      <3>2. /\ \A r \in Rules : global[r].on => c \notin global[r].targets
            /\ \A p \in Projects, r \in Rules :
                 patch[p][r].on = "on" => c \notin patch[p][r].targets
        BY <2>0, <2>2, UntargetedIsUnchosen
      <3>3. /\ \A r \in Rules : global[r].targets \subseteq Channels
            /\ \A p \in Projects, r \in Rules : patch[p][r].targets \subseteq Channels
        BY DEF TypeOK, GlobalRule, RulePatch
      <3> HIDE DEF c
      <3> QED BY <2>1, <3>1, <3>2, <3>3 DEF ChosenTargetsExist, AllExist, rules
    <2>3. CASE ~ (exists[c] /\ ~ Targeted(c))
      BY <1>5, <2>1, <2>3, TargetsStay DEF DeleteRow
    <2> QED BY <2>2, <2>3
  <1>6. ASSUME NEW k \in Clients, SaveRow(k) PROVE ChosenTargetsExist'
    <2>1. \A d \in Channels : exists[d] => exists'[d]
      BY <1>6, CommandTyped, RowSet DEF SaveRow
    <2> QED BY <1>6, <2>1, TargetsStay DEF SaveRow
  <1>7. CASE UNCHANGED <<exists, rules>>
    BY <1>7, TargetsStay
  <1>8. ASSUME NEW k \in Clients,
               \/ \E c \in Channels : Find(k, c) \/ StoreNew(k, c)
               \/ StoreReplacement(k) \/ SaveRowFails(k) \/ DeleteSecret(k) \/ StopsShort(k)
        PROVE  UNCHANGED <<exists, rules>>
    BY <1>8 DEF Find, StoreNew, StoreReplacement, SaveRowFails, DeleteSecret, StopsShort
  <1>9. CASE UNCHANGED vars
    BY <1>7, <1>9 DEF vars, rules
  <1> QED BY <1>1, <1>3, <1>4, <1>5, <1>6, <1>7, <1>8, <1>9 DEF Next

(***************************************************************************)
(* Credentials                                                             *)
(***************************************************************************)
\* A step that adds no credential, takes no row and forgets no fault, of a
\* client that had none in its hands.
LEMMA SecretsStay ==
  ASSUME SecretsTended, NEW k \in Clients, cmd[k].stage = "found", UNCHANGED <<exists, secret>>,
         faulted \subseteq faulted', \A j \in Clients : j # k => cmd'[j] = cmd[j]
  PROVE  SecretsTended'
  BY DEF SecretsTended, AtTheSecret

\* A step that ends, or leaves, the work on one channel's credential.
LEMMA OneChannelTended ==
  ASSUME SecretsTended, NEW k \in Clients, NEW c \in Channels, cmd[k].chan = c,
         faulted \subseteq faulted', \A j \in Clients : j # k => cmd'[j] = cmd[j],
         \A d \in Channels : d # c => secret'[d] = secret[d] /\ exists'[d] = exists[d],
         c \in faulted' \/ ~ secret'[c] \/ exists'[c] \/ AtTheSecret(k, c)'
  PROVE  SecretsTended'
  <1> SUFFICES ASSUME NEW d \in Channels \ faulted', secret'[d], ~ exists'[d]
               PROVE  \E j \in Clients : AtTheSecret(j, d)'
    BY DEF SecretsTended
  <1>1. CASE d = c
    BY <1>1
  <1>2. CASE d # c
    <2>1. PICK j \in Clients : AtTheSecret(j, d)
      BY <1>2 DEF SecretsTended
    <2>2. j # k
      BY <1>2, <2>1 DEF AtTheSecret
    <2> QED BY <2>1, <2>2 DEF AtTheSecret
  <1> QED BY <1>1, <1>2

LEMMA SecretsStep == TypeOK /\ SecretsTended /\ [Next]_vars => SecretsTended'
  <1> SUFFICES ASSUME TypeOK, SecretsTended, [Next]_vars PROVE SecretsTended'
    OBVIOUS
  <1> USE DEF Operations, Stages
  <1>1. CASE UNCHANGED <<exists, secret, cmd, faulted>>
    BY <1>1 DEF SecretsTended, AtTheSecret
  <1>2. ASSUME NEW k \in Clients, NEW c \in Channels, Find(k, c) PROVE SecretsTended'
    BY <1>2, OneGoes, IdleIsCommand, SecretsStay DEF Find
  <1>3. ASSUME NEW k \in Clients, NEW c \in Channels, StoreNew(k, c) PROVE SecretsTended'
    \* The client was idle: it had no channel's credential in its hands.
    <2>1. /\ cmd'[k].chan = c /\ cmd'[k].stage = "stored"
          /\ \A j \in Clients : j # k => cmd'[j] = cmd[j]
      BY <1>3, OneGoes DEF StoreNew
    <2>2. \A d \in Channels : d # c => secret'[d] = secret[d]
      BY <1>3, SecretSet DEF StoreNew
    <2>3. \A d : ~ AtTheSecret(k, d)
      BY <1>3, IdleIsCommand DEF StoreNew, AtTheSecret
    <2>4. AtTheSecret(k, c)'
      BY <2>1 DEF AtTheSecret
    <2>5. \A j \in Clients, d \in Channels : AtTheSecret(j, d) => AtTheSecret(j, d)'
      BY <2>1, <2>3 DEF AtTheSecret
    <2>6. UNCHANGED <<exists, faulted>>
      BY <1>3 DEF StoreNew
    <2> QED BY <2>2, <2>4, <2>5, <2>6 DEF SecretsTended
  <1>4. ASSUME NEW k \in Clients,
               StoreReplacement(k) \/ SaveRow(k) \/ SaveRowFails(k)
               \/ DeleteRow(k) \/ DeleteSecret(k) \/ StopsShort(k)
        PROVE  SecretsTended'
    <2>0. PICK c \in Channels : c = cmd[k].chan
      BY CommandTyped
    <2>1. CASE StoreReplacement(k)
      <3>1. /\ cmd'[k].chan = c /\ cmd'[k].stage = "stored"
            /\ \A j \in Clients : j # k => cmd'[j] = cmd[j]
        BY <2>0, <2>1, OneGoes DEF StoreReplacement
      <3>2. AtTheSecret(k, c)'
        BY <3>1 DEF AtTheSecret
      <3>3. \A d \in Channels : d # c => secret'[d] = secret[d]
        BY <2>0, <2>1, SecretSet DEF StoreReplacement
      <3> QED BY <2>0, <2>1, <3>1, <3>2, <3>3, OneChannelTended DEF StoreReplacement
    <2>2. CASE SaveRow(k)
      <3>1. \A j \in Clients : j # k => cmd'[j] = cmd[j]
        BY <2>0, <2>2, OneGoes, OneEnds DEF SaveRow
      <3>2. exists'[c] /\ \A d \in Channels : d # c => exists'[d] = exists[d]
        BY <2>0, <2>2, RowSet DEF SaveRow
      <3> QED BY <2>0, <2>2, <3>1, <3>2, OneChannelTended DEF SaveRow
    <2>3. CASE SaveRowFails(k) \/ StopsShort(k)
      <3>1. \A j \in Clients : j # k => cmd'[j] = cmd[j]
        BY <2>0, <2>3, OneGoes, OneEnds DEF SaveRowFails, StopsShort
      <3>2. c \in faulted' /\ faulted \subseteq faulted'
        BY <2>0, <2>3 DEF SaveRowFails, StopsShort, Fault
      <3>3. UNCHANGED <<exists, secret>>
        BY <2>3 DEF SaveRowFails, StopsShort
      <3> QED BY <2>0, <3>1, <3>2, <3>3, OneChannelTended
    <2>4. CASE DeleteRow(k)
      <3>1. UNCHANGED <<secret, faulted>> /\ cmd[k].stage = "found"
        BY <2>4 DEF DeleteRow, At
      <3>2. CASE SetRow(c, FALSE) /\ Goes(k, "delete", c, "tidying")
        \* From here on the credential has no row, and this client to delete it.
        <4>1. /\ cmd'[k].chan = c /\ cmd'[k].stage = "tidying"
              /\ \A j \in Clients : j # k => cmd'[j] = cmd[j]
          BY <2>0, <3>2, OneGoes
        <4>2. AtTheSecret(k, c)'
          BY <4>1 DEF AtTheSecret
        <4>3. \A d \in Channels : d # c => exists'[d] = exists[d]
          BY <2>0, <3>2, RowSet
        <4> QED BY <2>0, <3>1, <4>1, <4>2, <4>3, OneChannelTended
      <3>3. CASE UNCHANGED exists /\ Ends(k)
        BY <3>1, <3>3, OneEnds, SecretsStay
      <3> QED BY <2>0, <2>4, <3>2, <3>3 DEF DeleteRow
    <2>5. CASE DeleteSecret(k)
      <3>1. ~ secret'[c] /\ \A d \in Channels : d # c => secret'[d] = secret[d]
        BY <2>0, <2>5, SecretSet DEF DeleteSecret
      <3>2. \A j \in Clients : j # k => cmd'[j] = cmd[j]
        BY <2>5, OneEnds DEF DeleteSecret
      <3> QED BY <2>0, <2>5, <3>1, <3>2, OneChannelTended DEF DeleteSecret
    <2> QED BY <1>4, <2>1, <2>2, <2>3, <2>4, <2>5
  <1>5. ASSUME \/ \E r \in Rules : SaveGlobalRule(r)
               \/ \E p \in Projects, r \in Rules : SaveProjectPatch(p, r) \/ ResetPatchField(p, r)
        PROVE  UNCHANGED <<exists, secret, cmd, faulted>>
    BY <1>5 DEF SaveGlobalRule, SaveProjectPatch, ResetPatchField
  <1>6. CASE UNCHANGED vars
    BY <1>1, <1>6 DEF vars
  <1> QED BY <1>1, <1>2, <1>3, <1>4, <1>5, <1>6 DEF Next

\* With nobody at work on the channel, nobody tends its credential.
LEMMA NoneIsOrphan == SecretsTended => NoOrphanSecret
  <1> SUFFICES ASSUME SecretsTended, NEW c \in Channels \ faulted, secret[c],
                      \A k \in Clients : cmd[k] = Idle \/ cmd[k].chan # c
               PROVE  exists[c]
    BY DEF NoOrphanSecret
  <1>1. \A k \in Clients : ~ AtTheSecret(k, c)
    BY IdleIsCommand DEF AtTheSecret
  <1> QED BY <1>1 DEF SecretsTended

(***************************************************************************)
(* The theorems                                                            *)
(***************************************************************************)
\* In every state the types hold, the rules that are on have their targets,
\* and every credential has its row or a command that will see to it.
THEOREM ConfigurationInvariant == Spec => []IInv
  <1>1. Init => IInv
    <2> SUFFICES ASSUME Init PROVE IInv
      OBVIOUS
    <2>1. ChosenTargetsExist
      BY DEF Init, ChosenTargetsExist, AllExist, NoPatch
    <2>2. SecretsTended
      BY DEF Init, SecretsTended
    <2> QED BY <2>1, <2>2, TypeInit DEF IInv
  <1>2. IInv /\ [Next]_vars => IInv'
    BY TypeStep, TargetsStep, SecretsStep DEF IInv
  <1> QED BY <1>1, <1>2, PTL DEF Spec

\* Channels, keyring, rules, patches and commands keep their types.
THEOREM TypeCorrect == Spec => []TypeOK
  <1>1. IInv => TypeOK
    BY DEF IInv
  <1> QED BY <1>1, ConfigurationInvariant, PTL

\* A rule that is on where it is saved never loses a target to a deletion
\* (channel_is_targeted, save_global_rule).
THEOREM TargetsStayThere == Spec => []ChosenTargetsExist
  <1>1. IInv => ChosenTargetsExist
    BY DEF IInv
  <1> QED BY <1>1, ConfigurationInvariant, PTL

\* No interleaving of channel commands leaves a credential without its row
\* behind, unless one of them failed (commands/channels.rs).
THEOREM NoCredentialLeft == Spec => []NoOrphanSecret
  <1>1. IInv => NoOrphanSecret
    BY NoneIsOrphan DEF IInv
  <1> QED BY <1>1, ConfigurationInvariant, PTL

=============================================================================
