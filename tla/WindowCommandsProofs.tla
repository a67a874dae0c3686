----------------------- MODULE WindowCommandsProofs ------------------------
(***************************************************************************)
(* The settings document and the project tables under the commands of the  *)
(* window, for every number of threads, commands, faults, projects and     *)
(* paths: what a command stored is lost to overlap alone, the login item   *)
(* follows the document, and the helper's file follows the tables.         *)
(***************************************************************************)
EXTENDS WindowCommands, FiniteSetTheorems, WellFoundedInduction, TLAPS

-----------------------------------------------------------------------------
(* What a thread holds *)

LEMMA DocumentInHand ==
  ASSUME JobsOK, NEW t \in Threads, Holding(t)
  PROVE  /\ job[t] \in DocumentJobs
         /\ job[t].kind \in {"save", "pause", "report"}
         /\ job[t].doc \in Settings /\ job[t].missed \subseteq Fields
<1>1. job[t] \in {Free} \cup DocumentJobs \cup CacheJobs
  BY DEF JobsOK
<1>2. job[t] \in DocumentJobs
  BY <1>1 DEF Free, CacheJobs, Holding
<1>3. QED
  BY <1>2 DEF DocumentJobs

LEMMA EditInHand ==
  ASSUME JobsOK, NEW t \in Threads
  PROVE  /\ job[t].step \in {"save", "add"} => job[t].project \in Projects /\ job[t].path \in Paths
         /\ job[t].step = "remove" => job[t].path \in Paths
<1>1. job[t] \in {Free} \cup DocumentJobs \cup CacheJobs
  BY DEF JobsOK
<1>2. ASSUME job[t].step \in {"save", "add"}
      PROVE  job[t].project \in Projects /\ job[t].path \in Paths
  BY <1>1, <1>2 DEF Free, DocumentJobs, CacheJobs
<1>3. ASSUME job[t].step = "remove"
      PROVE  job[t].path \in Paths
  BY <1>1, <1>3 DEF Free, DocumentJobs, CacheJobs
<1>4. QED
  BY <1>2, <1>3

PublishJobs ==
  [step: {"list", "copy", "rename"}, queue: Seq(Projects), copy: [Projects -> SUBSET Paths],
   fresh: BOOLEAN]

LEMMA PublicationInHand ==
  ASSUME JobsOK, NEW t \in Threads, job[t].step \in {"list", "copy", "rename"}
  PROVE  /\ job[t] \in PublishJobs
         /\ job[t].queue \in Seq(Projects) /\ job[t].copy \in [Projects -> SUBSET Paths]
         /\ job[t].fresh \in BOOLEAN
<1>1. job[t] \in {Free} \cup DocumentJobs \cup CacheJobs
  BY DEF JobsOK
<1>2. job[t] \in PublishJobs
  BY <1>1 DEF Free, DocumentJobs, CacheJobs, PublishJobs
<1>3. QED
  BY <1>2 DEF PublishJobs

LEMMA HealthInHand ==
  ASSUME JobsOK, NEW t \in Threads, job[t].step = "health"
  PROVE  job[t].failed \in BOOLEAN
<1>1. job[t] \in {Free} \cup DocumentJobs \cup CacheJobs
  BY DEF JobsOK
<1>2. QED
  BY <1>1 DEF Free, DocumentJobs, CacheJobs

\* A thread that takes up one of the jobs leaves the others what they are.
LEMMA JobTaken ==
  ASSUME JobsOK, NEW t \in Threads, NEW work \in {Free} \cup DocumentJobs \cup CacheJobs,
         job' = [job EXCEPT ![t] = work]
  PROVE  /\ JobsOK'
         /\ job'[t] = work
         /\ \A u \in Threads \ {t} : job'[u] = job[u]
  BY DEF JobsOK

-----------------------------------------------------------------------------
(* What a step about one document leaves of the other *)

LEMMA CopyStays ==
  ASSUME NEW u \in Threads, CopyFollows(job[u]), job'[u] = job[u],
         \A r \in Projects : PathsOf(r)' = PathsOf(r)
  PROVE  CopyFollows(job[u])'
  BY DEF CopyFollows

LEMMA TablesRest ==
  ASSUME CacheInv, UNCHANGED <<root, others>>,
         \A u \in Threads :
           \/ job'[u] = job[u]
           \/ job'[u].step \notin {"list", "copy", "rename"}
  PROVE  /\ PathsHaveOneOwner' /\ CopiesFollow' /\ Tables' = Tables
         /\ InFlight' => InFlight
<1>1. \A r \in Projects : PathsOf(r)' = PathsOf(r)
  BY DEF PathsOf, Registered
<1>2. PathsHaveOneOwner'
  BY DEF CacheInv, PathsHaveOneOwner, PathsOf, Registered
<1>3. CopiesFollow'
  <2>1. ASSUME NEW u \in Threads
        PROVE  CopyFollows(job[u])'
    <3>1. CASE job'[u] = job[u]
      <4>1. CopyFollows(job[u])
        BY DEF CacheInv, CopiesFollow
      <4>2. QED
        BY <1>1, <3>1, <4>1, CopyStays
    <3>2. CASE job'[u].step \notin {"list", "copy", "rename"}
      BY <3>2 DEF CopyFollows
    <3>3. QED
      BY <3>1, <3>2
  <2>2. QED
    BY <2>1 DEF CopiesFollow
<1>4. Tables' = Tables
  BY <1>1 DEF Tables
<1>5. InFlight' => InFlight
  BY DEF InFlight
<1>6. QED
  BY <1>2, <1>3, <1>4, <1>5

LEMMA CacheRests ==
  ASSUME CacheInv, UNCHANGED <<root, others, cache, known, behind>>, failed' \in BOOLEAN,
         \A u \in Threads :
           \/ job'[u] = job[u]
           \/ /\ job[u].step \notin {"list", "copy", "rename"}
              /\ job'[u].step \notin {"list", "copy", "rename"}
  PROVE  CacheInv'
<1>1. PathsHaveOneOwner' /\ CopiesFollow' /\ Tables' = Tables
  BY TablesRest
<1>2. InFlight => InFlight'
  BY DEF InFlight
<1>3. CacheTypeOK'
  BY DEF CacheInv, CacheTypeOK
<1>4. QED
  BY <1>1, <1>2, <1>3 DEF CacheInv, FileIsCurrent

LEMMA CacheUntouched ==
  ASSUME CacheInv, UNCHANGED cacheVars
  PROVE  UNCHANGED <<root, others, cache, known, behind>> /\ failed' \in BOOLEAN
  BY DEF CacheInv, CacheTypeOK, cacheVars

LEMMA SettingsRest ==
  ASSUME SettingsInv, UNCHANGED settingsVars,
         \A u \in Threads :
           \/ job'[u] = job[u]
           \/ ~Holding(u) /\ job'[u].step \notin {"read", "registering"}
  PROVE  SettingsInv'
<1>1. UNCHANGED <<settings, registered, wanted, lost, unsure>>
  BY DEF settingsVars
<1>2. \A u \in Threads : job'[u].step \in {"read", "registering"} => job'[u] = job[u]
  OBVIOUS
<1>3. \A u \in Threads : job[u].step \in {"read", "registering"} => job'[u] = job[u]
  BY DEF Holding
<1>4. SettingsTypeOK' /\ LostOnlyToOverlap'
  BY <1>1 DEF SettingsInv, SettingsTypeOK, LostOnlyToOverlap
<1>5. DocumentsAgree'
  BY <1>1, <1>2 DEF SettingsInv, DocumentsAgree, Holding
<1>6. SavesRegistered'
  BY <1>1, <1>2 DEF SettingsInv, SavesRegistered
<1>7. AutostartFollows'
  BY <1>1, <1>3 DEF SettingsInv, AutostartFollows
<1>8. QED
  BY <1>4, <1>5, <1>6, <1>7 DEF SettingsInv

-----------------------------------------------------------------------------
(* The settings *)

\* A command reads the document and changes, in memory, what it is about.
LEMMA ReadSettingsKeeps ==
  ASSUME IInv, NEW t \in Threads, NEW kind \in {"save", "pause", "report"},
         NEW next \in Settings,
         \A f \in Fields \ Owned(kind) : next[f] = settings[f],
         ReadSettings(t, kind, next), UNCHANGED cacheVars
  PROVE  IInv'
<1> DEFINE work == [step |-> IF next.autostart # settings.autostart THEN "registering" ELSE "read",
                    kind |-> kind, doc |-> next, missed |-> {}]
<1>1. /\ job[t] = Free /\ job' = [job EXCEPT ![t] = work]
      /\ UNCHANGED <<settings, registered, wanted, lost, unsure>>
  BY DEF ReadSettings, Begins, settingsVars
<1>2. /\ work \in DocumentJobs /\ work.step \in {"read", "registering"}
      /\ work.step = "read" => next.autostart = settings.autostart
      /\ work.kind = kind /\ work.doc = next /\ work.missed = {}
  BY DEF DocumentJobs
<1> HIDE DEF work
<1>3. JobsOK' /\ job'[t] = work /\ \A u \in Threads \ {t} : job'[u] = job[u]
  BY <1>1, <1>2, JobTaken DEF IInv
<1>4. ~Holding(t) /\ job[t].step = "free" /\ job'[t].step \in {"read", "registering"}
  BY <1>1, <1>2, <1>3 DEF Free, Holding
<1>5. CacheInv'
  BY <1>3, <1>4, CacheUntouched, CacheRests DEF IInv
<1>6. SettingsTypeOK' /\ LostOnlyToOverlap'
  BY <1>1 DEF IInv, SettingsInv, SettingsTypeOK, LostOnlyToOverlap
<1>7. DocumentsAgree'
  <2>1. ASSUME NEW u \in Threads, Holding(u)',
               NEW f \in Fields \ (Owned(job'[u].kind) \cup job'[u].missed \cup lost')
        PROVE  job'[u].doc[f] = settings'[f]
    <3>1. CASE u = t
      BY <1>1, <1>2, <1>3, <2>1, <3>1
    <3>2. CASE u # t
      BY <1>1, <1>3, <2>1, <3>2 DEF IInv, SettingsInv, DocumentsAgree, Holding
    <3>3. QED
      BY <3>1, <3>2
  <2>2. QED
    BY <2>1 DEF DocumentsAgree
<1>8. SavesRegistered'
  <2>1. job'[t].step = "read" => job'[t].doc.autostart = settings.autostart
    BY <1>2, <1>3
  <2>2. QED
    BY <1>1, <1>3, <2>1 DEF IInv, SettingsInv, SavesRegistered
<1>9. AutostartFollows'
  BY <1>1, <1>3, <1>4 DEF IInv, SettingsInv, AutostartFollows
<1>10. QED
  BY <1>3, <1>5, <1>6, <1>7, <1>8, <1>9 DEF IInv, SettingsInv

LEMMA ReadsKeep ==
  ASSUME IInv, NEW t \in Threads, UNCHANGED cacheVars,
         SaveSettings(t) \/ SetNotificationPause(t) \/ ClearNotificationPause(t) \/ ReportOffset(t)
  PROVE  IInv'
<1>1. settings \in Settings
  BY DEF IInv, SettingsInv, SettingsTypeOK
<1>2. CASE SaveSettings(t)
  <2>1. PICK f \in Forms, a \in BOOLEAN :
          ReadSettings(t, "save", [settings EXCEPT !.form = f, !.autostart = a])
    BY <1>2 DEF SaveSettings
  <2> DEFINE next == [settings EXCEPT !.form = f, !.autostart = a]
  <2>2. next \in Settings
    BY <1>1 DEF Settings
  <2>3. \A g \in Fields \ Owned("save") : next[g] = settings[g]
    BY <1>1 DEF Settings, Fields, Owned
  <2>4. QED
    BY <2>1, <2>2, <2>3, ReadSettingsKeeps
<1>3. CASE SetNotificationPause(t) \/ ClearNotificationPause(t)
  <2>1. PICK d \in Durations \cup {NoPause} : ReadSettings(t, "pause", [settings EXCEPT !.pause = d])
    BY <1>3 DEF SetNotificationPause, ClearNotificationPause, PausedDocument
  <2> DEFINE next == [settings EXCEPT !.pause = d]
  <2>2. next \in Settings
    BY <1>1 DEF Settings
  <2>3. \A g \in Fields \ Owned("pause") : next[g] = settings[g]
    BY <1>1 DEF Settings, Fields, Owned
  <2>4. QED
    BY <2>1, <2>2, <2>3, ReadSettingsKeeps
<1>4. CASE ReportOffset(t)
  <2>1. PICK o \in Offsets : ReadSettings(t, "report", [settings EXCEPT !.offset = o])
    BY <1>4 DEF ReportOffset
  <2> DEFINE next == [settings EXCEPT !.offset = o]
  <2>2. next \in Settings
    BY <1>1 DEF Settings
  <2>3. \A g \in Fields \ Owned("report") : next[g] = settings[g]
    BY <1>1 DEF Settings, Fields, Owned
  <2>4. QED
    BY <2>1, <2>2, <2>3, ReadSettingsKeeps
<1>5. QED
  BY <1>2, <1>3, <1>4

\* From here the operating system has the switch of this command's document.
LEMMA RegisterAutostartKeeps ==
  ASSUME IInv, NEW t \in Threads, RegisterAutostart(t), UNCHANGED cacheVars
  PROVE  IInv'
<1> DEFINE work == [job[t] EXCEPT !.step = "read"]
<1>1. /\ job[t].step = "registering" /\ registered' = job[t].doc.autostart
      /\ job' = [job EXCEPT ![t] = work] /\ UNCHANGED <<settings, wanted, lost>>
      /\ unsure' = (unsure \/ \E u \in Threads \ {t} : Holding(u) /\ job[u].kind = "save")
  BY DEF RegisterAutostart, Continues
<1>2. Holding(t) /\ job[t] \in DocumentJobs /\ job[t].doc \in Settings
  BY <1>1, DocumentInHand DEF IInv, Holding
<1>3. /\ work \in DocumentJobs /\ work.step = "read"
      /\ work.kind = job[t].kind /\ work.doc = job[t].doc /\ work.missed = job[t].missed
  BY <1>2 DEF DocumentJobs
<1> HIDE DEF work
<1>4. JobsOK' /\ job'[t] = work /\ \A u \in Threads \ {t} : job'[u] = job[u]
  BY <1>1, <1>3, JobTaken DEF IInv
<1>5. CacheInv'
  BY <1>1, <1>3, <1>4, CacheUntouched, CacheRests DEF IInv
<1>6. job[t].doc.autostart \in BOOLEAN
  BY <1>2 DEF Settings
<1>7. SettingsTypeOK' /\ LostOnlyToOverlap'
  BY <1>1, <1>6 DEF IInv, SettingsInv, SettingsTypeOK, LostOnlyToOverlap
<1>8. DocumentsAgree'
  BY <1>1, <1>2, <1>3, <1>4 DEF IInv, SettingsInv, DocumentsAgree, Holding
<1>9. SavesRegistered'
  BY <1>1, <1>3, <1>4 DEF IInv, SettingsInv, SavesRegistered, Holding
<1>10. AutostartFollows'
  BY <1>1, <1>3, <1>4 DEF AutostartFollows
<1>11. QED
  BY <1>4, <1>5, <1>7, <1>8, <1>9, <1>10 DEF IInv, SettingsInv

\* The document of a command becomes the stored one. What it missed it overwrites.
LEMMA WriteSettingsKeeps ==
  ASSUME IInv, NEW t \in Threads, WriteSettings(t), UNCHANGED cacheVars
  PROVE  IInv'
<1>1. PICK mine : mine = Owned(job[t].kind)
  OBVIOUS
<1>2. /\ job[t].step = "read" /\ settings' = job[t].doc
      /\ wanted' = [f \in Fields |-> IF f \in mine THEN job[t].doc[f] ELSE wanted[f]]
      /\ lost' = (lost \ mine) \cup (job[t].missed \ mine)
      /\ unsure' = (unsure \/ "autostart" \in job[t].missed)
      /\ UNCHANGED registered
      /\ job' = [u \in Threads |->
                   IF u = t THEN Free
                   ELSE IF Holding(u) THEN [job[u] EXCEPT !.missed = @ \cup mine]
                   ELSE job[u]]
  BY <1>1 DEF WriteSettings
<1>3. /\ Holding(t) /\ job[t].kind \in {"save", "pause", "report"}
      /\ job[t].doc \in Settings /\ job[t].missed \subseteq Fields
  BY <1>2, DocumentInHand DEF IInv, Holding
<1>4. mine \subseteq Fields /\ ("autostart" \in mine <=> job[t].kind = "save")
  BY <1>1, <1>3 DEF Owned, Fields
<1>5. job'[t] = Free
  BY <1>2
<1>6. ASSUME NEW u \in Threads \ {t}, Holding(u)
      PROVE  /\ job'[u] \in DocumentJobs
             /\ job'[u].step = job[u].step /\ job'[u].kind = job[u].kind
             /\ job'[u].doc = job[u].doc /\ job'[u].missed = job[u].missed \cup mine
  <2>1. job'[u] = [job[u] EXCEPT !.missed = job[u].missed \cup mine]
    BY <1>2, <1>6
  <2>2. job[u] \in DocumentJobs
    BY <1>6, DocumentInHand DEF IInv
  <2>3. QED
    BY <1>4, <2>1, <2>2 DEF DocumentJobs
<1>7. ASSUME NEW u \in Threads \ {t}, ~Holding(u)
      PROVE  job'[u] = job[u]
  BY <1>2, <1>7
<1>8. JobsOK'
  <2>1. \A u \in Threads : job'[u] \in {Free} \cup DocumentJobs \cup CacheJobs
    BY <1>5, <1>6, <1>7 DEF IInv, JobsOK
  <2>2. QED
    BY <1>2, <2>1 DEF JobsOK
<1>9. CacheInv'
  <2>1. \A u \in Threads :
          \/ job'[u] = job[u]
          \/ /\ job[u].step \notin {"list", "copy", "rename"}
             /\ job'[u].step \notin {"list", "copy", "rename"}
    BY <1>2, <1>5, <1>6, <1>7 DEF Free, Holding
  <2>2. QED
    BY <2>1, CacheUntouched, CacheRests DEF IInv
<1>10. \A u \in Threads : Holding(u)' => u # t /\ Holding(u)
  BY <1>5, <1>7 DEF Free, Holding
<1>11. \A f \in Fields \ (mine \cup lost') : settings'[f] = settings[f] /\ f \notin lost /\ f \notin job[t].missed
  BY <1>1, <1>2, <1>3 DEF IInv, SettingsInv, DocumentsAgree
<1>12. SettingsTypeOK'
  <2>1. wanted' \in Settings
    BY <1>2, <1>3, <1>4 DEF IInv, SettingsInv, SettingsTypeOK, Settings, Fields
  <2>2. QED
    BY <1>2, <1>3, <2>1 DEF IInv, SettingsInv, SettingsTypeOK
<1>13. LostOnlyToOverlap'
  BY <1>2, <1>11 DEF IInv, SettingsInv, LostOnlyToOverlap
<1>14. DocumentsAgree'
  <2>1. ASSUME NEW u \in Threads, Holding(u)',
               NEW f \in Fields \ (Owned(job'[u].kind) \cup job'[u].missed \cup lost')
        PROVE  job'[u].doc[f] = settings'[f]
    <3>1. u \in Threads \ {t} /\ Holding(u)
      BY <1>10, <2>1
    <3>2. f \in Fields \ (mine \cup lost') /\ f \notin Owned(job[u].kind) \cup job[u].missed
      BY <1>6, <3>1
    <3>3. job[u].doc[f] = settings[f]
      BY <1>11, <3>1, <3>2 DEF IInv, SettingsInv, DocumentsAgree
    <3>4. QED
      BY <1>6, <1>11, <3>1, <3>2, <3>3
  <2>2. QED
    BY <2>1 DEF DocumentsAgree
<1>15. ASSUME ~unsure'
       PROVE  /\ ~unsure /\ "autostart" \notin job[t].missed
              /\ "autostart" \notin lost /\ "autostart" \notin lost'
              /\ job[t].kind # "save" => settings'.autostart = settings.autostart
  <2>1. /\ ~unsure /\ "autostart" \notin job[t].missed
        /\ "autostart" \notin lost /\ "autostart" \notin lost'
    BY <1>2, <1>15 DEF IInv, SettingsInv, SavesRegistered
  <2>2. job[t].kind # "save" => settings'["autostart"] = settings["autostart"]
    BY <1>4, <1>11, <2>1 DEF Fields
  <2>3. QED
    BY <2>1, <2>2
<1>16. SavesRegistered'
  <2>1. ASSUME ~unsure', registered' = settings'.autostart, NEW u \in Threads,
               job'[u].step = "read", job'[u].kind = "save", "autostart" \notin job'[u].missed
        PROVE  job'[u].doc.autostart = registered'
    <3>1. u \in Threads \ {t} /\ Holding(u)
      BY <1>10, <2>1 DEF Holding
    <3>2. job[t].kind # "save" /\ "autostart" \notin job[u].missed
      BY <1>4, <1>6, <2>1, <3>1
    <3>3. registered = settings.autostart
      BY <1>2, <1>15, <2>1, <3>2
    <3>4. QED
      BY <1>2, <1>6, <1>15, <2>1, <3>1, <3>2, <3>3 DEF IInv, SettingsInv, SavesRegistered
  <2>2. QED
    BY <1>15, <2>1 DEF SavesRegistered
<1>17. AutostartFollows'
  <2>1. SUFFICES ASSUME ~unsure'
                 PROVE  \/ registered' = settings'.autostart
                        \/ \E u \in Threads : job'[u].step = "read" /\ job'[u].doc.autostart = registered'
    BY DEF AutostartFollows
  <2>2. CASE registered = settings.autostart
    <3>1. CASE job[t].kind = "save"
      BY <1>2, <1>15, <2>1, <2>2, <3>1 DEF IInv, SettingsInv, SavesRegistered
    <3>2. CASE job[t].kind # "save"
      BY <1>2, <1>15, <2>1, <2>2, <3>2
    <3>3. QED
      BY <3>1, <3>2
  <2>3. CASE registered # settings.autostart
    <3>1. PICK u \in Threads : job[u].step = "read" /\ job[u].doc.autostart = registered
      BY <1>15, <2>1, <2>3 DEF IInv, SettingsInv, AutostartFollows
    <3>2. CASE u = t
      BY <1>2, <3>1, <3>2
    <3>3. CASE u # t
      BY <1>2, <1>6, <3>1, <3>3 DEF Holding
    <3>4. QED
      BY <3>2, <3>3
  <2>4. QED
    BY <2>2, <2>3
<1>18. QED
  BY <1>8, <1>9, <1>12, <1>13, <1>14, <1>16, <1>17 DEF IInv, SettingsInv

\* A document in hand is given up; a switch registered and not stored is unsure.
LEMMA GivenUpKeeps ==
  ASSUME SettingsInv, UNCHANGED <<settings, registered, wanted, lost>>,
         unsure' = (unsure \/ registered # settings.autostart),
         \A u \in Threads : job'[u].step \in {"read", "registering"} => job'[u] = job[u]
  PROVE  SettingsInv'
<1>1. SettingsTypeOK' /\ LostOnlyToOverlap'
  BY DEF SettingsInv, SettingsTypeOK, LostOnlyToOverlap
<1>2. DocumentsAgree'
  BY DEF SettingsInv, DocumentsAgree, Holding
<1>3. SavesRegistered'
  BY DEF SettingsInv, SavesRegistered
<1>4. AutostartFollows'
  BY DEF SettingsInv, AutostartFollows
<1>5. QED
  BY <1>1, <1>2, <1>3, <1>4 DEF SettingsInv

LEMMA SettingsFailureKeeps ==
  ASSUME IInv, NEW t \in Threads, RegistrationFails(t) \/ WriteFails(t), UNCHANGED cacheVars
  PROVE  IInv'
<1>1. job' = [job EXCEPT ![t] = Free] /\ job[t].step \in {"read", "registering"}
  BY DEF RegistrationFails, WriteFails, Aborts
<1>2. JobsOK' /\ job'[t] = Free /\ \A u \in Threads \ {t} : job'[u] = job[u]
  BY <1>1, JobTaken DEF IInv
<1>3. Free.step = "free"
  BY DEF Free
<1>4. CacheInv'
  BY <1>1, <1>2, <1>3, CacheUntouched, CacheRests DEF IInv
<1>5. CASE WriteFails(t)
  <2>1. SettingsInv'
    BY <1>2, <1>3, <1>5, GivenUpKeeps DEF IInv, WriteFails
  <2>2. QED
    BY <1>2, <1>4, <2>1 DEF IInv
<1>6. CASE RegistrationFails(t)
  <2>1. job[t].step = "registering" /\ UNCHANGED <<settings, registered, wanted, lost, unsure>>
    BY <1>6 DEF RegistrationFails, settingsVars
  <2>2. SettingsTypeOK' /\ LostOnlyToOverlap' /\ DocumentsAgree' /\ SavesRegistered'
    BY <1>2, <1>3, <2>1
       DEF IInv, SettingsInv, SettingsTypeOK, LostOnlyToOverlap, DocumentsAgree, SavesRegistered, Holding
  <2>3. AutostartFollows'
    BY <1>2, <2>1 DEF IInv, SettingsInv, AutostartFollows
  <2>4. QED
    BY <1>2, <1>4, <2>2, <2>3 DEF IInv, SettingsInv
<1>7. QED
  BY <1>5, <1>6

-----------------------------------------------------------------------------
(* The edits of the projects *)

\* A thread goes on about the projects without touching a publication.
LEMMA CacheJobKeeps ==
  ASSUME IInv, NEW t \in Threads, NEW work \in {Free} \cup CacheJobs,
         ~Holding(t), job[t].step \notin {"list", "copy", "rename"},
         work.step \notin {"read", "registering", "list", "copy", "rename"},
         job' = [job EXCEPT ![t] = work],
         UNCHANGED settingsVars, UNCHANGED <<root, others, cache, known, behind>>, failed' \in BOOLEAN
  PROVE  IInv'
<1>1. JobsOK' /\ job'[t] = work /\ \A u \in Threads \ {t} : job'[u] = job[u]
  BY JobTaken DEF IInv
<1>2. SettingsInv'
  BY <1>1, SettingsRest DEF IInv
<1>3. CacheInv'
  BY <1>1, CacheRests DEF IInv
<1>4. QED
  BY <1>1, <1>2, <1>3 DEF IInv

LEMMA BeginsKeep ==
  ASSUME IInv, NEW t \in Threads, BeginSave(t) \/ BeginAlias(t) \/ BeginRemoval(t),
         UNCHANGED settingsVars
  PROVE  IInv'
<1>1. /\ \A r \in Registered : r \in Projects
      /\ \A p \in Paths : Owner(p) \subseteq Projects
      /\ \A p \in Taken : p \in Paths
  BY DEF IInv, CacheInv, CacheTypeOK, Registered, Owner, Taken, PathsOf
<1>2. PICK work \in CacheJobs : work.step \in {"save", "add", "remove"} /\ Begins(t, work)
  <2>1. \A r \in Projects, p \in Paths :
          /\ [step |-> "save", project |-> r, path |-> p] \in CacheJobs
          /\ [step |-> "add", project |-> r, path |-> p] \in CacheJobs
          /\ [step |-> "remove", path |-> p] \in CacheJobs
    BY DEF CacheJobs
  <2>2. CASE BeginSave(t)
    <3>1. PICK r \in Projects, p \in Paths :
            \/ Begins(t, [step |-> "save", project |-> r, path |-> p])
            \/ \E o \in Owner(p) : Begins(t, [step |-> "add", project |-> o, path |-> p])
      BY <2>2 DEF BeginSave
    <3>2. QED
      BY <1>1, <2>1, <3>1
  <2>3. CASE BeginAlias(t)
    BY <1>1, <2>1, <2>3 DEF BeginAlias
  <2>4. CASE BeginRemoval(t)
    <3>1. PICK p \in Paths : Begins(t, [step |-> "remove", path |-> p])
      BY <1>1, <2>4 DEF BeginRemoval
    <3>2. [step |-> "remove", path |-> p] \in CacheJobs
      BY DEF CacheJobs
    <3>3. QED
      BY <3>1, <3>2
  <2>5. QED
    BY <2>2, <2>3, <2>4
<1>3. job[t].step = "free" /\ job' = [job EXCEPT ![t] = work]
  BY <1>2 DEF Begins, Free
<1>4. UNCHANGED cacheVars
  BY DEF BeginSave, BeginAlias, BeginRemoval
<1>5. QED
  BY <1>2, <1>3, <1>4, CacheUntouched, CacheJobKeeps DEF IInv, Holding

LEMMA EndsKeep ==
  ASSUME IInv, NEW t \in Threads, EditRefused(t) \/ StoreHealth(t), UNCHANGED settingsVars
  PROVE  IInv'
<1>1. /\ job[t].step \in {"save", "add", "remove", "health"} /\ job' = [job EXCEPT ![t] = Free]
      /\ UNCHANGED <<root, others, cache, known, behind>>
  BY DEF EditRefused, StoreHealth, Ends, Continues, cacheVars
<1>2. failed' \in BOOLEAN
  BY HealthInHand DEF IInv, CacheInv, CacheTypeOK, EditRefused, StoreHealth, cacheVars
<1>3. Free.step = "free"
  BY DEF Free
<1>4. QED
  BY <1>1, <1>2, <1>3, CacheJobKeeps DEF Holding

\* The transactions keep a path with one project.
LEMMA EditKeepsOwners ==
  ASSUME IInv, NEW t \in Threads, Edit(t)
  PROVE  /\ root' \in [Projects -> Paths \cup {NoPath}] /\ others' \in [Projects -> SUBSET Paths]
         /\ PathsHaveOneOwner'
<1>1. /\ root \in [Projects -> Paths \cup {NoPath}] /\ others \in [Projects -> SUBSET Paths]
      /\ \A r \in Projects : root[r] = NoPath => others[r] = {}
      /\ \A r, q \in Projects : r # q => PathsOf(r) \cap PathsOf(q) = {}
      /\ NoPath \notin Paths
  BY CacheAssumption DEF IInv, CacheInv, CacheTypeOK, PathsHaveOneOwner
<1>2. \A r \in Projects : PathsOf(r) = IF root[r] # NoPath THEN {root[r]} \cup others[r] ELSE {}
  BY DEF PathsOf, Registered
<1>3. \A r \in Projects : PathsOf(r)' = IF root'[r] # NoPath THEN {root'[r]} \cup others'[r] ELSE {}
  BY DEF PathsOf, Registered
<1>4. \A r \in Projects : PathsOf(r) \subseteq Taken
  BY DEF Taken
<1>5. CASE \E r \in Projects, p \in Paths : SaveRoot(r, p)
  <2>1. PICK r \in Projects, p \in Paths : SaveRoot(r, p)
    BY <1>5
  <2>2. p \notin Taken \/ p = root[r]
    BY <2>1 DEF SaveRoot, RootAllowed
  <2>3. /\ root'[r] = p /\ others' = others
        /\ root' = [root EXCEPT ![r] = p]
    BY <1>1, <2>1 DEF SaveRoot
  <2>4. \A q \in Projects \ {r} : root'[q] = root[q] /\ PathsOf(q)' = PathsOf(q) /\ p \notin PathsOf(q)
    <3>1. \A q \in Projects \ {r} : root'[q] = root[q] /\ PathsOf(q)' = PathsOf(q)
      BY <1>1, <1>2, <1>3, <2>3
    <3>2. \A q \in Projects \ {r} : p \notin PathsOf(q)
      BY <1>1, <1>2, <1>4, <2>2
    <3>3. QED
      BY <3>1, <3>2
  <2>5. PathsOf(r)' \subseteq {p} \cup PathsOf(r)
    BY <1>1, <1>2, <1>3, <2>3
  <2>6. PathsHaveOneOwner'
    BY <1>1, <2>3, <2>4, <2>5 DEF PathsHaveOneOwner
  <2>7. QED
    BY <1>1, <2>3, <2>6
<1>6. CASE \E r \in Projects, p \in Paths : SavePath(r, p)
  <2>1. PICK r \in Projects, p \in Paths : SavePath(r, p)
    BY <1>6
  <2>2. root[r] # NoPath /\ p \notin Taken
    BY <2>1 DEF SavePath, PathAllowed, Registered
  <2>3. root' = root /\ others' = [others EXCEPT ![r] = others[r] \cup {p}]
    BY <2>1 DEF SavePath
  <2>4. /\ \A q \in Projects \ {r} : PathsOf(q)' = PathsOf(q) /\ p \notin PathsOf(q)
        /\ PathsOf(r)' = {p} \cup PathsOf(r)
    BY <1>1, <1>2, <1>3, <1>4, <2>2, <2>3
  <2>5. PathsHaveOneOwner'
    BY <1>1, <2>2, <2>3, <2>4 DEF PathsHaveOneOwner
  <2>6. QED
    BY <1>1, <2>3, <2>5
<1>7. CASE \E p \in Paths : RemovePath(p)
  <2>1. PICK p \in Paths : RemovePath(p)
    BY <1>7
  <2>2. root' = root /\ others' = [r \in Projects |-> others[r] \ {p}]
    BY <2>1 DEF RemovePath
  <2>3. \A r \in Projects : PathsOf(r)' \subseteq PathsOf(r)
    BY <1>2, <1>3, <2>2
  <2>4. PathsHaveOneOwner'
    BY <1>1, <2>2, <2>3 DEF PathsHaveOneOwner
  <2>5. QED
    BY <1>1, <2>2, <2>4
<1>8. QED
  BY <1>5, <1>6, <1>7, EditInHand DEF IInv, Edit

\* An edit that is committed has its publication before it, and outdates the copies
\* others are making.
LEMMA CommitEditKeeps ==
  ASSUME IInv, NEW t \in Threads, CommitEdit(t), UNCHANGED settingsVars
  PROVE  IInv'
<1>1. /\ Edit(t) /\ job[t].step \in {"save", "add", "remove"}
      /\ UNCHANGED <<cache, known, failed, behind>>
      /\ job' = [u \in Threads |->
                   IF u = t THEN Publishing
                   ELSE IF job[u].step \in {"copy", "rename"} THEN [job[u] EXCEPT !.fresh = FALSE]
                   ELSE job[u]]
  BY DEF CommitEdit, Edit, Committed
<1>2. /\ Publishing \in CacheJobs /\ Publishing.step = "list"
      /\ Publishing.copy = [r \in Projects |-> {}]
  BY DEF Publishing, CacheJobs
<1>3. job'[t] = Publishing
  BY <1>1
<1>4. ASSUME NEW u \in Threads \ {t}, job[u].step \in {"copy", "rename"}
      PROVE  /\ job'[u] \in CacheJobs /\ job'[u].step = job[u].step
             /\ job'[u].queue = job[u].queue /\ ~job'[u].fresh
  <2>1. job'[u] = [job[u] EXCEPT !.fresh = FALSE]
    BY <1>1, <1>4
  <2>2. job[u] \in PublishJobs
    BY <1>4, PublicationInHand DEF IInv
  <2>3. /\ job'[u] \in PublishJobs /\ job'[u].step = job[u].step
        /\ job'[u].queue = job[u].queue /\ ~job'[u].fresh
    BY <2>1, <2>2 DEF PublishJobs
  <2>4. QED
    BY <2>3 DEF PublishJobs, CacheJobs
<1>5. ASSUME NEW u \in Threads \ {t}, job[u].step \notin {"copy", "rename"}
      PROVE  job'[u] = job[u]
  BY <1>1, <1>5
<1>6. JobsOK'
  <2>1. \A u \in Threads : job'[u] \in {Free} \cup DocumentJobs \cup CacheJobs
    BY <1>2, <1>3, <1>4, <1>5 DEF IInv, JobsOK
  <2>2. QED
    BY <1>1, <2>1 DEF JobsOK
<1>7. SettingsInv'
  <2>1. \A u \in Threads :
          \/ job'[u] = job[u]
          \/ ~Holding(u) /\ job'[u].step \notin {"read", "registering"}
    BY <1>1, <1>2, <1>3, <1>4, <1>5 DEF Holding
  <2>2. QED
    BY <2>1, SettingsRest DEF IInv
<1>8. CacheTypeOK' /\ PathsHaveOneOwner'
  BY <1>1, EditKeepsOwners DEF IInv, CacheInv, CacheTypeOK
<1>9. CopiesFollow'
  <2>1. ASSUME NEW u \in Threads
        PROVE  CopyFollows(job[u])'
    <3>1. CASE u = t
      BY <1>2, <1>3, <3>1 DEF CopyFollows
    <3>2. CASE u # t /\ job[u].step \in {"copy", "rename"}
      BY <1>4, <3>2 DEF IInv, CacheInv, CopiesFollow, CopyFollows
    <3>3. CASE u # t /\ job[u].step \notin {"copy", "rename"}
      BY <1>5, <3>3 DEF IInv, CacheInv, CopiesFollow, CopyFollows
    <3>4. QED
      BY <3>1, <3>2, <3>3
  <2>2. QED
    BY <2>1 DEF CopiesFollow
<1>10. FileIsCurrent'
  BY <1>2, <1>3 DEF FileIsCurrent, InFlight
<1>11. QED
  BY <1>6, <1>7, <1>8, <1>9, <1>10 DEF IInv, CacheInv

-----------------------------------------------------------------------------
(* The publication *)

\* The list names every registered project.
LEMMA ListIsComplete ==
  ASSUME IInv, NEW order \in SetToSeqs(Registered)
  PROVE  /\ order \in Seq(Projects)
         /\ \A r \in Registered : order # <<>> /\ \E i \in 1..Len(order) : order[i] = r
<1>1. Registered \subseteq Projects /\ IsFiniteSet(Registered) /\ Cardinality(Registered) \in Nat
  BY CacheAssumption, FS_Subset, FS_CardinalityType DEF Registered
<1> DEFINE D == 1..Cardinality(Registered)
<1>2. order \in [D -> Registered] /\ \A i, j \in D : i # j => order[i] # order[j]
  BY DEF SetToSeqs
<1>3. order \in Injection(D, Registered)
  BY <1>2 DEF Injection, IsInjective
<1>4. IsFiniteSet(D) /\ Cardinality(D) = Cardinality(Registered)
  BY <1>1, FS_Interval
<1>5. order \in Surjection(D, Registered)
  BY <1>1, <1>3, <1>4, FS_Injection
<1>6. order \in Seq(Registered) /\ Len(order) = Cardinality(Registered)
  BY <1>1, <1>2
<1>7. ASSUME NEW r \in Registered
      PROVE  \E i \in 1..Len(order) : order[i] = r
  BY <1>5, <1>6 DEF Surjection
<1>8. QED
  BY <1>1, <1>6, <1>7

\* A thread goes on with a publication: what is left to show is its own copy.
LEMMA PublicationKeeps ==
  ASSUME IInv, NEW t \in Threads, NEW work \in PublishJobs,
         job[t].step \in {"list", "copy", "rename"}, job' = [job EXCEPT ![t] = work],
         UNCHANGED settingsVars, UNCHANGED cacheVars, CopyFollows(work)
  PROVE  IInv'
<1>1. work \in CacheJobs /\ work.step \in {"list", "copy", "rename"}
  BY DEF PublishJobs, CacheJobs
<1>2. JobsOK' /\ job'[t] = work /\ \A u \in Threads \ {t} : job'[u] = job[u]
  BY <1>1, JobTaken DEF IInv
<1>3. SettingsInv'
  BY <1>1, <1>2, SettingsRest DEF IInv, Holding
<1>4. UNCHANGED <<root, others, cache, known, failed, behind>>
  BY DEF cacheVars
<1>5. CacheTypeOK' /\ PathsHaveOneOwner'
  BY <1>4 DEF IInv, CacheInv, CacheTypeOK, PathsHaveOneOwner, PathsOf, Registered
<1>6. \A r \in Projects : PathsOf(r)' = PathsOf(r)
  BY <1>4 DEF PathsOf, Registered
<1>7. CopiesFollow'
  <2>1. CopyFollows(job[t])'
    BY <1>2, <1>6 DEF CopyFollows
  <2>2. \A u \in Threads \ {t} : CopyFollows(job[u])'
    BY <1>2, <1>6, CopyStays DEF IInv, CacheInv, CopiesFollow
  <2>3. QED
    BY <2>1, <2>2 DEF CopiesFollow
<1>8. FileIsCurrent'
  BY <1>1, <1>2 DEF FileIsCurrent, InFlight
<1>9. QED
  BY <1>2, <1>3, <1>5, <1>7, <1>8 DEF IInv, CacheInv

LEMMA ListProjectsKeeps ==
  ASSUME IInv, NEW t \in Threads, ListProjects(t), UNCHANGED settingsVars
  PROVE  IInv'
<1>1. PICK order \in SetToSeqs(Registered) :
        job' = [job EXCEPT ![t] = [job[t] EXCEPT !.step = IF order = <<>> THEN "rename" ELSE "copy",
                                                 !.queue = order, !.fresh = TRUE]]
  BY DEF ListProjects, Continues
<1> DEFINE work == [job[t] EXCEPT !.step = IF order = <<>> THEN "rename" ELSE "copy",
                                  !.queue = order, !.fresh = TRUE]
<1>2. job[t].step = "list" /\ UNCHANGED cacheVars
  BY DEF ListProjects
<1>3. job[t] \in PublishJobs /\ job[t].copy = [r \in Projects |-> {}]
  BY <1>2, PublicationInHand DEF IInv, CacheInv, CopiesFollow, CopyFollows
<1>4. order \in Seq(Projects) /\ \A r \in Registered : order # <<>> /\ \E i \in 1..Len(order) : order[i] = r
  BY ListIsComplete
<1>5. /\ work \in PublishJobs /\ work.step = IF order = <<>> THEN "rename" ELSE "copy"
      /\ work.queue = order /\ work.fresh /\ work.copy = [r \in Projects |-> {}]
  BY <1>3, <1>4 DEF PublishJobs
<1>6. job' = [job EXCEPT ![t] = work]
  BY <1>1
<1> HIDE DEF work
<1>7. CopyFollows(work)
  <2>1. ASSUME NEW r \in Projects
        PROVE  \/ work.copy[r] = PathsOf(r)
               \/ work.step = "copy" /\ \E i \in 1..Len(work.queue) : work.queue[i] = r
    <3>1. CASE r \in Registered
      BY <1>4, <1>5, <3>1
    <3>2. CASE r \notin Registered
      BY <1>5, <3>2 DEF PathsOf
    <3>3. QED
      BY <3>1, <3>2
  <2>2. QED
    BY <1>5, <2>1 DEF CopyFollows
<1>8. QED
  BY <1>2, <1>5, <1>6, <1>7, PublicationKeeps

LEMMA CopyProjectKeeps ==
  ASSUME IInv, NEW t \in Threads, CopyProject(t), UNCHANGED settingsVars
  PROVE  IInv'
<1>1. PICK queue, copy : queue = job[t].queue /\ copy = job[t].copy
  OBVIOUS
<1>2. job[t].step = "copy" /\ UNCHANGED cacheVars
  BY DEF CopyProject
<1>3. /\ job[t] \in PublishJobs /\ queue \in Seq(Projects) /\ queue # <<>>
      /\ copy \in [Projects -> SUBSET Paths]
  BY <1>1, <1>2, PublicationInHand DEF IInv, CacheInv, CopiesFollow, CopyFollows
<1>4. Head(queue) \in Projects /\ Tail(queue) \in Seq(Projects) /\ Len(Tail(queue)) = Len(queue) - 1
  BY <1>3
<1>5. PathsOf(Head(queue)) \subseteq Paths
  BY <1>4 DEF IInv, CacheInv, CacheTypeOK, PathsOf, Registered
<1>6. PICK copied : copied = [copy EXCEPT ![Head(queue)] = PathsOf(Head(queue))]
  OBVIOUS
<1>7. copied \in [Projects -> SUBSET Paths]
  BY <1>3, <1>4, <1>5, <1>6
<1> DEFINE work == [job[t] EXCEPT !.step = IF Len(queue) = 1 THEN "rename" ELSE "copy",
                                  !.queue = Tail(queue), !.copy = copied]
<1>8. job' = [job EXCEPT ![t] = work]
  BY <1>1, <1>6 DEF CopyProject, Continues
<1>9. /\ work \in PublishJobs /\ work.step = IF Len(queue) = 1 THEN "rename" ELSE "copy"
      /\ work.queue = Tail(queue) /\ work.copy = copied /\ work.fresh = job[t].fresh
  BY <1>3, <1>4, <1>7 DEF PublishJobs
<1> HIDE DEF work
<1>10. CopyFollows(work)
  <2>1. ASSUME job[t].fresh, NEW r \in Projects
        PROVE  \/ copied[r] = PathsOf(r)
               \/ work.step = "copy" /\ \E i \in 1..Len(Tail(queue)) : Tail(queue)[i] = r
    <3>1. CASE r = Head(queue)
      BY <1>3, <1>6, <3>1
    <3>2. CASE r # Head(queue) /\ copy[r] = PathsOf(r)
      BY <1>3, <1>6, <3>2
    <3>3. CASE r # Head(queue) /\ copy[r] # PathsOf(r)
      <4>1. PICK i \in 1..Len(queue) : queue[i] = r
        BY <1>1, <1>2, <2>1, <3>3 DEF IInv, CacheInv, CopiesFollow, CopyFollows
      <4>2. i # 1
        BY <1>3, <3>3, <4>1
      <4>3. i - 1 \in 1..Len(Tail(queue)) /\ Tail(queue)[i - 1] = r /\ Len(queue) # 1
        BY <1>3, <1>4, <4>1, <4>2
      <4>4. QED
        BY <1>9, <4>3
    <3>4. QED
      BY <3>1, <3>2, <3>3
  <2>2. ASSUME work.step = "copy"
        PROVE  Tail(queue) # <<>>
    <3>1. Len(queue) # 1 /\ Len(queue) \in Nat /\ Len(queue) # 0
      BY <1>3, <1>9, <2>2
    <3>2. Len(Tail(queue)) # 0
      BY <1>4, <3>1
    <3>3. Len(<<>>) = 0
      OBVIOUS
    <3>4. QED
      BY <3>2, <3>3
  <2>3. QED
    BY <1>9, <2>1, <2>2 DEF CopyFollows
<1>11. QED
  BY <1>2, <1>8, <1>9, <1>10, PublicationKeeps

\* A publication is over, with the file in place or without.
LEMMA PublishedKeeps ==
  ASSUME IInv, NEW t \in Threads, Rename(t) \/ TooLarge(t) \/ PublishFails(t), UNCHANGED settingsVars
  PROVE  IInv'
<1>1. PICK ended \in BOOLEAN : job' = [job EXCEPT ![t] = [step |-> "health", failed |-> ended]]
  BY DEF Rename, TooLarge, PublishFails, Continues
<1>2. job[t].step \in {"list", "copy", "rename"} /\ UNCHANGED <<root, others, known, failed>>
  BY DEF Rename, TooLarge, PublishFails
<1>3. PICK work : work = [step |-> "health", failed |-> ended]
  OBVIOUS
<1>4. work \in CacheJobs /\ work.step = "health"
  BY <1>3 DEF CacheJobs
<1>5. JobsOK' /\ job'[t] = work /\ \A u \in Threads \ {t} : job'[u] = job[u]
  BY <1>1, <1>3, <1>4, JobTaken DEF IInv
<1>6. SettingsInv'
  BY <1>2, <1>4, <1>5, SettingsRest DEF IInv, Holding
<1>7. PathsHaveOneOwner' /\ CopiesFollow' /\ Tables' = Tables
  BY <1>2, <1>4, <1>5, TablesRest DEF IInv
<1>8. CacheTypeOK' /\ FileIsCurrent'
  <2>1. CASE Rename(t)
    <3>1. job[t].step = "rename" /\ cache' = job[t].copy /\ behind' = ~job[t].fresh
      BY <2>1 DEF Rename
    <3>2. job[t].copy \in [Projects -> SUBSET Paths]
      BY <3>1, PublicationInHand DEF IInv
    <3>3. job[t].fresh => job[t].copy = Tables
      <4>1. job[t].fresh => \A r \in Projects : job[t].copy[r] = PathsOf(r)
        BY <3>1 DEF IInv, CacheInv, CopiesFollow, CopyFollows
      <4>2. QED
        BY <3>2, <4>1 DEF Tables
    <3>4. QED
      BY <1>2, <1>7, <3>1, <3>2, <3>3 DEF IInv, CacheInv, CacheTypeOK, FileIsCurrent
  <2>2. CASE TooLarge(t) \/ PublishFails(t)
    BY <1>2, <2>2 DEF IInv, CacheInv, CacheTypeOK, FileIsCurrent, TooLarge, PublishFails
  <2>3. QED
    BY <2>1, <2>2
<1>9. QED
  BY <1>5, <1>6, <1>7, <1>8 DEF IInv, CacheInv

-----------------------------------------------------------------------------
(* The process stops and starts *)

LEMMA RestartKeeps ==
  ASSUME IInv, Restart
  PROVE  IInv'
<1>1. job' = [t \in Threads |-> Free] /\ Free.step = "free"
  BY DEF Restart, AllEnd, Free
<1>2. JobsOK'
  BY <1>1 DEF JobsOK
<1>3. SettingsInv'
  BY <1>1, GivenUpKeeps DEF IInv, Restart, SettingsStop
<1>4. /\ UNCHANGED <<root, others, cache, failed>> /\ known' = Tables
      /\ behind' = (behind \/ InFlight)
  BY DEF Restart, CacheRestart, InFlight
<1>5. PathsHaveOneOwner' /\ CopiesFollow' /\ Tables' = Tables
  BY <1>1, <1>4, TablesRest DEF IInv
<1>6. Tables \in [Projects -> SUBSET Paths]
  BY DEF IInv, CacheInv, CacheTypeOK, Tables, PathsOf, Registered
<1>7. CacheTypeOK'
  BY <1>4, <1>6 DEF IInv, CacheInv, CacheTypeOK
<1>8. FileIsCurrent'
  BY <1>4, <1>5 DEF IInv, CacheInv, FileIsCurrent
<1>9. QED
  BY <1>2, <1>3, <1>5, <1>7, <1>8 DEF IInv, CacheInv

-----------------------------------------------------------------------------
(* The theorems *)

LEMMA InitHolds ==
  ASSUME Init
  PROVE  IInv
<1>1. \A t \in Threads : job[t] = Free /\ job[t].step = "free"
  BY DEF Init, ThreadsInit, Free
<1>2. JobsOK
  BY DEF Init, ThreadsInit, JobsOK
<1>3. SettingsInv
  BY <1>1, SettingsAssumption
     DEF Init, SettingsInit, SettingsInv, SettingsTypeOK, Settings, DocumentsAgree, LostOnlyToOverlap,
         SavesRegistered, AutostartFollows, Holding
<1>4. \A r \in Projects : PathsOf(r) \subseteq Paths
  BY DEF Init, CacheInit, PathsOf, Registered
<1>5. CacheInv
  BY <1>1, <1>4
     DEF Init, CacheInit, CacheInv, CacheTypeOK, PathsHaveOneOwner, CopiesFollow, CopyFollows,
         FileIsCurrent, Tables
<1>6. QED
  BY <1>2, <1>3, <1>5 DEF IInv

\* Every step of every command, and a restart under them, keeps both documents as the
\* invariant says.
THEOREM CommandsInvariant == Spec => []IInv
<1>1. Init => IInv
  BY InitHolds
<1>2. IInv /\ [Next]_vars => IInv'
  <2>1. SUFFICES ASSUME IInv, [Next]_vars
                 PROVE  IInv'
    OBVIOUS
  <2>2. CASE \E t \in Threads : SettingsStep(t) /\ UNCHANGED cacheVars
    BY <2>1, <2>2, ReadsKeep, RegisterAutostartKeeps, SettingsFailureKeeps, WriteSettingsKeeps
       DEF SettingsStep
  <2>3. CASE \E t \in Threads : CacheStep(t) /\ UNCHANGED settingsVars
    BY <2>1, <2>3, BeginsKeep, CommitEditKeeps, EndsKeep, ListProjectsKeeps, CopyProjectKeeps,
       PublishedKeeps DEF CacheStep
  <2>4. CASE Restart
    BY <2>1, <2>4, RestartKeeps
  <2>5. CASE UNCHANGED vars
    <3>1. UNCHANGED job /\ UNCHANGED settingsVars /\ UNCHANGED cacheVars
      BY <2>5 DEF vars, threadVars
    <3>2. JobsOK' /\ SettingsInv' /\ CacheInv'
      BY <2>1, <3>1, SettingsRest, CacheUntouched, CacheRests DEF IInv, JobsOK
    <3>3. QED
      BY <3>2 DEF IInv
  <2>6. QED
    BY <2>1, <2>2, <2>3, <2>4, <2>5 DEF Next
<1>3. QED
  BY <1>1, <1>2, PTL DEF Spec

\* Every variable has its type, and a path belongs to one project.
THEOREM TypeCorrect == Spec => []TypeOK
<1>1. IInv => TypeOK
  BY DEF IInv, SettingsInv, CacheInv, PathsHaveOneOwner, TypeOK
<1>2. QED
  BY <1>1, CommandsInvariant, PTL

\* What a command stored in the settings stays until a command about the same field,
\* or one that overlaps (commands/settings.rs reads and writes the whole document).
THEOREM OnlyOverlapLoses == Spec => []LostOnlyToOverlap
<1>1. IInv => LostOnlyToOverlap
  BY DEF IInv, SettingsInv
<1>2. QED
  BY <1>1, CommandsInvariant, PTL

\* The login item is as the settings say (commands/settings.rs registers it before it
\* stores the document), unless a save failed or was overtaken.
THEOREM LoginItemFollows == Spec => []AutostartFollows
<1>1. IInv => AutostartFollows
  BY DEF IInv, SettingsInv
<1>2. QED
  BY <1>1, CommandsInvariant, PTL

-----------------------------------------------------------------------------
(* Directories and the ones they lie in *)

\* Induction over the naturals, as a fact about sets.
LEMMA SetInduction ==
  ASSUME NEW S \in SUBSET Nat, 0 \in S, \A n \in S : n + 1 \in S
  PROVE  S = Nat
<1> DEFINE T == Nat \ S
<1>1. SUFFICES ASSUME T # {} PROVE FALSE
  OBVIOUS
<1>2. PICK n \in T : \A m \in T : ~(<<m, n>> \in OpToRel(<, Nat))
  BY <1>1, WFMin, NatLessThanWellFounded
<1>3. \A m \in T : ~(m < n)
  BY <1>2 DEF OpToRel
<1>4. n - 1 \in Nat /\ n - 1 < n /\ (n - 1) + 1 = n
  OBVIOUS
<1>5. QED
  BY <1>3, <1>4

Places == Paths \cup {NoPath}
\* What Above is to satisfy at one directory.
OneUp(g, p) == IF p = NoPath THEN {} ELSE {p} \cup g[Parent[p]]
Solutions(n) ==
  {g \in [Places -> SUBSET Paths] : \A p \in Places : Depth[p] <= n => g[p] = OneUp(g, p)}

LEMMA ParentIsHigher ==
  /\ Depth \in [Places -> Nat] /\ NoPath \in Places
  /\ \A p \in Places : p # NoPath =>
       p \in Paths /\ Parent[p] \in Places /\ Depth[Parent[p]] < Depth[p]
BY CacheAssumption DEF Places

LEMMA SolutionsExist == \A n \in Nat : Solutions(n) # {}
<1> DEFINE S == {n \in Nat : Solutions(n) # {}}
<1>1. 0 \in S
  <2> DEFINE g == [p \in Places |-> IF p = NoPath THEN {} ELSE {p}]
  <2>1. g \in [Places -> SUBSET Paths]
    BY DEF Places
  <2>2. \A p \in Places : Depth[p] <= 0 => p = NoPath
    BY ParentIsHigher
  <2>3. g \in Solutions(0)
    BY <2>1, <2>2 DEF Solutions, OneUp
  <2>4. QED
    BY <2>3
<1>2. ASSUME NEW n \in S
      PROVE  n + 1 \in S
  <2>1. PICK g : g \in Solutions(n)
    BY <1>2
  <2> DEFINE h == [p \in Places |-> IF Depth[p] <= n THEN g[p] ELSE OneUp(g, p)]
  <2>2. g \in [Places -> SUBSET Paths]
    BY <2>1 DEF Solutions
  <2>3. \A p \in Places : OneUp(g, p) \in SUBSET Paths
    BY <2>2, ParentIsHigher DEF OneUp
  <2>4. h \in [Places -> SUBSET Paths]
    BY <2>2, <2>3
  <2>5. ASSUME NEW p \in Places, Depth[p] <= n + 1
        PROVE  h[p] = OneUp(h, p)
    <3>1. h[p] = OneUp(g, p)
      BY <2>1 DEF Solutions
    <3>2. CASE p = NoPath
      BY <3>1, <3>2 DEF OneUp
    <3>3. CASE p # NoPath
      <4>1. Parent[p] \in Places /\ Depth[Parent[p]] <= n
        BY <2>5, <3>3, ParentIsHigher
      <4>2. h[Parent[p]] = g[Parent[p]]
        BY <4>1
      <4>3. QED
        BY <3>1, <3>3, <4>2 DEF OneUp
    <3>4. QED
      BY <3>2, <3>3
  <2>6. h \in Solutions(n + 1)
    BY <2>4, <2>5 DEF Solutions
  <2>7. QED
    BY <2>6
<1>3. S = Nat
  BY <1>1, <1>2, SetInduction
<1>4. QED
  BY <1>3

LEMMA SolutionsAgree ==
  ASSUME NEW k \in Nat, NEW m \in Nat, NEW g \in Solutions(k), NEW h \in Solutions(m),
         NEW p \in Places, Depth[p] <= k, Depth[p] <= m
  PROVE  g[p] = h[p]
<1> DEFINE S == {n \in Nat : \A q \in Places : Depth[q] <= n /\ Depth[q] <= k /\ Depth[q] <= m => g[q] = h[q]}
<1>1. \A q \in Places : /\ Depth[q] <= k => g[q] = OneUp(g, q)
                        /\ Depth[q] <= m => h[q] = OneUp(h, q)
  BY DEF Solutions
<1>2. 0 \in S
  <2>1. \A q \in Places : Depth[q] <= 0 => q = NoPath
    BY ParentIsHigher
  <2>2. QED
    BY <1>1, <2>1 DEF OneUp
<1>3. ASSUME NEW n \in S
      PROVE  n + 1 \in S
  <2>1. ASSUME NEW q \in Places, Depth[q] <= n + 1, Depth[q] <= k, Depth[q] <= m
        PROVE  g[q] = h[q]
    <3>1. CASE q = NoPath
      BY <1>1, <2>1, <3>1 DEF OneUp
    <3>2. CASE q # NoPath
      <4>1. Parent[q] \in Places /\ Depth[Parent[q]] <= n /\ Depth[Parent[q]] <= k /\ Depth[Parent[q]] <= m
        BY <2>1, <3>2, ParentIsHigher
      <4>2. g[Parent[q]] = h[Parent[q]]
        BY <4>1
      <4>3. QED
        BY <1>1, <2>1, <3>2, <4>2 DEF OneUp
    <3>3. QED
      BY <3>1, <3>2
  <2>2. QED
    BY <2>1
<1>4. S = Nat
  BY <1>2, <1>3, SetInduction
<1>5. Depth[p] \in S
  BY <1>4, ParentIsHigher
<1>6. QED
  BY <1>5, ParentIsHigher

LEMMA AboveUnfolds ==
  /\ Above \in [Places -> SUBSET Paths]
  /\ Above[NoPath] = {}
  /\ \A p \in Paths : Above[p] = {p} \cup Above[Parent[p]]
<1> DEFINE at(p) == CHOOSE g : g \in Solutions(Depth[p])
           G == [p \in Places |-> at(p)[p]]
<1>1. \A p \in Places : at(p) \in Solutions(Depth[p])
  BY SolutionsExist, ParentIsHigher
<1>2. ASSUME NEW p \in Places
      PROVE  G[p] = OneUp(G, p) /\ G[p] \in SUBSET Paths
  <2>1. at(p) \in Solutions(Depth[p]) /\ Depth[p] \in Nat /\ G[p] = at(p)[p]
    BY <1>1, ParentIsHigher
  <2> HIDE DEF at, G
  <2>2. G[p] = OneUp(at(p), p) /\ G[p] \in SUBSET Paths
    BY <2>1 DEF Solutions
  <2>3. CASE p = NoPath
    BY <2>2, <2>3 DEF OneUp
  <2>4. CASE p # NoPath
    <3> DEFINE q == Parent[p]
    <3>1. q \in Places /\ Depth[q] \in Nat /\ Depth[q] <= Depth[p]
      BY <2>4, ParentIsHigher
    <3>2. at(q) \in Solutions(Depth[q]) /\ G[q] = at(q)[q]
      BY <1>1, <3>1 DEF G
    <3> HIDE DEF q
    <3>3. at(p)[q] = at(q)[q]
      BY <2>1, <3>1, <3>2, SolutionsAgree
    <3>4. QED
      BY <2>2, <2>4, <3>2, <3>3 DEF OneUp, q
  <2>5. QED
    BY <2>2, <2>3, <2>4
<1> HIDE DEF at
<1>3. G = [p \in Places |-> OneUp(G, p)]
  BY <1>2
<1> HIDE DEF G
<1>4. \E f : f = [p \in Paths \cup {NoPath} |-> IF p = NoPath THEN {} ELSE {p} \cup f[Parent[p]]]
  BY <1>3 DEF OneUp, Places
<1>5. Above = [p \in Paths \cup {NoPath} |-> IF p = NoPath THEN {} ELSE {p} \cup Above[Parent[p]]]
  BY <1>4 DEF Above
<1>6. Above[NoPath] = {} /\ \A p \in Paths : Above[p] = {p} \cup Above[Parent[p]]
  BY <1>5, CacheAssumption
<1> DEFINE S == {n \in Nat : \A p \in Places : Depth[p] <= n => Above[p] \in SUBSET Paths}
<1>7. 0 \in S
  BY <1>6, ParentIsHigher
<1>8. \A n \in S : n + 1 \in S
  BY <1>6, ParentIsHigher
<1>9. S = Nat
  BY <1>7, <1>8, SetInduction
<1>10. \A p \in Places : Above[p] \in SUBSET Paths
  BY <1>9, ParentIsHigher
<1>11. QED
  BY <1>5, <1>6, <1>10 DEF Places

\* Of two directories above a third, the one of fewer segments is above the other.
LEMMA AboveIsAChain ==
  ASSUME NEW p \in Paths, NEW a \in Above[p], NEW q \in Above[p]
  PROVE  /\ a \in Paths /\ Depth[a] <= Depth[p]
         /\ Depth[q] <= Depth[a] => q \in Above[a]
         /\ Depth[q] = Depth[a] => q = a
<1> DEFINE Fine(r) ==
      \A b, c \in Above[r] :
        /\ Depth[b] <= Depth[r]
        /\ Depth[c] <= Depth[b] => c \in Above[b]
        /\ Depth[c] = Depth[b] => c = b
      S == {n \in Nat : \A r \in Places : Depth[r] <= n => Fine(r)}
<1>1. 0 \in S
  <2>1. \A r \in Places : Depth[r] <= 0 => r = NoPath
    BY ParentIsHigher
  <2>2. QED
    BY <2>1, AboveUnfolds
<1>2. ASSUME NEW n \in S
      PROVE  n + 1 \in S
  <2>1. ASSUME NEW r \in Places, Depth[r] <= n + 1
        PROVE  Fine(r)
    <3>1. CASE r = NoPath
      BY <3>1, AboveUnfolds
    <3>2. CASE r # NoPath
      <4> DEFINE up == Parent[r]
      <4>1. r \in Paths /\ up \in Places /\ Depth[up] < Depth[r] /\ Depth[up] <= n /\ Depth[r] \in Nat
            /\ Depth[up] \in Nat
        BY <2>1, <3>2, ParentIsHigher
      <4>2. Fine(up)
        BY <4>1
      <4>3. Above[r] = {r} \cup Above[up]
        BY <4>1, AboveUnfolds
      <4>4. \A b \in Above[up] : b \in Places /\ Depth[b] \in Nat /\ Depth[b] < Depth[r]
        BY <4>1, <4>2, AboveUnfolds, ParentIsHigher DEF Places
      <4> HIDE DEF up
      <4>5. ASSUME NEW b \in Above[r], NEW c \in Above[r]
            PROVE  /\ Depth[b] <= Depth[r]
                   /\ Depth[c] <= Depth[b] => c \in Above[b]
                   /\ Depth[c] = Depth[b] => c = b
        <5>1. CASE b = r
          BY <4>1, <4>3, <4>4, <5>1
        <5>2. CASE b \in Above[up] /\ c = r
          BY <4>1, <4>4, <5>2
        <5>3. CASE b \in Above[up] /\ c \in Above[up]
          BY <4>1, <4>2, <4>4, <5>3
        <5>4. QED
          BY <4>3, <5>1, <5>2, <5>3
      <4>6. QED
        BY <4>5
    <3>3. QED
      BY <3>1, <3>2
  <2>2. QED
    BY <2>1
<1>3. S = Nat
  BY <1>1, <1>2, SetInduction
<1>4. p \in Places /\ Depth[p] \in S /\ Depth[p] \in Nat
  BY <1>3, ParentIsHigher DEF Places
<1>5. Fine(p)
  BY <1>4
<1>6. Above[p] \subseteq Paths
  BY <1>4, AboveUnfolds
<1>7. QED
  BY <1>5, <1>6

\* A longest prefix is there, if there is a prefix at all.
LEMMA LongestExists ==
  ASSUME NEW p \in Paths, NEW T \in SUBSET Above[p], T # {}
  PROVE  \E a \in T : \A b \in T : Depth[b] <= Depth[a]
<1>1. \A b \in T : Depth[b] \in Nat /\ Depth[b] <= Depth[p] /\ Depth[p] \in Nat
  BY AboveIsAChain, AboveUnfolds, ParentIsHigher DEF Places
<1>2. SUFFICES ASSUME \A a \in T : \E b \in T : Depth[a] < Depth[b]
               PROVE  FALSE
  BY <1>1
<1>3. PICK c : c \in T
  OBVIOUS
<1> DEFINE U == {n \in Nat : \E b \in T : n <= Depth[b]}
<1>4. 0 \in U
  BY <1>1, <1>3
<1>5. \A n \in U : n + 1 \in U
  BY <1>1, <1>2
<1>6. U = Nat
  BY <1>4, <1>5, SetInduction
<1>7. Depth[p] + 1 \in U
  BY <1>1, <1>3, <1>6
<1>8. QED
  BY <1>1, <1>7

\* In the tables each directory has one nearest project.
LEMMA NearestInTables ==
  ASSUME IInv, ~InFlight, ~behind, NEW p \in Paths
  PROVE  LET nearest == HelperResolves(p) IN
         /\ Cardinality(nearest) <= 1
         /\ \A r \in nearest : \E a \in PathsOf(r) :
              a \in Above[p] /\ Taken \cap Above[p] \subseteq Above[a]
         /\ nearest = {} => Taken \cap Above[p] = {}
<1> DEFINE prefixes == Taken \cap Above[p]
           longest == {a \in prefixes : \A b \in prefixes : Depth[b] <= Depth[a]}
           nearest == HelperResolves(p)
<1>1. cache = Tables
  BY DEF IInv, CacheInv, FileIsCurrent
<1>2. prefixes = {a \in Above[p] : \E r \in Projects : a \in cache[r]}
  BY <1>1 DEF Tables, Taken
<1>3. nearest = {r \in Projects : \E a \in longest : a \in PathsOf(r)}
  BY <1>1, <1>2 DEF HelperResolves, ResolvesAmong, Tables
<1>4. \A a \in Above[p] : a \in Places /\ Depth[a] \in Nat
  BY AboveIsAChain, ParentIsHigher DEF Places
<1>5. \A r, q \in nearest : r = q
  <2>1. ASSUME NEW r \in nearest, NEW q \in nearest
        PROVE  r = q
    <3>1. PICK a \in longest : a \in PathsOf(r)
      BY <1>3
    <3>2. PICK b \in longest : b \in PathsOf(q)
      BY <1>3
    <3>3. Depth[a] = Depth[b]
      BY <1>4
    <3>4. a = b
      BY <3>3, AboveIsAChain
    <3>5. r \in Projects /\ q \in Projects
      BY <1>3
    <3>6. QED
      BY <3>1, <3>2, <3>4, <3>5 DEF IInv, CacheInv, PathsHaveOneOwner
  <2>2. QED
    BY <2>1
<1> HIDE DEF nearest
<1>6. Cardinality(nearest) <= 1
  <2>1. CASE nearest = {}
    BY <2>1, FS_EmptySet
  <2>2. CASE nearest # {}
    <3>1. PICK r : nearest = {r}
      BY <1>5, <2>2
    <3>2. Cardinality({r}) = 1
      BY FS_Singleton
    <3>3. QED
      BY <3>1, <3>2
  <2>3. QED
    BY <2>1, <2>2
<1>7. ASSUME NEW r \in nearest
      PROVE  \E a \in PathsOf(r) : a \in Above[p] /\ Taken \cap Above[p] \subseteq Above[a]
  <2>1. PICK a \in longest : a \in PathsOf(r)
    BY <1>3
  <2>2. \A q \in prefixes : q \in Above[a]
    BY AboveIsAChain
  <2>3. QED
    BY <2>1, <2>2
<1>8. ASSUME prefixes # {}
      PROVE  nearest # {}
  <2>1. PICK a \in longest : TRUE
    BY <1>8, LongestExists
  <2>2. PICK r \in Projects : a \in PathsOf(r)
    BY DEF Taken
  <2>3. QED
    BY <1>3, <2>2
<1>9. QED
  BY <1>6, <1>7, <1>8 DEF nearest

\* Between publications the helper gives each working directory the project of the
\* nearest path registered above it, and one at most (projects/resolver.rs over the
\* file hook_command.rs reads), unless the file came from before an edit or was not
\* written. The longest prefix in segments is the nearest, as the prefixes of a path
\* lie in one another.
THEOREM NearestProjectFound == Spec => [](FileIsCurrent /\ NearestProjectKnown)
<1>1. IInv => NearestProjectKnown
  BY NearestInTables DEF NearestProjectKnown
<1>2. IInv => FileIsCurrent
  BY DEF IInv, CacheInv
<1>3. QED
  BY <1>1, <1>2, CommandsInvariant, PTL
=============================================================================
