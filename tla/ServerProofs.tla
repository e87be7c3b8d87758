---------------------------- MODULE ServerProofs ----------------------------
(***************************************************************************)
(* ServerInv is an invariant of ServerSpec for any number of writes of the *)
(* configuration file and of HTTP requests; the provider alone keeps its   *)
(* part of it.                                                             *)
(***************************************************************************)
EXTENDS Server, TLAPS

USE BoundAssumption

\* The provider's part: a version the file calls valid was recorded as valid.
ProviderInv == ServesValid /\ (file.valid => file.content \in valid)

\* The provider's part holds when NewFileProvider has returned.
LEMMA ProviderInit == Init => ProviderInv
BY DEF Init, ProviderInv, ServesValid, File, Version, PC

\* One step of the watcher or one edit of the file keeps it.
LEMMA ProviderStep ==
    ASSUME ProviderInv, [Next]_vars PROVE ProviderInv'
<1>t. /\ file \in File /\ modTime \in Version /\ mtime \in Version
      /\ pc \in PC /\ current \in valid /\ data \in valid /\ valid \subseteq Version
      /\ file.content \in Version /\ file.modTime \in Version /\ file.valid \in BOOLEAN
  BY DEF ProviderInv, ServesValid, File
<1>1. CASE PollChanged
  BY <1>1 DEF PollChanged, edits, ProviderInv, ServesValid, PC
<1>2. CASE ReadFile
  <2>1. pc' \in PC /\ data' \in valid
    BY <1>2, <1>t DEF ReadFile, PC, ProviderInv
  <2>2. QED
    BY <1>2, <2>1 DEF ReadFile, edits, ProviderInv, ServesValid
<1>3. CASE StatFile
  <2>1. pc' \in PC /\ mtime' \in Version
    BY <1>3, <1>t DEF StatFile, PC
  <2>2. QED
    BY <1>3, <2>1 DEF StatFile, edits, ProviderInv, ServesValid
<1>4. CASE StoreConfig
  BY <1>4, <1>t DEF StoreConfig, edits, ProviderInv, ServesValid, PC
<1>5. CASE Remove
  <2>1. file' \in File /\ file'.valid = file.valid /\ file'.content = file.content
    BY <1>5, <1>t DEF Remove, File
  <2>2. QED
    BY <1>5, <2>1 DEF Remove, reloading, ProviderInv, ServesValid
<1>6. ASSUME NEW ok \in BOOLEAN, Write(ok)
      PROVE  ProviderInv'
  <2> DEFINE n == file.content + 1
  <2>1. n \in Version
    BY <1>6, <1>t DEF Write, Version
  <2>2. /\ file' = [content |-> n, valid |-> ok, modTime |-> n, exists |-> TRUE]
        /\ valid' = IF ok THEN valid \cup {n} ELSE valid
        /\ UNCHANGED <<current, modTime, pc, data, mtime>>
    BY <1>6 DEF Write, reloading
  <2> HIDE DEF n
  <2>3. file' \in File
    BY <2>1, <2>2 DEF File
  <2>4. valid' \subseteq Version /\ valid \subseteq valid'
    BY <1>t, <2>1, <2>2
  <2>5. file'.valid => file'.content \in valid'
    BY <2>2
  <2>6. QED
    BY <1>t, <2>2, <2>3, <2>4, <2>5 DEF ProviderInv, ServesValid
<1>7. CASE UNCHANGED vars
  BY <1>7 DEF vars, ProviderInv, ServesValid
<1>8. QED
  BY <1>1, <1>2, <1>3, <1>4, <1>5, <1>6, <1>7 DEF Next, Watcher

\* A FileProvider on its own never serves what failed to parse or validate,
\* however often the file is rewritten or removed during a reload.
THEOREM ProviderServesValid == Spec => []ServesValid
<1>1. ProviderInv => ServesValid
  BY DEF ProviderInv
<1>2. ProviderInv /\ [Next]_vars => ProviderInv'
  BY ProviderStep
<1>3. QED
  BY <1>1, <1>2, ProviderInit, PTL DEF Spec

-----------------------------------------------------------------------------
\* Every step of the process is a step of its provider, or leaves it alone.
LEMMA ServerStepsProvider == [ServerNext]_serverVars => [Next]_vars
BY DEF ServerNext, serverVars, config, process, vars, Next, Start, Connect,
       Shutdown, Drain, DrainTimeout, CloseStore, Return, Listen, ListenFails,
       StopSignals, Signal, SignalKills, WatchReturns, Accept, Answer, Watch, Edit

\* The phases of main and what requests meet in them.
LEMMA PhasesStep ==
    ASSUME PhasesInOrder, CleanDrain, [ServerNext]_serverVars
    PROVE  PhasesInOrder' /\ CleanDrain'
<1> USE DEF PhasesInOrder, CleanDrain, history
<1>1. CASE Start
  BY <1>1 DEF Start, Exit, Gone
<1>2. CASE Connect
  BY <1>2 DEF Connect, Exit, Gone
<1>3. CASE Shutdown
  BY <1>3 DEF Shutdown
<1>4. CASE Drain
  BY <1>4 DEF Drain, Idle
<1>5. CASE DrainTimeout
  BY <1>5 DEF DrainTimeout
<1>6. CASE CloseStore
  BY <1>6 DEF CloseStore
<1>7. CASE Return
  BY <1>7 DEF Return, Exit, Gone
<1>8. CASE Listen \/ ListenFails \/ StopSignals \/ Signal \/ WatchReturns
  BY <1>8 DEF Listen, ListenFails, StopSignals, Signal, WatchReturns
<1>9. ASSUME NEW r \in Request, Accept(r)
      PROVE  PhasesInOrder' /\ CleanDrain'
  BY <1>9 DEF Accept
<1>10. ASSUME NEW r \in Request, Answer(r)
       PROVE  PhasesInOrder' /\ CleanDrain'
  BY <1>10 DEF Answer
<1>11. CASE Watch \/ Edit \/ UNCHANGED serverVars
  BY <1>11 DEF Watch, Edit, process, serverVars
<1>12. CASE SignalKills
  <2>1. CASE main = "start"
    BY <1>12, <2>1 DEF SignalKills, Gone
  <2>2. CASE listener = "failed"
    BY <1>12, <2>2 DEF SignalKills, Gone
  <2>3. QED
    BY <1>12, <2>1, <2>2 DEF SignalKills, Up
<1>13. QED
  BY <1>1, <1>2, <1>3, <1>4, <1>5, <1>6, <1>7, <1>8, <1>9, <1>10, <1>11, <1>12
  DEF ServerNext

\* The invariant of the process, from start-up to exit.
THEOREM Invariance == ServerSpec => []ServerInv
<1>1. ServerInit => ServerInv
  BY ProviderInit DEF ServerInit, ServerInv, ProviderInv, PhasesInOrder, CleanDrain
<1>2. ServerInv /\ [ServerNext]_serverVars => ServerInv'
  BY ProviderStep, ServerStepsProvider, PhasesStep DEF ServerInv, ProviderInv
<1>3. QED
  BY <1>1, <1>2, PTL DEF ServerSpec

\* A process that serves, drains or exits has a valid configuration throughout.
THEOREM ServesValidHolds == ServerSpec => []ServesValid
<1>1. ServerInv => ServesValid
  BY DEF ServerInv
<1>2. QED
  BY <1>1, Invariance, PTL

\* A shutdown that was granted enough time breaks no request off, whichever
\* requests it meets and wherever signals and the listener's failure fall,
\* except by a signal that arrives after the stop a failed listener calls.
THEOREM CleanDrainHolds == ServerSpec => []CleanDrain
<1>1. ServerInv => CleanDrain
  BY DEF ServerInv
<1>2. QED
  BY <1>1, Invariance, PTL
=============================================================================
