--------------------------- MODULE BootstrapProofs ---------------------------
(***************************************************************************)
(* Theorems about Bootstrap, for every set of servers, key pairs and       *)
(* environments, and every number of deaths and changes.                   *)
(***************************************************************************)
EXTENDS Bootstrap, TLAPS

\* What is read for a half, from a variable or from its file, can be loaded.
LEMMA HalfLoadable ==
  ASSUME BootTypeOK, NEW s \in Server
  PROVE  /\ VariableOrFile(config[s].sslPrivateKey, files.key) \in Loadable
         /\ VariableOrFile(config[s].sslPublicKey, files.cert) \in Loadable
<1>1. config[s] \in Configurations
  BY DEF BootTypeOK, Process
<1>2. {files.key, files.cert} \subseteq (Pair \cup {Unset}) \ {Blank}
  BY MarksAssumption DEF BootTypeOK
<1> QED
  BY <1>1, <1>2 DEF Loadable, VariableOrFile

\* A pair given in one of the two documented ways is read whole, and accepted.
LEMMA WholeIsRead ==
  ASSUME BootTypeOK, NEW s \in Server, Whole(config[s], files)
  PROVE  LET k == VariableOrFile(config[s].sslPrivateKey, files.key)
         IN  /\ k \in Pair /\ k # Unset
             /\ ByVariables(config[s]) \/ (ByFiles(config[s], files) /\ k = files.key)
BY MarksAssumption DEF Whole, ByVariables, ByFiles, VariableOrFile

LEMMA VariablesAreRead ==
  ASSUME NEW s \in Server, ByVariables(config[s])
  PROVE  /\ VariableOrFile(config[s].sslPrivateKey, files.key) = config[s].sslPrivateKey
         /\ Accepted(config[s].sslPrivateKey,
                     VariableOrFile(config[s].sslPublicKey, files.cert))
BY MarksAssumption DEF ByVariables, VariableOrFile, Accepted

LEMMA FilesAreRead ==
  ASSUME NEW s \in Server, ByFiles(config[s], files)
  PROVE  Accepted(files.key, VariableOrFile(config[s].sslPublicKey, files.cert))
BY DEF ByFiles, VariableOrFile, Accepted

-----------------------------------------------------------------------------
LEMMA TypeInit == Init => BootTypeOK
<1> SUFFICES ASSUME Init PROVE BootTypeOK
  OBVIOUS
<1>1. Configuration(env) \in Configurations
  BY DEF Init, Configurations
<1>2. Unset \in Loadable
  BY MarksAssumption DEF Loadable
<1> QED
  BY <1>1, <1>2, BoundAssumption DEF Init, BootTypeOK

LEMMA TypeStep == BootTypeOK /\ [Next]_vars => BootTypeOK'
<1> SUFFICES ASSUME BootTypeOK, [Next]_vars PROVE BootTypeOK'
  OBVIOUS
<1>t. Server \subseteq Process /\ MaxFaults \in Nat
  BY BoundAssumption DEF Process
<1>1. ASSUME NEW p \in Process, Start(p) PROVE BootTypeOK'
  <2>1. Configuration(env) \in Configurations
    BY DEF BootTypeOK, Configurations
  <2> QED
    BY <1>1, <2>1 DEF BootTypeOK, Start, Goes
<1>2. ASSUME NEW p \in Process, Connect(p) \/ Collect(p) PROVE BootTypeOK'
  BY <1>2 DEF BootTypeOK, Connect, Collect, Goes
<1>3. ASSUME NEW s \in Process, ListenPlain(s) \/ FallBack(s) PROVE BootTypeOK'
  BY <1>3 DEF BootTypeOK, ListenPlain, FallBack, Goes, Listening
<1>4. ASSUME NEW s \in Process, LoadKey(s) PROVE BootTypeOK'
  <2> DEFINE k == VariableOrFile(config[s].sslPrivateKey, files.key)
  <2>1. s \in Server /\ k \in Loadable
    BY <1>4, HalfLoadable DEF LoadKey
  <2>2. Whole(config[s], files) \in BOOLEAN
    BY DEF Whole, ByVariables, ByFiles
  <2>3. /\ key' = [key EXCEPT ![s] = k]
        /\ sound' = [sound EXCEPT ![s] = Whole(config[s], files)]
        /\ \E l \in {"failed", "keyed"} : pc' = [pc EXCEPT ![s] = l]
        /\ UNCHANGED <<env, files, config, cert, faults>>
    BY <1>4 DEF LoadKey, Goes
  <2> HIDE DEF k
  <2> QED
    BY <2>1, <2>2, <2>3 DEF BootTypeOK
<1>5. ASSUME NEW s \in Process, LoadCertificate(s) PROVE BootTypeOK'
  <2> DEFINE c == VariableOrFile(config[s].sslPublicKey, files.cert)
  <2>1. s \in Server /\ c \in Loadable
    BY <1>5, HalfLoadable DEF LoadCertificate
  <2>2. /\ cert' = [cert EXCEPT ![s] = c]
        /\ \E l \in {"failed", "https"} : pc' = [pc EXCEPT ![s] = l]
        /\ UNCHANGED <<env, files, config, key, sound, faults>>
    BY <1>5 DEF LoadCertificate, Goes
  <2> HIDE DEF c
  <2> QED
    BY <2>1, <2>2 DEF BootTypeOK, Listening
<1>6. ASSUME NEW p \in Process, Die(p) PROVE BootTypeOK'
  BY <1>6, <1>t DEF BootTypeOK, Die, Fault
<1>7. ASSUME ChangeEnvironment PROVE BootTypeOK'
  BY <1>7, <1>t DEF BootTypeOK, ChangeEnvironment, Fault
<1>8. ASSUME NEW half \in {"key", "cert"}, ReplaceFile(half) PROVE BootTypeOK'
  <2>1. files' \in [key : Pair \cup {Unset}, cert : Pair \cup {Unset}]
    BY <1>8 DEF BootTypeOK, ReplaceFile
  <2>2. sound' \in [Server -> BOOLEAN]
    BY <1>8 DEF BootTypeOK, ReplaceFile, ByVariables
  <2> QED
    BY <1>8, <1>t, <2>1, <2>2 DEF BootTypeOK, ReplaceFile, Fault
<1>9. CASE UNCHANGED vars
  BY <1>9 DEF BootTypeOK, vars
<1> QED
  BY <1>1, <1>2, <1>3, <1>4, <1>5, <1>6, <1>7, <1>8, <1>9 DEF Next, ProcessStep

-----------------------------------------------------------------------------
LEMMA KeysInit == Init => KeysInv
BY DEF Init, KeysInv, Process

\* What KeysInv says of one server.
KeysInvOf(s) ==
  /\ pc[s] = "failed" \/ (pc[s] = "http" /\ HTTPS_ENABLED(config[s])) => ~sound[s]
  /\ pc[s] \in {"keyed", "https"} /\ ByVariables(config[s]) => key[s] = config[s].sslPrivateKey
  /\ pc[s] = "keyed" /\ sound[s] =>
       ByVariables(config[s]) \/ (ByFiles(config[s], files) /\ key[s] = files.key)

\* A server of which nothing changes but that it dies, or starts anew.
LEMMA Undisturbed ==
  ASSUME BootTypeOK, NEW s \in Server, KeysInvOf(s),
         UNCHANGED <<files, key[s], sound[s]>>,
         \/ UNCHANGED <<pc[s], config[s]>>
         \/ pc'[s] \in {"down", "configured", "created", "collecting"}
  PROVE  KeysInvOf(s)'
BY DEF KeysInvOf, ByVariables, ByFiles, HTTPS_ENABLED, Get

LEMMA KeysStep == BootTypeOK /\ KeysInv /\ [Next]_vars => KeysInv'
<1> SUFFICES ASSUME BootTypeOK, KeysInv, [Next]_vars, NEW s \in Server
             PROVE  KeysInvOf(s)'
  BY DEF KeysInv, KeysInvOf
<1>i. KeysInvOf(s) /\ s \in Process
  BY DEF KeysInv, KeysInvOf, Process
<1>1. ASSUME NEW p \in Process, Start(p) \/ Connect(p) \/ Collect(p) \/ Die(p)
      PROVE  KeysInvOf(s)'
  <2>1. UNCHANGED <<files, key[s], sound[s]>>
    BY <1>1 DEF Start, Connect, Collect, Die
  <2>2. UNCHANGED <<pc[s], config[s]>> \/ pc'[s] \in {"down", "configured", "created", "collecting"}
    BY <1>1, <1>i DEF Start, Connect, Collect, Die, Goes, BootTypeOK
  <2> QED
    BY <1>i, <2>1, <2>2, Undisturbed
<1>2. ASSUME NEW p \in Process, p # s,
             ListenPlain(p) \/ FallBack(p) \/ LoadKey(p) \/ LoadCertificate(p)
      PROVE  KeysInvOf(s)'
  <2>1. UNCHANGED <<files, key[s], sound[s], pc[s], config[s]>>
    BY <1>2, <1>i DEF ListenPlain, FallBack, LoadKey, LoadCertificate, Goes, BootTypeOK
  <2> QED
    BY <1>i, <2>1, Undisturbed
<1>3. CASE ListenPlain(s)
  <2>1. pc'[s] = "http" /\ ~HTTPS_ENABLED(config'[s])
    BY <1>3, <1>i DEF ListenPlain, Goes, BootTypeOK
  <2> QED
    BY <2>1 DEF KeysInvOf
<1>4. CASE FallBack(s)
  <2>1. pc[s] = "failed" /\ pc'[s] = "http" /\ UNCHANGED sound
    BY <1>4, <1>i DEF FallBack, Goes, BootTypeOK
  <2> QED
    BY <1>i, <2>1 DEF KeysInvOf
<1>5. CASE LoadKey(s)
  <2> DEFINE k == VariableOrFile(config[s].sslPrivateKey, files.key)
  <2>1. /\ pc'[s] = IF k = Unset THEN "failed" ELSE "keyed"
        /\ key'[s] = k
        /\ sound'[s] = Whole(config[s], files)
        /\ UNCHANGED <<files, config>>
    BY <1>5, <1>i DEF LoadKey, Goes, BootTypeOK
  <2>2. ByVariables(config[s]) => k = config[s].sslPrivateKey
    BY VariablesAreRead
  <2>3. Whole(config[s], files) =>
          k # Unset /\ (ByVariables(config[s]) \/ (ByFiles(config[s], files) /\ k = files.key))
    BY WholeIsRead
  <2>4. UNCHANGED <<ByVariables(config[s]), ByFiles(config[s], files)>>
    BY <2>1 DEF ByVariables, ByFiles
  <2> HIDE DEF k
  <2> QED
    BY <2>1, <2>2, <2>3, <2>4 DEF KeysInvOf
<1>6. CASE LoadCertificate(s)
  <2> DEFINE c == VariableOrFile(config[s].sslPublicKey, files.cert)
  <2>1. /\ pc[s] = "keyed"
        /\ pc'[s] = IF Accepted(key[s], c) THEN "https" ELSE "failed"
        /\ UNCHANGED <<files, config, key, sound>>
    BY <1>6, <1>i DEF LoadCertificate, Goes, BootTypeOK
  <2>2. sound[s] => Accepted(key[s], c)
    BY <1>i, <2>1, VariablesAreRead, FilesAreRead DEF KeysInvOf
  <2>3. UNCHANGED ByVariables(config[s])
    BY <2>1 DEF ByVariables
  <2> HIDE DEF c
  <2> QED
    BY <1>i, <2>1, <2>2, <2>3 DEF KeysInvOf
<1>7. CASE ChangeEnvironment
  BY <1>7, <1>i, Undisturbed DEF ChangeEnvironment
<1>8. ASSUME NEW half \in {"key", "cert"}, ReplaceFile(half)
      PROVE  KeysInvOf(s)'
  <2>1. /\ UNCHANGED <<pc, config, key>>
        /\ sound'[s] = (sound[s] /\ (pc[s] = "keyed" => ByVariables(config[s])))
    BY <1>8 DEF ReplaceFile
  <2>2. UNCHANGED <<ByVariables(config[s]), HTTPS_ENABLED(config[s])>>
    BY <2>1 DEF ByVariables, HTTPS_ENABLED, Get
  <2> QED
    BY <1>i, <2>1, <2>2 DEF KeysInvOf
<1>9. CASE UNCHANGED vars
  BY <1>9, <1>i, Undisturbed DEF vars
<1> QED
  BY <1>1, <1>2, <1>3, <1>4, <1>5, <1>6, <1>7, <1>8, <1>9 DEF Next, ProcessStep

-----------------------------------------------------------------------------
\* Whatever dies and whatever is replaced meanwhile, every process is in a
\* known place with a configuration that some environment gives.
THEOREM BootTypeCorrect == Spec => []BootTypeOK
BY TypeInit, TypeStep, PTL DEF Spec

\* A pair given in a documented way is served whole by every server that was
\* given it: it neither falls back nor mixes it with another one.
THEOREM WholePair == Spec => []WholePairServed
<1>1. KeysInv => WholePairServed
  BY DEF KeysInv, WholePairServed
<1> QED
  BY <1>1, BootTypeCorrect, KeysInit, KeysStep, PTL DEF Spec
=============================================================================
