------------------------------ MODULE Bootstrap ------------------------------
(***************************************************************************)
(* How the processes come up: the TAXII servers (main.ts, several of one   *)
(* program behind a process manager) and the collector (hydrate.ts).  Each *)
(* reads the environment once, when it starts.  A server asked for HTTPS   *)
(* then reads a private key and a certificate, each from a variable or     *)
(* from a file of its own, and falls back to plain HTTP on the other port  *)
(* when they cannot be used.  The operator may replace the two files and   *)
(* change the environment at any time, one thing at a time; processes die. *)
(***************************************************************************)
EXTENDS Naturals, Sequences

CONSTANTS
  Server, Collector,   \* the processes
  Pair,                \* key pairs; the two halves of one have its name
  Unset, Blank,        \* a variable that is not there, or empty
  Environments,        \* environments an operator may set, see below
  MaxFaults            \* bound on deaths, changes and failures

ASSUME MarksAssumption == Unset # Blank /\ Pair \cap {Unset, Blank} = {}

ASSUME BoundAssumption == MaxFaults \in Nat

\* An environment: https, key and cert are TAXII_HTTPS_ENABLED and
\* TAXII_SSL_*; src is TAXII_STIX_DATA_SRC, mail TAXII_CONTACT_EMAIL, root
\* TAXII_API_ROOT_PATH, as [path, slash: whether it ends in one]; stray is ENV,
\* of no meaning to this program.
Process == Server \cup Collector

VARIABLES
  env,       \* what a process that starts now finds in its environment
  files,     \* [key, cert]: the files under config/, Unset when missing
  pc,        \* per process, how far it has come
  config,    \* per process, the configuration it has read
  key, cert, \* per server, what it has loaded
  sound,     \* (history) per server, it had a usable pair while it loaded one
  faults

vars == <<env, files, pc, config, key, cert, sound, faults>>

(***************************************************************************)
(* Configuration.                                                          *)
(***************************************************************************)
OrDefault(v, default) == IF v \in {Unset, Blank} THEN default ELSE v

\* registerAs("app"): what configuration.ts makes of the environment.
Configuration(e) ==
  [httpsEnabled |-> e.https, sslPrivateKey |-> e.key, sslPublicKey |-> e.cert,
   stixDataSrc |-> OrDefault(e.src, "workbench"),
   contactEmail |-> OrDefault(e.mail, "no-reply"),
   apiRootPath |-> OrDefault(e.root, [path |-> "api/v21", slash |-> FALSE])]

\* The schema names the variables without TAXII_, so it judges what other
\* programs put there and never this one's.
Rejected(e) == e.stray \notin {Unset, "dev", "prod"}

\* ConfigService.get: undefined for a name nobody registered.
Get(c, name) == IF name \in DOMAIN c THEN c[name] ELSE Unset

HTTPS_ENABLED(c) == Get(c, "httpsEnabled") = "true"
STIX_DATA_SRC(c) == Get(c, "stixDataSrc")
API_ROOT_PATH(c) == Get(c, "apiRootPath")
CONTACT_EMAIL(c) == Get(c, "contact")

\* StixRepoFactory: anything else is the Workbench.
Repository(c) == IF STIX_DATA_SRC(c) = "mitre-attack" THEN "mitre-attack" ELSE "workbench"

\* The file before the variable.
FileOrVariable(variable, file) == IF file = Unset THEN variable ELSE file

\* A variable that decodes to something, else the file.
VariableOrFile(variable, file) == IF variable \in {Unset, Blank} THEN file ELSE variable

\* https.createServer throws on what is no key, and on halves of two pairs.
Accepted(k, c) == k \in Pair /\ k = c

\* setGlobalPrefix drops a slash at the end, discover() does not: the segments
\* of a pinned root as it is routed and as it is advertised.
RoutedRoot(c, segment) == <<API_ROOT_PATH(c).path, segment>>
AdvertisedRoot(c, segment) ==
  <<API_ROOT_PATH(c).path>> \o (IF API_ROOT_PATH(c).slash THEN <<"">> ELSE <<>>) \o <<segment>>

(***************************************************************************)
(* Processes.                                                              *)
(***************************************************************************)
Listening == {"https", "http"}

Init ==
  /\ env \in Environments
  /\ files \in [key : Pair \cup {Unset}, cert : Pair \cup {Unset}]
  /\ pc = [p \in Process |-> "down"]
  /\ config = [p \in Process |-> Configuration(env)]
  /\ key = [s \in Server |-> Unset]
  /\ cert = [s \in Server |-> Unset]
  /\ sound = [s \in Server |-> FALSE]
  /\ faults = 0

\* One of the two ways SETUP.md describes is followed to the letter.
ByVariables(c) == c.sslPrivateKey \in Pair /\ c.sslPublicKey = c.sslPrivateKey
ByFiles(c, f) ==
  /\ c.sslPrivateKey \in {Unset, Blank} /\ c.sslPublicKey \in {Unset, Blank}
  /\ f.key \in Pair /\ f.cert = f.key
Whole(c, f) == ByVariables(c) \/ ByFiles(c, f)

Goes(p, from, to) == pc[p] = from /\ pc' = [pc EXCEPT ![p] = to]

\* The modules are loaded, which validates and reads the environment.
Start(p) ==
  /\ ~Rejected(env)
  /\ Goes(p, "down", "configured")
  /\ config' = [config EXCEPT ![p] = Configuration(env)]
  /\ UNCHANGED <<env, files, key, cert, sound, faults>>

\* NestFactory.create returns once MongoDB is connected.
Connect(p) ==
  /\ Goes(p, "configured", "created")
  /\ UNCHANGED <<env, files, config, key, cert, sound, faults>>

\* onModuleInit of the collector: the indexes are there, the passes begin.
Collect(p) ==
  /\ p \in Collector
  /\ Goes(p, "created", "collecting")
  /\ UNCHANGED <<env, files, config, key, cert, sound, faults>>

ListenPlain(s) ==
  /\ s \in Server
  /\ ~HTTPS_ENABLED(config[s])
  /\ Goes(s, "created", "http")
  /\ UNCHANGED <<env, files, config, key, cert, sound, faults>>

\* SSL_PRIVATE_KEY; reading a file that is missing throws.
LoadKey(s) ==
  /\ s \in Server
  /\ HTTPS_ENABLED(config[s])
  /\ LET k == VariableOrFile(config[s].sslPrivateKey, files.key) IN
       /\ Goes(s, "created", IF k = Unset THEN "failed" ELSE "keyed")
       /\ key' = [key EXCEPT ![s] = k]
  /\ sound' = [sound EXCEPT ![s] = Whole(config[s], files)]
  /\ UNCHANGED <<env, files, config, cert, faults>>

\* SSL_PUBLIC_KEY, createServer and listen.
LoadCertificate(s) ==
  /\ s \in Server
  /\ LET c == VariableOrFile(config[s].sslPublicKey, files.cert) IN
       /\ Goes(s, "keyed", IF Accepted(key[s], c) THEN "https" ELSE "failed")
       /\ cert' = [cert EXCEPT ![s] = c]
  /\ UNCHANGED <<env, files, config, key, sound, faults>>

\* Without the catch block the rejected bootstrap() ends the process.
DieInstead(s) ==
  /\ s \in Server
  /\ Goes(s, "failed", "down")
  /\ UNCHANGED <<env, files, config, key, cert, sound, faults>>

\* The catch block.
FallBack(s) ==
  /\ s \in Server
  /\ Goes(s, "failed", "http")
  /\ UNCHANGED <<env, files, config, key, cert, sound, faults>>

ProcessStep(p) ==
  Start(p) \/ Connect(p) \/ Collect(p) \/ ListenPlain(p) \/ LoadKey(p) \/ LoadCertificate(p)
    \/ FallBack(p)

(***************************************************************************)
(* The surroundings.                                                       *)
(***************************************************************************)
Fault == faults < MaxFaults /\ faults' = faults + 1

\* Killed, out of memory, MongoDB not reached, port taken, no index.
Die(p) ==
  /\ Fault
  /\ pc[p] # "down"
  /\ pc' = [pc EXCEPT ![p] = "down"]
  /\ UNCHANGED <<env, files, config, key, cert, sound>>

ChangeEnvironment ==
  /\ Fault
  /\ env' \in Environments \ {env}
  /\ UNCHANGED <<files, pc, config, key, cert, sound>>

ReplaceFile(half) ==
  /\ Fault
  /\ \E v \in (Pair \cup {Unset}) \ {files[half]} : files' = [files EXCEPT ![half] = v]
  /\ sound' = [s \in Server |-> sound[s] /\ (pc[s] = "keyed" => ByVariables(config[s]))]
  /\ UNCHANGED <<env, pc, config, key, cert>>

Next ==
  \/ \E p \in Process : ProcessStep(p) \/ Die(p)
  \/ ChangeEnvironment
  \/ \E half \in {"key", "cert"} : ReplaceFile(half)

Spec == Init /\ [][Next]_vars

\* The process manager (ecosystem.config.js) starts what has died, and a
\* process that runs goes on.
FairSpec == Spec /\ \A p \in Process : WF_vars(ProcessStep(p))

(***************************************************************************)
(* Properties.                                                             *)
(***************************************************************************)
Configurations == {Configuration(e) : e \in Environments}

\* What a server can load: a half of a pair, by file or by variable, or junk.
Loadable ==
  (Pair \cup {Unset} \cup {c.sslPrivateKey : c \in Configurations}
                    \cup {c.sslPublicKey : c \in Configurations}) \ {Blank}

BootTypeOK ==
  /\ env \in Environments
  /\ files \in [key : Pair \cup {Unset}, cert : Pair \cup {Unset}]
  /\ pc \in [Process -> {"down", "configured", "created", "keyed", "failed", "collecting"}
                         \cup Listening]
  /\ config \in [Process -> Configurations]
  /\ key \in [Server -> Loadable]
  /\ cert \in [Server -> Loadable]
  /\ sound \in [Server -> BOOLEAN]
  /\ faults \in 0 .. MaxFaults

\* A server asked for HTTPS that is given a pair in either documented way, and
\* in that way alone, or by variables whatever the files hold, serves HTTPS
\* with that pair: half a pair is never completed from the other way, and a
\* file replaced while it loads does not matter to a pair of variables.
WholePairServed ==
  \A s \in Server :
    /\ pc[s] = "http" /\ HTTPS_ENABLED(config[s]) => ~sound[s]
    /\ pc[s] = "https" /\ ByVariables(config[s]) => key[s] = config[s].sslPrivateKey

\* Why: a usable pair never makes a server fail while it loads one, as the half
\* it has loaded and the half it will load belong to it.
KeysInv ==
  \A s \in Server :
    /\ pc[s] = "failed" \/ (pc[s] = "http" /\ HTTPS_ENABLED(config[s])) => ~sound[s]
    /\ pc[s] \in {"keyed", "https"} /\ ByVariables(config[s]) => key[s] = config[s].sslPrivateKey
    /\ pc[s] = "keyed" /\ sound[s] =>
         ByVariables(config[s]) \/ (ByFiles(config[s], files) /\ key[s] = files.key)

\* Once deaths and changes cease every process comes up, whatever the state of
\* the keys: without usable ones a server falls back instead of dying again
\* and again.  Only an environment the schema rejects keeps them down.
EveryProcessComesUp ==
  <>[](~Rejected(env) => \A p \in Process : pc[p] \in Listening \cup {"collecting"})

(***************************************************************************)
(* What the documentation says beyond that.                                *)
(***************************************************************************)

\* SETUP.md: TAXII_APP_PORT is the port "the server should listen on when HTTPS
\* is disabled".
PlainOnlyWhenDisabled == \A s \in Server : pc[s] = "http" => ~HTTPS_ENABLED(config[s])

\* The validation schema has STIX_DATA_SRC valid("workbench", "mitre-attack"):
\* no process runs on another source than the one it was given.
SourceAsGiven ==
  \A p \in Process : pc[p] # "down" => Repository(config[p]) = STIX_DATA_SRC(config[p])

\* SETUP.md: TAXII_CONTACT_EMAIL is "the email address which is advertised on
\* responses to the Discovery endpoint".
ContactAdvertised ==
  \A s \in Server : pc[s] \in Listening => CONTACT_EMAIL(config[s]) = config[s].contactEmail

\* SETUP.md gives /api/v21/ as TAXII_API_ROOT_PATH: the pinned roots discovery
\* lists are routed, with that value as with the one in defaults.ts.
PinnedRootsRouted ==
  \A s \in Server : pc[s] \in Listening =>
    AdvertisedRoot(config[s], "attack") = RoutedRoot(config[s], "attack")
=============================================================================
