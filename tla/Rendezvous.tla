----------------------------- MODULE Rendezvous -----------------------------
(***************************************************************************)
(* The file rendezvous between the provider driver (sc-provider, one per   *)
(* provider pod) and the mount agent (mount-helper, one per node) over the *)
(* work directory of one Instance.  The driver writes request.json, polls  *)
(* ready.json, retries, and writes the marker file `ready' that the pod's  *)
(* readiness probe tests; the agent scans the work base, mounts the        *)
(* overlay of the pod's rootfs container and answers in ready.json.  The   *)
(* directory is a hostPath: it outlives every process and every pod that   *)
(* used it.  The entrypoint of the consumer pod, started when the provider *)
(* pod is Ready, waits for the root filesystem and changes root into it.   *)
(***************************************************************************)
EXTENDS Naturals, Sequences, SequencesExt

CONSTANTS
    HostPathPrefix,  \* spec.hostPathPrefix of the Instance, as path components
    Namespace, Name, \* of the Instance
    None,            \* no file, no request
    MaxPods,         \* bound: provider pods that use the directory in turn
    MaxRestarts,     \* bound: kills of a container and crashes of the agent
    MaxMounts,       \* bound: overlays stacked on rootfs/
    Nodes,           \* the kinds of node the provider pod may be scheduled to
    Drivers,         \* the drivers the pod builder may give the provider pod
    Containers,      \* spec.template.container: command, args, workingDir, capAdd
    Faults           \* what may go wrong: a subset of FaultKinds

\* The driver's wait runs out, its write of the request fails, the mount of
\* the overlay fails, the mount of proc fails, the agent dies in the middle
\* of a request, a container is killed, the provider pod is replaced by a
\* new one.
FaultKinds ==
    {"timeout", "writeFails", "mountFails", "procFails", "agentCrash", "kill",
     "replace"}

\* The attempts of the driver's retry loop.
MaxAttempts == 3

\* The command of the provider container: the sc-provider binary, or the
\* shell script of the pod builder that does without it.
DriverKinds == {"binary", "script"}

\* What the agent meets on a node: the cgroup driver of the kubelet, the
\* file system type of a container's root, and the directory in which the
\* container runtime keeps its snapshots.
NodeKinds ==
    [cgroup : {"systemd", "cgroupfs"}, rootfs : {"overlay", "other"},
     runtime : {<<"var", "lib", "containerd">>, <<"var", "lib", "containers">>}]

ASSUME /\ MaxPods \in Nat \ {0} /\ MaxRestarts \in Nat /\ MaxMounts \in Nat \ {0}
       /\ Faults \subseteq FaultKinds
       /\ Nodes \subseteq NodeKinds /\ Nodes # {}
       /\ Drivers \subseteq DriverKinds /\ Drivers # {}

VARIABLES
    request,    \* request.json: the pod UID it carries, or None
    response,   \* ready.json: "ready", "error", or None
    marker,     \* the file `ready' exists
    rootfsDir,  \* the directory rootfs/ exists
    mounted,    \* the overlays mounted on rootfs/, by pod UID, newest last
    procMounted,\* the mount table has a mount at rootfs/proc
    procs,      \* the pods whose rootfs container is running
    uid,        \* the UID of the provider pod that now uses the directory
    node,       \* the node of the provider pod and of the work directory
    kind,       \* the driver of the provider pod
    dpc,        \* driver: where it is in main
    attempt,    \* driver: the loop variable
    lastError,  \* driver: lastError # nil
    restarts,   \* how often the driver's container or the agent was restarted
    apc,        \* agent: where it is in its pass
    areq,       \* agent: the request it has read
    cpc,        \* consumer: where its entrypoint is, "none" without a pod
    container,  \* consumer: the container of the template it was built from
    user        \* consumer: the directory and the words of the user's process

host   == <<rootfsDir, mounted, procMounted>>
files  == <<request, response, marker, host>>
driver == <<dpc, attempt, lastError>>
agent  == <<apc, areq>>
pod    == <<procs, uid, restarts, node, kind>>
consumer == <<cpc, container, user>>
vars   == <<request, response, marker, rootfsDir, mounted, procMounted,
            procs, uid, node, kind, dpc, attempt, lastError, restarts, apc,
            areq, cpc, container, user>>

PodUids == 1..MaxPods

-----------------------------------------------------------------------------
(* Where the two sides look *)

\* The directory the agent scans, and the prefix an Instance without
\* spec.hostPathPrefix is given: two constants of two programs.
WorkBasePath == <<"var", "lib", "stoppablecontainer">>
DefaultHostPathPrefix == <<"var", "lib", "stoppablecontainer">>

\* GetHostPath: the work directory the pod builders hand to both pods.
GetHostPath(prefix, ns, name) ==
    (IF prefix = <<>> THEN DefaultHostPathPrefix ELSE prefix) \o <<ns, name>>

WorkDir == GetHostPath(HostPathPrefix, Namespace, Name)

\* Seeded fault: the IsDir test of the scan is inverted, so that every
\* directory is skipped.
EntriesNotDirs(dirs) == {d \in dirs : FALSE}

\* scanAndProcessRequests: the direct child directories of the work base.
Entries(dirs) ==
    {d \in dirs : Len(d) = Len(WorkBasePath) + 1 /\ IsPrefix(WorkBasePath, d)}

\* The kubelet creates the hostPath directory and its parents.
Dirs == Prefixes(WorkDir)

\* The agent's Stat of <entry>/request.json succeeds.
RequestFound == WorkDir \in Entries(Dirs) /\ request # None

-----------------------------------------------------------------------------
(* The provider driver: main *)

\* Seeded fault: the loop runs while attempt <= MaxAttempts + 1.
NextAttemptOneMore(err) ==
    /\ lastError' = err
    /\ IF attempt <= MaxAttempts
         THEN attempt' = attempt + 1 /\ dpc' = "retry" /\ UNCHANGED marker
         ELSE /\ attempt' = attempt
              /\ IF err THEN dpc' = "exited" /\ UNCHANGED marker
                        ELSE dpc' = "serving" /\ marker' = TRUE

\* `continue', or `break' without success: the next attempt, and after the
\* last one the end of main, which exits when lastError is set and writes
\* the marker otherwise.
NextAttempt(err) ==
    /\ lastError' = err
    /\ IF attempt < MaxAttempts
         THEN attempt' = attempt + 1 /\ dpc' = "retry" /\ UNCHANGED marker
         ELSE /\ attempt' = attempt
              /\ IF err THEN dpc' = "exited" /\ UNCHANGED marker
                        ELSE dpc' = "serving" /\ marker' = TRUE

\* attempt > 1: the old ready.json is removed, then the driver sleeps.
DriverRetry ==
    /\ kind = "binary" /\ dpc = "retry"
    /\ response' = None
    /\ dpc' = "write"
    /\ UNCHANGED <<request, marker, host, attempt, lastError, agent, pod, consumer>>

DriverWriteRequest ==
    /\ dpc = "write"
    /\ request' = uid
    /\ dpc' = "poll"
    /\ UNCHANGED <<response, marker, host, attempt, lastError, agent, pod, consumer>>

\* os.WriteFile of request.json fails: the binary records the error and
\* goes to its next attempt; the script, under set -e, exits at the cat.
DriverWriteFails ==
    /\ "writeFails" \in Faults
    /\ dpc = "write"
    /\ \/ kind = "binary" /\ NextAttempt(TRUE)
       \/ kind = "script" /\ dpc' = "exited"
                          /\ UNCHANGED <<marker, attempt, lastError>>
    /\ UNCHANGED <<request, response, host, agent, pod, consumer>>

DriverSeesReady ==
    /\ kind = "binary" /\ dpc = "poll" /\ response = "ready"
    /\ dpc' = "verify"
    /\ UNCHANGED <<files, attempt, lastError, agent, pod, consumer>>

\* Seeded fault: the refusal is logged and lastError is not assigned.
DriverSeesErrorUnrecorded ==
    /\ kind = "binary" /\ dpc = "poll" /\ response = "error"
    /\ NextAttempt(lastError)
    /\ UNCHANGED <<request, response, host, agent, pod, consumer>>

DriverSeesError ==
    /\ kind = "binary" /\ dpc = "poll" /\ response = "error"
    /\ NextAttempt(TRUE)
    /\ UNCHANGED <<request, response, host, agent, pod, consumer>>

\* Three hundred polls have found no ready.json: lastError is left as it is.
DriverTimeout ==
    /\ "timeout" \in Faults
    /\ kind = "binary" /\ dpc = "poll" /\ response = None
    /\ NextAttempt(lastError)
    /\ UNCHANGED <<request, response, host, agent, pod, consumer>>

\* rootfs/ exists and has a bin directory: something is mounted there.
RootfsLooksMounted == rootfsDir /\ mounted # <<>>

DriverVerify ==
    /\ dpc = "verify"
    /\ IF RootfsLooksMounted
         THEN /\ lastError' = FALSE /\ marker' = TRUE /\ dpc' = "serving"
              /\ UNCHANGED attempt
         ELSE NextAttempt(TRUE)
    /\ UNCHANGED <<request, response, host, agent, pod, consumer>>

\* The script: a round of its wait finds ready.json, whatever it says; the
\* look at rootfs/ ends in a warning at most, and the marker is written.
ScriptSeesAnswer ==
    /\ kind = "script" /\ dpc = "poll" /\ response # None
    /\ marker' = TRUE
    /\ dpc' = "serving"
    /\ UNCHANGED <<request, response, host, attempt, lastError, agent, pod, consumer>>

\* The script: 120 rounds have found no ready.json, and it exits.
ScriptTimeout ==
    /\ "timeout" \in Faults
    /\ kind = "script" /\ dpc = "poll" /\ response = None
    /\ dpc' = "exited"
    /\ UNCHANGED <<files, attempt, lastError, agent, pod, consumer>>

Driver ==
    \/ DriverRetry \/ DriverWriteRequest \/ DriverWriteFails \/ DriverSeesReady
    \/ DriverSeesError \/ DriverTimeout \/ DriverVerify
    \/ ScriptSeesAnswer \/ ScriptTimeout

-----------------------------------------------------------------------------
(* The mount agent: scanAndProcessRequests and processRequest *)

\* The pass finds request.json in an entry and reads it.
AgentReadRequest ==
    /\ apc = "scan"
    /\ RequestFound
    /\ areq' = request
    /\ apc' = "mount"
    /\ UNCHANGED <<files, driver, pod, consumer>>

\* metadata.uid of pod u, groups of digits joined by dashes, as POD_UID and
\* request.json carry it.
UidText(u) == <<ToString(u), "-", ToString(u)>>

\* /proc/<pid>/cgroup of a process of pod p, as the kubelet of the node
\* names the pod's cgroup: the systemd driver writes the UID with
\* underscores, the cgroupfs driver writes it as it is.
CgroupOf(p) ==
    <<"kubepods", "pod">> \o
        (IF node.cgroup = "systemd" THEN ReplaceAll(UidText(p), "-", "_")
                                    ELSE UidText(p))

\* Seeded fault: the cgroup is searched for the UID as the request gives it.
FindRootfsContainerAsGiven(podUID) ==
    \E p \in procs : UidText(podUID) \in SubSeqs(CgroupOf(p))

\* findRootfsContainer: a process whose cgroup contains the UID, dashes
\* replaced by underscores, and that carries the rootfs marker in its
\* environment; procs are the pods whose pause process runs.
FindRootfsContainer(podUID) ==
    LET podUIDCgroup == ReplaceAll(UidText(podUID), "-", "_")
    IN  \E p \in procs : podUIDCgroup \in SubSeqs(CgroupOf(p))

\* getOverlayfsOptions: the options of the line `overlay / overlay' in
\* /proc/<pid>/mounts, directories of the container runtime; None when the
\* root of the container is no overlay.
GetOverlayfsOptions ==
    IF node.rootfs = "overlay"
      THEN [d \in {"lowerdir", "upperdir", "workdir"} |-> node.runtime \o <<d>>]
      ELSE None

\* adjustPathsForHost: /var/lib/containerd becomes /host/var/lib/containerd.
AdjustPathsForHost(opts) ==
    LET containerd == <<"var", "lib", "containerd">>
    IN  [d \in DOMAIN opts |->
            ReplaceFirstSubSeq(<<"host">> \o containerd, containerd, opts[d])]

\* mountOverlay: the options name lowerdir and upperdir, and the mount
\* syscall succeeds.  The agent sees the host's files under /host only.  The
\* code asks nothing about what is already mounted on rootfs/: with
\* MaxMounts = 1 the kernel refuses a second overlay there, with more it
\* stacks them.
CanMount(options) ==
    /\ {"lowerdir", "upperdir"} \subseteq DOMAIN options
    /\ \A d \in DOMAIN options : Head(options[d]) = "host"
    /\ Len(mounted) < MaxMounts

\* The error of processRequest is written to ready.json; request.json stays
\* and is found again by the next pass.
WriteErrorResponse ==
    /\ response' = "error"
    /\ apc' = "scan" /\ areq' = None
    /\ UNCHANGED <<request, marker, mounted, procMounted, driver, pod, consumer>>

\* processRequest is past findRootfsContainer and getOverlayfsOptions.
Found == FindRootfsContainer(areq) /\ GetOverlayfsOptions # None

\* findRootfsContainer finds no process of the pod, or getOverlayfsOptions
\* no overlay.
AgentFindFails ==
    /\ apc = "mount"
    /\ ~Found
    /\ WriteErrorResponse
    /\ UNCHANGED rootfsDir

\* rootfs/ is made, and mountOverlay fails.
AgentMountFails ==
    /\ apc = "mount"
    /\ Found
    /\ "mountFails" \in Faults \/ ~CanMount(AdjustPathsForHost(GetOverlayfsOptions))
    /\ rootfsDir' = TRUE
    /\ WriteErrorResponse

\* findRootfsContainer, getOverlayfsOptions, MkdirAll, adjustPathsForHost
\* and mountOverlay succeed.
AgentMount ==
    /\ apc = "mount"
    /\ Found /\ CanMount(AdjustPathsForHost(GetOverlayfsOptions))
    /\ rootfsDir' = TRUE
    /\ mounted' = Append(mounted, areq)
    /\ apc' = "special"
    /\ UNCHANGED <<request, response, marker, procMounted, areq, driver, pod,
                   consumer>>

\* mountProcDevSys: proc, dev and sys are mounted into rootfs/; an error is
\* logged and processRequest goes on.
AgentMountSpecial ==
    /\ apc = "special"
    /\ \E ok \in BOOLEAN :
           /\ ok \/ "procFails" \in Faults
           /\ procMounted' = (procMounted \/ ok)
    /\ apc' = "commit"
    /\ UNCHANGED <<request, response, marker, rootfsDir, mounted, areq, driver,
                   pod, consumer>>

AgentRemoveRequest ==
    /\ apc = "commit"
    /\ request' = None
    /\ apc' = "respond"
    /\ UNCHANGED <<response, marker, host, areq, driver, pod, consumer>>

AgentRespond ==
    /\ apc = "respond"
    /\ response' = "ready"
    /\ apc' = "scan" /\ areq' = None
    /\ UNCHANGED <<request, marker, host, driver, pod, consumer>>

\* The agent's pod dies and its DaemonSet starts a new one; what it had
\* mounted stays mounted on the host.
AgentCrash ==
    /\ "agentCrash" \in Faults
    /\ restarts < MaxRestarts
    /\ apc # "scan"
    /\ restarts' = restarts + 1
    /\ apc' = "scan" /\ areq' = None
    /\ UNCHANGED <<files, driver, procs, uid, node, kind, consumer>>

Agent ==
    \/ AgentReadRequest \/ AgentFindFails \/ AgentMountFails \/ AgentMount
    \/ AgentMountSpecial \/ AgentRemoveRequest \/ AgentRespond

-----------------------------------------------------------------------------
(* The provider pod around the driver *)

\* main starts in a new process.
DriverStarts ==
    /\ dpc' = "write" /\ attempt' = 1 /\ lastError' = FALSE

\* The rootfs container runs the pause binary, copied in by the init
\* container, with the marker in its environment.
RootfsStarts ==
    /\ uid \notin procs
    /\ procs' = procs \cup {uid}
    /\ UNCHANGED <<files, driver, agent, uid, node, kind, restarts, consumer>>

\* pause returns from main on SIGTERM or SIGINT.
RootfsExits ==
    /\ "kill" \in Faults
    /\ restarts < MaxRestarts
    /\ uid \in procs
    /\ procs' = procs \ {uid}
    /\ restarts' = restarts + 1
    /\ UNCHANGED <<files, driver, agent, uid, node, kind, consumer>>

\* Seeded fault: the pod has RestartPolicyNever, and a driver that has
\* exited stays down.
ContainerNeverRestarts ==
    /\ dpc = "exited" /\ FALSE
    /\ DriverStarts
    /\ UNCHANGED <<files, agent, pod, consumer>>

\* RestartPolicyAlways: the kubelet starts the driver's container again
\* after exit 1, every time.
ContainerRestarts ==
    /\ dpc = "exited"
    /\ DriverStarts
    /\ UNCHANGED <<files, agent, pod, consumer>>

\* The liveness probe finds no rootfs/, which only the agent makes, and the
\* kubelet kills the container and starts it again, every time.
LivenessProbeFails ==
    /\ dpc # "exited" /\ ~rootfsDir
    /\ DriverStarts
    /\ UNCHANGED <<files, agent, pod, consumer>>

\* The container is killed from outside and started again.
ContainerKilled ==
    /\ "kill" \in Faults
    /\ restarts < MaxRestarts
    /\ dpc # "exited"
    /\ restarts' = restarts + 1
    /\ DriverStarts
    /\ UNCHANGED <<files, agent, procs, uid, node, kind, consumer>>

\* The provider pod is deleted and the Instance controller creates a new
\* one, which is given the same hostPath.
PodReplaced ==
    /\ "replace" \in Faults
    /\ uid < MaxPods
    /\ uid' = uid + 1
    /\ procs' = procs \ {uid}
    /\ DriverStarts
    /\ UNCHANGED <<files, agent, restarts, node, kind, consumer>>

Pod ==
    \/ RootfsStarts \/ RootfsExits \/ PodReplaced
    \/ ContainerRestarts \/ LivenessProbeFails \/ ContainerKilled

-----------------------------------------------------------------------------
(* The consumer pod: the user's command on its way through two shells *)

\* The characters the shell reads a meaning into: space, single quote,
\* double quote, backslash and dollar.  Every other member of a word stands
\* for a run of characters without one of these.
Space == "sp"
Quote == "sq"
DQuote == "dq"
Backslash == "bs"
Dollar == "dl"
ShellChars == {Space, Quote, DQuote, Backslash, Dollar}

\* What the shell puts for $name: the value the variable has in the
\* entrypoint, not the text of the template.
Expanded == "val"

\* The members of a word, and the words.
Chars == ShellChars \cup {"a", "/", "/bin/sh", Expanded}
Words == Seq(Chars)

\* The shell cannot read the text: a quote is left open.
SyntaxError == "syntax error"

\* The word so far, with one more character; a word exists from its first
\* character or quote on.
NoWord == "no word"
Begun(cur) == IF cur = NoWord THEN <<>> ELSE cur
Ended(words, cur) == IF cur = NoWord THEN words ELSE Append(words, cur)

\* The characters a backslash takes the meaning from: any outside quotes,
\* these three between double quotes, none between single quotes.
Escapable(mode, c) ==
    \/ mode = "plain"
    \/ mode = "double" /\ c \in {Backslash, DQuote, Dollar}

\* What makes an expansion of a dollar: the start of a name, or a second
\* dollar.
Names(c) == c \notin ShellChars \ {Dollar}

\* /bin/sh splits a text into words: quotes are removed, between single
\* quotes every character stands for itself, between double quotes
\* backslash and dollar keep their meaning, and $name is expanded outside
\* single quotes.
RECURSIVE Lex(_, _, _, _)
Lex(text, mode, cur, words) ==
    IF text = <<>>
      THEN IF mode = "plain" THEN Ended(words, cur) ELSE SyntaxError
      ELSE LET c == Head(text)
               rest == Tail(text)
               Literal(x, r) == Lex(r, mode, Append(Begun(cur), x), words)
               Escapes == c = Backslash /\ rest # <<>> /\ Escapable(mode, Head(rest))
               Expands == c = Dollar /\ rest # <<>> /\ Names(Head(rest))
           IN  CASE mode = "single" /\ c = Quote -> Lex(rest, "plain", cur, words)
                 [] mode = "single" /\ c # Quote -> Literal(c, rest)
                 [] mode # "single" /\ Escapes -> Literal(Head(rest), Tail(rest))
                 [] mode # "single" /\ Expands -> Literal(Expanded, Tail(rest))
                 [] mode = "double" /\ c = DQuote -> Lex(rest, "plain", cur, words)
                 [] mode = "plain" /\ c = Space ->
                      Lex(rest, "plain", NoWord, Ended(words, cur))
                 [] mode = "plain" /\ c = Quote -> Lex(rest, "single", Begun(cur), words)
                 [] mode = "plain" /\ c = DQuote -> Lex(rest, "double", Begun(cur), words)
                 [] OTHER -> Literal(c, rest)

ShellWords(text) == Lex(text, "plain", NoWord, <<>>)

\* The words of a text, with spaces between them.
Joined(ws) ==
    FlattenSeq([i \in DOMAIN ws |-> IF i = 1 THEN ws[i] ELSE <<Space>> \o ws[i]])

\* Seeded fault: a part is put between single quotes as it is.
SingleQuotedAsIs(p) == <<Quote>> \o p \o <<Quote>>

\* fmt.Sprintf("'%s'", strings.ReplaceAll(p, "'", "'\\''"))
SingleQuoted(p) ==
    <<Quote>>
    \o FlattenSeq([i \in DOMAIN p |->
           IF p[i] = Quote THEN <<Quote, Backslash, Quote, Quote>> ELSE <<p[i]>>])
    \o <<Quote>>

\* The command the user's process is to be: Command and Args of the
\* template, and /bin/sh when it has neither.
Argv(c) == IF c.command \o c.args = <<>> THEN <<<<"/bin/sh">>>> ELSE c.command \o c.args

\* The directory it is to start in.
WorkingDir(c) == IF c.workingDir = <<>> THEN <<"/">> ELSE c.workingDir

\* buildUserCommand: exec and the parts, each between single quotes.
BuildUserCommand(c) ==
    IF c.command = <<>> /\ c.args = <<>>
      THEN <<"exec", Space, "/bin/sh">>
      ELSE <<"exec", Space>>
           \o Joined([i \in DOMAIN Argv(c) |-> SingleQuoted(Argv(c)[i])])

\* buildEntrypointScript, its last line: the text given to the shell in the
\* root filesystem stands between double quotes, and the working directory
\* in it between single quotes.
ChrootLine(c) ==
    <<"exec", Space, "chroot", Space, DQuote, Dollar, "ROOTFS", DQuote, Space,
      "/bin/sh", Space, "-c", Space, DQuote,
      "cd", Space, Quote>> \o WorkingDir(c) \o <<Quote, Space, "&&", Space>>
    \o BuildUserCommand(c) \o <<DQuote>>

\* The entrypoint's shell reads the line and chroot starts /bin/sh -c with
\* the sixth word, which that shell reads in turn: cd, and exec of the
\* words that follow.  A text that cannot be read, or one that is not of
\* this form, ends the container without the user's process.
Started(c) ==
    LET line == ShellWords(ChrootLine(c))
        text == IF line = SyntaxError THEN SyntaxError ELSE ShellWords(line[6])
    IN  IF /\ text # SyntaxError /\ Len(text) > 4
           /\ text[1] = <<"cd">> /\ text[3] = <<"&&">> /\ text[4] = <<"exec">>
          THEN [dir |-> text[2], argv |-> SubSeq(text, 5, Len(text))]
          ELSE None

\* buildSecurityContext: SYS_CHROOT, and what the template adds.
Capabilities(c) == {"SYS_CHROOT"} \cup c.capAdd

\* What becomes of each container when its entrypoint has come to the last
\* line: chroot needs SYS_CHROOT.
Process ==
    [c \in Containers |->
        IF "SYS_CHROOT" \in Capabilities(c) THEN Started(c) ELSE None]

-----------------------------------------------------------------------------
(* The consumer pod: the entrypoint before the user's command *)

\* What the entrypoint waits for and the readiness probe of the consumer
\* tests: rootfs/ has a bin directory, and isMounted finds rootfs/proc in
\* the mount table.
RootfsReady == mounted # <<>> /\ procMounted

\* The Instance controller creates the consumer pod when the provider pod
\* is Ready, which is when its readiness probe finds the marker; the
\* kubelet starts it when rootfs/, its hostPath of type Directory, exists.
ConsumerStarts ==
    /\ cpc = "none" /\ marker /\ rootfsDir
    /\ cpc' = "wait"
    /\ container' \in Containers /\ user' = None
    /\ UNCHANGED <<files, driver, agent, pod>>

\* A round of the wait finds the root filesystem and leaves the loop.
ConsumerSeesReady ==
    /\ cpc = "wait" /\ RootfsReady
    /\ cpc' = "setup"
    /\ UNCHANGED <<container, user>>
    /\ UNCHANGED <<files, driver, agent, pod>>

\* The rounds of the wait are used up: the entrypoint exits with an error.
ConsumerGivesUp ==
    /\ cpc = "wait" /\ ~RootfsReady
    /\ cpc' = "failed"
    /\ UNCHANGED <<container, user>>
    /\ UNCHANGED <<files, driver, agent, pod>>

\* The network files are copied and the service account is bound into the
\* root filesystem; chroot, which needs SYS_CHROOT, starts the shell that
\* becomes the user's process, and the container ends when it does not.
ConsumerChroot ==
    /\ cpc = "setup"
    /\ user' = Process[container]
    /\ cpc' = IF Process[container] = None THEN "failed" ELSE "running"
    /\ UNCHANGED container
    /\ UNCHANGED <<files, driver, agent, pod>>

\* Seeded fault: the pod is built with RestartPolicyNever.
ConsumerStaysDown ==
    /\ cpc = "failed"
    /\ UNCHANGED vars

\* RestartPolicyAlways: the kubelet starts the entrypoint again after its
\* exit, and after the exit or the kill of the user's command.
ConsumerRestarts ==
    /\ cpc = "failed" \/ (cpc = "running" /\ "kill" \in Faults)
    /\ cpc' = "wait" /\ user' = None
    /\ UNCHANGED container
    /\ UNCHANGED <<files, driver, agent, pod>>

Consumer ==
    \/ ConsumerStarts \/ ConsumerSeesReady \/ ConsumerGivesUp
    \/ ConsumerChroot \/ ConsumerRestarts

-----------------------------------------------------------------------------

Init ==
    /\ request = None /\ response = None /\ marker = FALSE
    /\ rootfsDir = FALSE /\ mounted = <<>> /\ procMounted = FALSE
    /\ procs = {} /\ uid = 1 /\ restarts = 0
    /\ node \in Nodes /\ kind \in Drivers
    /\ dpc = "write" /\ attempt = 1 /\ lastError = FALSE
    /\ apc = "scan" /\ areq = None
    /\ cpc = "none" /\ container = None /\ user = None

Next == Driver \/ Agent \/ AgentCrash \/ Pod \/ Consumer

Spec == Init /\ [][Next]_vars

\* The processes keep running, the rootfs container of a pod starts, the
\* kubelet starts a driver that has exited again, and the kubelet and the
\* Instance controller do for the consumer what is due.
Fairness ==
    /\ WF_vars(Driver) /\ WF_vars(Agent) /\ WF_vars(RootfsStarts)
    /\ WF_vars(ContainerRestarts) /\ WF_vars(Consumer)

FairSpec == Spec /\ Fairness

-----------------------------------------------------------------------------
(* Properties *)

TypeOK ==
    /\ request \in PodUids \cup {None}
    /\ response \in {"ready", "error", None}
    /\ marker \in BOOLEAN /\ rootfsDir \in BOOLEAN /\ procMounted \in BOOLEAN
    /\ mounted \in Seq(PodUids) /\ Len(mounted) <= MaxMounts
    /\ procs \subseteq PodUids /\ uid \in PodUids
    /\ node \in Nodes /\ kind \in Drivers
    /\ restarts \in 0..MaxRestarts
    /\ dpc \in {"retry", "write", "poll", "verify", "serving", "exited"}
    /\ attempt \in 1..MaxAttempts /\ lastError \in BOOLEAN
    /\ apc \in {"scan", "mount", "special", "commit", "respond"}
    /\ areq \in PodUids \cup {None}
    /\ cpc \in {"none", "wait", "setup", "failed", "running"}
    /\ container \in Containers \cup {None}
    /\ user \in [dir : Words, argv : Seq(Words)] \cup {None}

\* The readiness probe of a provider pod whose driver is the binary passes
\* only over a mounted root filesystem of that pod: the driver writes the
\* marker after the agent has answered "ready" to its request and rootfs/
\* has been verified, and the overlay on top of rootfs/ is the one of the
\* pod that now uses the directory.  The script of providerScript writes
\* the marker on any answer.
MarkerMeansMounted ==
    marker /\ kind = "binary" => mounted # <<>> /\ Last(mounted) = uid

\* The node is one the agent was written for.
Supported(n) ==
    /\ n.cgroup = "systemd" /\ n.rootfs = "overlay"
    /\ n.runtime = <<"var", "lib", "containerd">>

\* A provider pod whose driver is the binary becomes Ready only on a node
\* with the systemd cgroup driver, overlay container roots and containerd's
\* directory: elsewhere
\* findRootfsContainer looks for a UID form the cgroup does not have,
\* getOverlayfsOptions finds no overlay, or adjustPathsForHost leaves paths
\* the agent cannot reach; each request is answered with an error and the
\* driver gives up without the marker.
ReadyOnlyWhereSupported ==
    marker /\ kind = "binary" => Supported(node)

\* The agent mounts once for a pod: a request is removed when its mount is
\* made, and the driver writes another one only after a refusal, which
\* processRequest gives only when it has not mounted.
MountedOncePerPod ==
    \A i, j \in DOMAIN mounted : mounted[i] = mounted[j] => i = j

\* A request the driver has written is answered by the agent: the pass of
\* scanAndProcessRequests finds request.json in the work directory that
\* GetHostPath gave the pod, and processRequest ends in a ready.json.
RequestAnswered ==
    request # None ~> response # None

\* A word that the shell reads as itself between double quotes: it has no
\* double quote, no backslash before a backslash, a double quote or a
\* dollar, and no dollar before a name or a dollar.
Verbatim(w) ==
    \A i \in DOMAIN w :
        /\ w[i] # DQuote
        /\ i < Len(w) /\ w[i] = Backslash =>
               w[i + 1] \notin {Backslash, DQuote, Dollar}
        /\ i < Len(w) /\ w[i] = Dollar => ~Names(w[i + 1])

\* The user's process is the command of the template, word for word, in
\* the working directory of the template: buildUserCommand puts every part
\* between single quotes and buildEntrypointScript puts the result between
\* double quotes, and the two shells that read the line take both away
\* again, whatever spaces and single quotes the parts have, as long as the
\* parts read as themselves between double quotes and the working
\* directory has no single quote.
ConsumerRunsUserCommand ==
    /\ cpc = "running"
    /\ \A i \in DOMAIN Argv(container) : Verbatim(Argv(container)[i])
    /\ Verbatim(WorkingDir(container)) /\ ~Contains(WorkingDir(container), Quote)
    => user = [dir |-> WorkingDir(container), argv |-> Argv(container)]

\* A consumer pod whose root filesystem is complete comes to run the user's
\* command, also when its entrypoint had given up before the agent was
\* done: RestartPolicyAlways starts the wait again.
ConsumerComesUp ==
    marker /\ RootfsReady ~> cpc = "running"

\* A step in which something fails that the two programs do not decide: a
\* wait runs out, a write or a mount is refused, a process is killed, the
\* pod is replaced.
Fault ==
    \/ DriverTimeout \/ ScriptTimeout \/ DriverWriteFails \/ AgentMountFails
    \/ AgentCrash \/ RootfsExits \/ ContainerKilled \/ PodReplaced

\* On a node the agent was written for, the driver comes to serve behind
\* the marker and stays there, unless something fails again and again:
\* the retry loop of main, RestartPolicyAlways after its exit 1 and the
\* liveness probe on rootfs/, which kills a driver that waits for the agent,
\* bring the driver back to a request that the agent answers, whatever
\* request.json and ready.json the earlier attempts, restarts and pods
\* have left in the directory.
ProviderServes ==
    Supported(node) => []<><<Fault>>_vars \/ <>[](dpc = "serving")

=============================================================================
