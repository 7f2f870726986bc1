---------------------------- MODULE ClusterNetwork ----------------------------
(***************************************************************************)
(* Who holds which address on the Docker network of the cluster            *)
(* (scripts/k8s_recover.sh: disconnect_ip_holder, reconnect_jenkins and    *)
(* the starts between them; the rest of the script is in K8sRecovery).     *)
(* The cluster's container always wants .2; a container that is attached   *)
(* or restarted without an address of its own gets the lowest free one.    *)
(***************************************************************************)
EXTENDS Naturals

CONSTANTS Other,    \* containers attached beside Jenkins and the cluster
          MaxEvent  \* bound: what happens outside the script

None == "none"
Two == ".2"
Pin == ".10"      \* PIN_JENKINS_IP
Pool == {Two, ".3", ".4"}
Attached == {"minikube", "jenkins"} \cup Other

VARIABLES
    address,    \* of each container
    pinned,     \* Jenkins was attached with --ip, which a restart keeps
    step,       \* of the script
    rebuild,    \* it has given up on the gentle start
    holder,     \* what disconnect_ip_holder has read
    disturbed,  \* ghost: since then a container was attached, or docker failed
    fixed,      \* ghost: reconnect_jenkins ran, and it is the same container since
    events      \* so many things outside the script

vars == <<address, pinned, step, rebuild, holder, disturbed, fixed, events>>

Taken == {address[c] : c \in Attached}
Holders(a) == {c \in Attached : address[c] = a}
Lowest(taken) == IF Two \notin taken THEN Two ELSE IF ".3" \notin taken THEN ".3" ELSE ".4"

\* No two containers have one address.
Apart(a) == \A c, d \in Attached : a[c] = a[d] /\ c # d => a[c] = None

Init ==
    /\ address \in [Attached -> {None, Two, ".3", ".4"}] /\ Apart(address)
    /\ address["minikube"] \in {None, Two}
    /\ pinned = FALSE /\ step = "off" /\ rebuild = FALSE /\ holder = None
    /\ disturbed = FALSE /\ fixed = FALSE /\ events = 0

(***************************************************************************)
(* Docker and its users.                                                   *)
(***************************************************************************)

Event == events < MaxEvent /\ events' = events + 1

\* A container is attached, or Jenkins is replaced by another container.
Attach(c) ==
    /\ Event /\ c # "minikube" /\ (c = "jenkins" \/ address[c] = None)
    /\ \E taken \in {Taken, Taken \ {address[c]}} : address' = [address EXCEPT ![c] = Lowest(taken)]
    /\ disturbed' = TRUE
    /\ IF c = "jenkins" THEN pinned' = FALSE /\ fixed' = FALSE ELSE UNCHANGED <<pinned, fixed>>
    /\ UNCHANGED <<step, rebuild, holder>>

\* The containers come up in any order, the cluster's when it is started.
Reboot ==
    /\ Event
    /\ address' \in [Attached -> {None, Pin} \cup Pool]
    /\ \A c \in Attached :
          /\ (address'[c] = None) <=> (address[c] = None \/ c = "minikube")
          /\ (address'[c] = Pin) <=> (c = "jenkins" /\ pinned /\ address[c] # None)
    /\ Apart(address')
    /\ step' = "off" /\ disturbed' = TRUE
    /\ UNCHANGED <<pinned, rebuild, holder, fixed>>

(***************************************************************************)
(* The script.                                                             *)
(***************************************************************************)

Begin ==
    /\ step = "off" /\ step' = "evict" /\ rebuild' = FALSE
    /\ UNCHANGED <<address, pinned, holder, disturbed, fixed, events>>

Evicted == IF rebuild THEN "delete" ELSE "start"

\* A plausible slip: Jenkins is disconnected by its name.
EvictJenkins == holder' = "jenkins"
Evict == holder' # "minikube"

\* disconnect_ip_holder: who holds .2 is read, and disconnected unless it is the cluster.
\* When docker cannot tell, nobody seems to.
Inspect ==
    /\ step = "evict"
    /\ \/ holder' \in (IF Holders(Two) = {} THEN {None} ELSE Holders(Two)) /\ disturbed' = FALSE
       \/ holder' = None /\ disturbed' = TRUE
    /\ step' = IF holder' # None /\ Evict THEN "disconnect" ELSE Evicted
    /\ UNCHANGED <<address, pinned, rebuild, fixed, events>>

Disconnect ==
    /\ step = "disconnect" /\ step' = Evicted
    /\ \/ address' = [address EXCEPT ![holder] = None] /\ UNCHANGED disturbed
       \/ disturbed' = TRUE /\ UNCHANGED address
    /\ UNCHANGED <<pinned, rebuild, holder, fixed, events>>

Delete ==
    /\ step = "delete" /\ step' = "start"
    /\ address' = [address EXCEPT !["minikube"] = None]
    /\ UNCHANGED <<pinned, rebuild, holder, disturbed, fixed, events>>

\* minikube start, which fails at least while another container holds .2.  When it fails,
\* or the cluster does not answer after it, all is rebuilt, or the script ends.
StartCluster ==
    LET free == Holders(Two) \subseteq {"minikube"}
        started == [address EXCEPT !["minikube"] = Two]
    IN
    /\ step = "start"
    /\ \/ free /\ address' = started /\ step' = "reconnect" /\ UNCHANGED rebuild
       \/ /\ address' = address \/ (free /\ address' = started)
          /\ step' = (IF rebuild THEN "off" ELSE "evict") /\ rebuild' = TRUE
    /\ UNCHANGED <<pinned, holder, disturbed, fixed, events>>

Released == [address EXCEPT !["jenkins"] = None]

\* reconnect_jenkins, by an inspection, a disconnect and a connect; the first two may fail.
Reconnect ==
    /\ step = "reconnect"
    /\ \/ address["jenkins"] = Pin /\ step' = "ready" /\ UNCHANGED address
       \/ address["jenkins"] # Pin /\ step' = "connect" /\ address' = Released
       \/ step' = "connect" /\ UNCHANGED address
    /\ fixed' = (address'["jenkins"] \in {None, Pin})
    /\ UNCHANGED <<pinned, rebuild, holder, disturbed, events>>

Connect ==
    /\ step = "connect" /\ step' = "ready"
    /\ \/ /\ address["jenkins"] = None
          /\ address' = [address EXCEPT !["jenkins"] = Pin] /\ pinned' = TRUE
       \/ UNCHANGED <<address, pinned>>
    /\ UNCHANGED <<rebuild, holder, disturbed, fixed, events>>

\* The workloads are ready, or a gentle start has not been enough.
Ready ==
    /\ step = "ready"
    /\ step' \in IF rebuild THEN {"off"} ELSE {"off", "evict"}
    /\ rebuild' = (rebuild \/ step' = "evict")
    /\ UNCHANGED <<address, pinned, holder, disturbed, fixed, events>>

Dies ==
    /\ step # "off" /\ step' = "off"
    /\ UNCHANGED <<address, pinned, rebuild, holder, disturbed, fixed, events>>

Next ==
    \/ \E c \in Attached : Attach(c)
    \/ Reboot \/ Begin \/ Inspect \/ Disconnect \/ Delete \/ StartCluster \/ Reconnect \/ Connect \/ Ready \/ Dies

\* Type correctness.
TypeOK ==
    /\ address \in [Attached -> {None, Pin} \cup Pool]
    /\ step \in {"off", "evict", "disconnect", "delete", "start", "reconnect", "connect", "ready"}
    /\ pinned \in BOOLEAN /\ rebuild \in BOOLEAN /\ disturbed \in BOOLEAN /\ fixed \in BOOLEAN
    /\ holder \in Attached \cup {None} /\ events \in 0..MaxEvent

\* When the cluster is started its address is free, whoever has held it, unless a container
\* was attached since the script looked, or docker did not do what it was told
\* (disconnect_ip_holder).
AddressIsFree == step = "start" /\ ~ disturbed => Holders(Two) \subseteq {"minikube"}

\* Only a rebuild takes the address away from the cluster (disconnect_ip_holder).
ClusterKept ==
    [][address["minikube"] = Two /\ address'["minikube"] # Two => step = "delete" \/ Reboot]_vars

\* A Jenkins the script has reconnected never takes the cluster's address again, after
\* reboots either (reconnect_jenkins).
JenkinsStaysOff == fixed => address["jenkins"] # Two
=============================================================================
