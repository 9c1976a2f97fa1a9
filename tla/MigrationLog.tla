----------------------------- MODULE MigrationLog -----------------------------
(***************************************************************************)
(* What running migrations at every startup promises: each version gets    *)
(* one content, once and for good, and an instance serves requests only on *)
(* a schema that has every file of its own build, unedited.                *)
(***************************************************************************)
CONSTANTS Instances, Versions, Builds, None

VARIABLES
    log,      \* log[v]: the content applied as version v, or None
    serving   \* serving[i]: the build instance i serves, or None

logVars == <<log, serving>>

LogInit ==
    /\ log = [v \in Versions |-> None]
    /\ serving = [i \in Instances |-> None]

Apply(f) ==
    /\ log[f.version] = None
    /\ log' = [log EXCEPT ![f.version] = f.checksum]
    /\ UNCHANGED serving

Serve(i, b) ==
    /\ \A f \in b : log[f.version] = f.checksum
    /\ serving' = [serving EXCEPT ![i] = b]
    /\ UNCHANGED log

Stop(i) ==
    /\ serving' = [serving EXCEPT ![i] = None]
    /\ UNCHANGED log

LogNext ==
    \/ \E b \in Builds : \E f \in b : Apply(f)
    \/ \E i \in Instances, b \in Builds : Serve(i, b)
    \/ \E i \in Instances : Stop(i)

LogSpec == LogInit /\ [][LogNext]_logVars
===============================================================================
