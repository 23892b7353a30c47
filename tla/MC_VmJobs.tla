------------------------------ MODULE MC_VmJobs ------------------------------
(* Instances of VmJobs for TLC *)
EXTENDS VmJobs

Symmetry == Permutations(Servers)

(* The VMs run, or are stopped, on one server each, with a NIC on the first *)
(* network, whose NAT zone runs if it wants one, and their volume mounted.  *)
Existing(v, state, server) ==
    [state |-> state, server |-> server, nics |-> {<<v, 1>>},
     volume |-> IF v \in Mounting THEN 1 ELSE 0, mod |-> 1]

InitExisting ==
    /\ WorkflowsInit
    /\ napi = Vms \X {1}
    /\ nats = IF FabricNetwork = 1 THEN <<"running">> ELSE << >>
    /\ volume = IF Mounting # {} THEN [id |-> 1, state |-> "ready"]
                                 ELSE [id |-> 0, state |-> "none"]
    /\ reserved = {} /\ refs = Mounting
    /\ \E state \in {"running", "stopped"}, home \in Injection(Vms, Servers) :
        zone = [v \in Vms |-> Existing(v, state, home[v])]
    /\ rec = [v \in Vms |-> RecordOf(zone[v], NoRecord)]
    /\ gets = [v \in Vms |-> NoGet]

\* BOUND: GETs with ?sync=true are made beside one kind of request for each way
\* in which a job writes the VM's record
OneOfEachWriter == {"destroy", "removeNics", "stop", "rollback"}
FewGets == (\E v \in Vms : gets[v] # NoGet) =>
               \A j \in Jobs : job[j].kind \in OneOfEachWriter

SpecExisting == InitExisting /\ [][Next]_vars
=============================================================================
