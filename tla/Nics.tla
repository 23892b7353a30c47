-------------------------------- MODULE Nics --------------------------------
(***************************************************************************)
(* The NICs of VMs in NAPI as requests and jobs make and remove them       *)
(* (lib/endpoints/vms.js, lib/workflows), and the NAT zone of the fabric   *)
(* network, made for the first NIC on the network and removed after the    *)
(* last (lib/workflows/fabric-common.js).                                  *)
(***************************************************************************)
EXTENDS Workflows

CONSTANT FabricNetwork  \* the network that wants a NAT zone, 0 if none does

ASSUME NicsAssumption == FabricNetwork \in 0..2

VARIABLES
    napi,  \* the NICs of VMs in NAPI
    nats   \* the NAT zones asked for, the last one last

nicVars == <<napi, nats>>

\* A VM has at most one NIC on each of two networks
Networks == 1..2
Nics == Vms \X Networks
OnFabric(nics) == {nic \in nics : nic[2] = FabricNetwork}

NatStates == {"provisioning", "running", "failed", "destroyed"}
\* gateway_provisioned: some NAT zone has the NIC with the gateway's address
HasGateway == \E i \in DOMAIN nats : nats[i] \in {"provisioning", "running"}

-----------------------------------------------------------------------------
(* The endpoint makes the NICs before it queues the job.  A NIC the VM has  *)
(* on the network already is taken for the one asked for.                   *)
provisionNics(j) ==
    /\ At(j, "provisionNics")
    /\ LET nic == <<job[j].vm, job[j].net>>
       IN /\ napi' = napi \cup {nic}
          /\ Proceed(j, [job[j] EXCEPT
                 !.nics = {nic},
                 !.fabric = nic \notin napi /\ ~HasGateway
                            /\ OnFabric({nic}) # {}])
    /\ UNCHANGED <<queue, used, nats>>

cleanupNicsOfRequest(j) ==
    /\ At(j, "cleanupNicsOfRequest")
    /\ napi' = napi \ job[j].nics
    /\ Proceed(j, job[j])
    /\ UNCHANGED <<queue, used, nats>>

\* Mutant: NICs of a provision that CNAPI took are cleaned up as well
CleanupAnyway(j) ==
    /\ At(j, "cleanupNics")
    /\ napi' = napi \ job[j].nics
    /\ Proceed(j, job[j])
    /\ UNCHANGED <<queue, used, nats>>
(* The job's clean-up stops at a NIC that is gone.  In the job that updates *)
(* NICs there is no list to go by, and looking for one throws.              *)
cleanupNics(j) ==
    /\ At(j, "cleanupNics")
    /\ \/ /\ job[j].taken
          /\ Proceed(j, job[j])
          /\ UNCHANGED napi
       \/ /\ ~job[j].taken
          /\ job[j].kind # "updateNics" /\ job[j].nics \subseteq napi
          /\ napi' = napi \ job[j].nics
          /\ Proceed(j, job[j])
       \/ /\ ~job[j].taken
          /\ job[j].kind = "updateNics" \/ ~(job[j].nics \subseteq napi)
          /\ FailWith(j, job[j])
          /\ UNCHANGED napi
    /\ UNCHANGED <<queue, used, nats>>

\* The NICs in the parameters; one that is gone already is no error
removeNics(j) ==
    /\ At(j, "removeNics")
    /\ napi' = napi \ job[j].nics
    /\ Proceed(j, job[j])
    /\ UNCHANGED <<queue, used, nats>>

updateNicsInNapi(j) ==
    /\ At(j, "updateNicsInNapi")
    /\ IF job[j].nics \subseteq napi THEN Proceed(j, job[j])
                                     ELSE FailWith(j, job[j])
    /\ UNCHANGED <<queue, used, napi, nats>>

(* The caller of add_nics waits for the job and has given up: the request   *)
(* ends with an error and its clean-up runs beside the job.                 *)
AddNicsGivesUp(j) ==
    /\ job[j].kind = "addNics" /\ job[j].waits
    /\ job[j].mode \in {"chain", "onerror", "oncancel", "ended"}
    /\ napi' = napi \ job[j].nics
    /\ job' = [job EXCEPT ![j].waits = FALSE]
    /\ UNCHANGED <<queue, used, nats>>

-----------------------------------------------------------------------------
(* The NAT zone.  Its ticket serializes those who make or remove it.        *)
acquireFabricTickets(j) ==
    /\ At(j, "acquireFabricTickets")
    /\ \/ Acquire(j, "nat")
       \/ "acquireFabricTickets" \in FailingTasks /\ AcquireAndFail(j, "nat")
    /\ UNCHANGED nicVars

waitOnFabricTicket(j) ==
    /\ At(j, "waitOnFabricTicket")
    /\ WaitOn(j, "nat")
    /\ UNCHANGED nicVars

\* provisionNatZone: the ticket is not needed if the gateway is there
getNetwork(j) ==
    /\ At(j, "getNetwork")
    /\ IF HasGateway
       THEN /\ queue' = Without("nat", j)
            /\ Proceed(j, Next1(job[j]))
       ELSE /\ Proceed(j, job[j])
            /\ UNCHANGED queue
    /\ UNCHANGED <<used, napi, nats>>

\* createInstanceAsync fails if the gateway's address is taken meanwhile
createNat(j) ==
    /\ At(j, "createNat")
    /\ IF HasGateway
       THEN /\ queue' = Without("nat", j)
            /\ FailWith(j, job[j])
            /\ UNCHANGED nats
       ELSE /\ nats' = Append(nats, "provisioning")
            /\ Proceed(j, [job[j] EXCEPT !.nat = Len(nats) + 1])
            /\ UNCHANGED queue
    /\ UNCHANGED <<used, napi>>

\* SAPI refuses: the ticket is released before the task fails
CreateNatFails(j) ==
    /\ At(j, "createNat") /\ "createNat" \in FailingTasks
    /\ used.faults < MaxFaults
    /\ used' = [used EXCEPT !.faults = @ + 1]
    /\ queue' = Without("nat", j)
    /\ FailWith(j, job[j])
    /\ UNCHANGED nicVars

(* Polls the NAT zone the job asked for, if it did; one that was destroyed  *)
(* meanwhile is polled until the task times out.                            *)
waitForFabricNatProvisions(j) ==
    /\ At(j, "waitForFabricNatProvisions")
    /\ \/ job[j].nat = 0 /\ Proceed(j, job[j])
       \/ /\ job[j].nat # 0
          /\ \/ nats[job[j].nat] = "running" /\ Proceed(j, job[j])
             \/ /\ nats[job[j].nat] \in {"failed", "destroyed"}
                /\ FailWith(j, job[j])
    /\ UNCHANGED <<queue, used, napi, nats>>

releaseFabricNatTickets(j) ==
    /\ At(j, "releaseFabricNatTickets")
    /\ Release(j, "nat")
    /\ UNCHANGED nicVars

\* A destroy looks whether the VM's NICs are on a network with a NAT zone
getFabricNatNics(j) ==
    /\ At(j, "getFabricNatNics")
    /\ Proceed(j, [job[j] EXCEPT
           !.fabric = HasGateway /\ OnFabric(job[j].nics \cap napi) # {}])
    /\ UNCHANGED <<queue, used, napi, nats>>

\* checkDestroyNatZone: there is nothing to do while others are on the network
listNics(j) ==
    /\ At(j, "listNics")
    /\ Proceed(j, IF OnFabric(napi) # {} THEN Next1(job[j]) ELSE job[j])
    /\ UNCHANGED <<queue, used, napi, nats>>

\* destroyNatZone finds a zone that is running only
destroyNat(j) ==
    /\ At(j, "destroyNat")
    /\ nats' = [i \in DOMAIN nats |->
                  IF nats[i] = "running" THEN "destroyed" ELSE nats[i]]
    /\ Proceed(j, job[j])
    /\ UNCHANGED <<queue, used, napi>>

\* The NAT zone's own provisioning ends
NatProvisioned ==
    /\ \E i \in DOMAIN nats :
        /\ nats[i] = "provisioning"
        /\ \/ nats' = [nats EXCEPT ![i] = "running"] /\ UNCHANGED used
           \/ /\ "natZone" \in FailingTasks /\ used.faults < MaxFaults
              /\ nats' = [nats EXCEPT ![i] = "failed"]
              /\ used' = [used EXCEPT !.faults = @ + 1]
    /\ UNCHANGED <<job, queue, napi>>

NicTasks(j) ==
    \/ provisionNics(j) \/ cleanupNicsOfRequest(j) \/ cleanupNics(j)
    \/ removeNics(j) \/ updateNicsInNapi(j) \/ AddNicsGivesUp(j)
    \/ acquireFabricTickets(j) \/ waitOnFabricTicket(j) \/ getNetwork(j)
    \/ createNat(j) \/ CreateNatFails(j) \/ waitForFabricNatProvisions(j)
    \/ releaseFabricNatTickets(j)
    \/ getFabricNatNics(j) \/ listNics(j) \/ destroyNat(j)

NicsInit == napi = {} /\ nats = << >>
=============================================================================
