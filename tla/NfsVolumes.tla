----------------------------- MODULE NfsVolumes -----------------------------
(***************************************************************************)
(* The shared volume that some of the VMs mount: the tasks of the          *)
(* provision and destroy workflows that reserve, create, await, reference  *)
(* and let go of it (lib/workflows/nfs-volumes/index.js), and VOLAPI as    *)
(* these tasks use it.                                                     *)
(***************************************************************************)
EXTENDS Workflows

CONSTANTS
    Mounting,         \* the VMs that mount the volume
    MaxVolumeDeletes  \* BOUND: how often its owner deletes it

ASSUME NfsVolumesAssumption ==
    Mounting \subseteq Vms /\ MaxVolumeDeletes \in Nat

VARIABLES
    volume,    \* the volume of the name: its uuid, a number, and its state
    reserved,  \* the VMs it is reserved for
    refs       \* the VMs that refer to it

volVars == <<volume, reserved, refs>>

\* What a job knows of the volume: nothing, that it asked for it, or its uuid
Unknown == 0

Exists == volume.state # "none"
InUse == reserved \cup refs # {}

\* Only a volume that is ready is found; an error is taken for none
loadVolume(j) ==
    /\ At(j, "loadVolume")
    /\ \/ volume.state = "ready"
          /\ Proceed(j, [job[j] EXCEPT !.volume = volume.id])
       \/ volume.state # "ready" /\ Proceed(j, job[j])
    /\ UNCHANGED <<queue, used, volVars>>

\* Mutant: no reservation of a volume that was found
ReserveNewVolume(j) ==
    /\ At(j, "reserveVolume")
    /\ reserved' = IF job[j].volume = Unknown
                   THEN reserved \cup {job[j].vm} ELSE reserved
    /\ Proceed(j, job[j])
    /\ UNCHANGED <<queue, used, volume, refs>>
reserveVolume(j) ==
    /\ At(j, "reserveVolume")
    /\ reserved' = reserved \cup {job[j].vm}
    /\ Proceed(j, job[j])
    /\ UNCHANGED <<queue, used, volume, refs>>

(* createVolumeAndWait, unless the volume was found: the call, then the     *)
(* answer.  One that exists already is looked up.  The reservation of a     *)
(* task that fails here is kept: it is compared with true, and an object.   *)
createVolume(j) ==
    /\ At(j, "createVolume")
    /\ \/ /\ job[j].volume # Unknown
          /\ ~job[j].creating
          /\ Proceed(j, job[j])
          /\ UNCHANGED volume
       \/ /\ job[j].volume = Unknown /\ ~Exists
          /\ volume' = [id |-> volume.id + 1, state |-> "creating"]
          /\ job' = [job EXCEPT ![j].volume = volume.id + 1,
                                ![j].creating = TRUE]
       \/ /\ job[j].volume = Unknown /\ Exists
          /\ Proceed(j, [job[j] EXCEPT !.volume = volume.id])
          /\ UNCHANGED volume
       \/ /\ job[j].creating
          /\ \/ /\ volume = [id |-> job[j].volume, state |-> "ready"]
                /\ Proceed(j, [job[j] EXCEPT !.creating = FALSE])
             \/ /\ ~Exists \/ volume.id # job[j].volume
                /\ FailWith(j, [job[j] EXCEPT !.creating = FALSE])
          /\ UNCHANGED volume
    /\ UNCHANGED <<queue, used, reserved, refs>>

waitForNfsVolumeProvisions(j) ==
    /\ At(j, "waitForNfsVolumeProvisions")
    /\ \/ /\ volume = [id |-> job[j].volume, state |-> "ready"]
          /\ Proceed(j, job[j])
       \/ /\ ~Exists \/ volume.id # job[j].volume
          /\ FailWith(j, job[j])
    /\ UNCHANGED <<queue, used, volVars>>

\* VOLAPI turns the VM's reservation into the reference
addVolumesReferences(j) ==
    /\ At(j, "addVolumesReferences")
    /\ IF Exists /\ volume.id = job[j].volume
       THEN /\ refs' = refs \cup {job[j].vm}
            /\ reserved' = reserved \ {job[j].vm}
            /\ Proceed(j, job[j])
       ELSE FailWith(j, job[j]) /\ UNCHANGED <<reserved, refs>>
    /\ UNCHANGED <<queue, used, volume>>

\* Skipped if the VM the request loaded has no volumes in its metadata
removeVolumesReferences(j) ==
    /\ At(j, "removeVolumesReferences")
    /\ refs' = IF job[j].mounts THEN refs \ {job[j].vm} ELSE refs
    /\ Proceed(j, job[j])
    /\ UNCHANGED <<queue, used, volume, reserved>>

VolumeTasks(j) ==
    \/ loadVolume(j) \/ reserveVolume(j) \/ createVolume(j)
    \/ waitForNfsVolumeProvisions(j)
    \/ addVolumesReferences(j) \/ removeVolumesReferences(j)

-----------------------------------------------------------------------------
(* VOLAPI *)

VolumeCreated ==
    /\ volume.state = "creating"
    /\ \/ volume' = [volume EXCEPT !.state = "ready"] /\ UNCHANGED used
       \/ /\ "volume" \in FailingTasks /\ used.faults < MaxFaults
          /\ volume' = [volume EXCEPT !.state = "none"]
          /\ used' = [used EXCEPT !.faults = @ + 1]
    /\ UNCHANGED <<job, queue, reserved, refs>>

\* Its owner may delete a volume nobody uses
DeleteVolume ==
    /\ volume.state = "ready" /\ ~InUse
    /\ used.deletes < MaxVolumeDeletes
    /\ volume' = [volume EXCEPT !.state = "none"]
    /\ used' = [used EXCEPT !.deletes = @ + 1]
    /\ UNCHANGED <<job, queue, reserved, refs>>

(* VOLAPI follows the states of VMs: the reservation of one that was        *)
(* provisioned becomes a reference, and what one that failed or was         *)
(* destroyed has is dropped.                                                *)
VolapiUpdates(v, state) ==
    /\ \/ /\ state \in {"running", "stopped"} /\ v \in reserved
          /\ reserved' = reserved \ {v} /\ refs' = refs \cup {v}
       \/ /\ state \in {"failed", "destroyed"} /\ v \in reserved \cup refs
          /\ reserved' = reserved \ {v} /\ refs' = refs \ {v}
    /\ UNCHANGED <<job, queue, used, volume>>

VolumesInit ==
    /\ volume = [id |-> 0, state |-> "none"]
    /\ reserved = {} /\ refs = {}
=============================================================================
