------------------------------ MODULE Predicates ------------------------------
(***************************************************************************)
(* Which changes of watched objects reach the handlers of the              *)
(* AddonCompliance reconciler.  A change is a pair of versions of an       *)
(* object; a version that is not present stands for creation or deletion.  *)
(* Generic events never pass and nothing here sends them.                  *)
(***************************************************************************)

Creates(old, new) == ~old.present /\ new.present
Updates(old, new) == old.present /\ new.present
Deletes(old, new) == old.present /\ ~new.present

ConfigMapPasses(old, new) ==
  \/ Creates(old, new)
  \/ Updates(old, new) /\ (old.data # new.data \/ old.binaryData # new.binaryData)
  \/ Deletes(old, new)

SecretPasses(old, new) ==
  \/ Creates(old, new)
  \/ Updates(old, new) /\ old.data # new.data
  \/ Deletes(old, new)

\* hasArtifactChanged: the artifact of a source that has none is nil.
HasArtifactChanged(old, new) == old.data # new.data

FluxSourcePasses(old, new) ==
  \/ Creates(old, new)
  \/ Updates(old, new) /\ HasArtifactChanged(old, new)
  \/ Deletes(old, new)

SveltosClusterPasses(old, new) ==
  \/ Creates(old, new) /\ ~new.paused
  \/ /\ Updates(old, new)
     /\ \/ old.paused /\ ~new.paused
        \/ ~old.ready /\ new.ready
        \/ old.labels # new.labels
  \/ Deletes(old, new)

\* Mutant of ClusterPasses: unpausing a cluster is no news.
ClusterPassesIfRelabelled(old, new) ==
  \/ Creates(old, new) /\ ~new.paused
  \/ Updates(old, new) /\ old.labels # new.labels
  \/ Deletes(old, new)

ClusterPasses(old, new) ==
  \/ Creates(old, new) /\ ~new.paused
  \/ /\ Updates(old, new)
     /\ \/ old.paused /\ ~new.paused
        \/ old.labels # new.labels
  \/ Deletes(old, new)

\* Of a machine only its phase matters, and that it starts to run.
MachinePasses(oldPhase, newPhase) == newPhase = "Running" /\ oldPhase # "Running"
=============================================================================
