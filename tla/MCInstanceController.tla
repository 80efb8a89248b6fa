------------------------ MODULE MCInstanceController ------------------------
(* InstanceController instantiated for TLC. *)
EXTENDS InstanceController, TLC

\* Templates: one without volumes; one with a volume that is mounted; one
\* whose second volume has the name of the first with "-rootfs" added; one
\* whose init container mounts the volume by its name in the template, and
\* one whose init container mounts it by the name it has in the pod.
Data == <<"data">>
NoVolumes  == [volumes |-> <<>>, mounts |-> <<>>, initMounts |-> <<>>]
OneVolume  == [volumes |-> <<Data>>, mounts |-> <<Data>>, initMounts |-> <<>>]
TwoVolumes == [OneVolume EXCEPT !.volumes = <<Data, Data \o <<"rootfs">> >>]
InitGiven  == [OneVolume EXCEPT !.initMounts = <<Data>>]
InitBuilt  == [OneVolume EXCEPT !.initMounts = << <<"user">> \o Data >>]

Plain == {NoVolumes}
Named == {OneVolume, TwoVolumes, InitGiven, InitBuilt}

\* The nodes are interchangeable: nothing in the controller names one.
NodeSymmetry == Permutations(Nodes)

=============================================================================
