--------------------------- MODULE MCVolumeLifecycle ---------------------------
(* VolumeLifecycle on one volume of an internal data disk and one of a     *)
(* removable disk.                                                         *)
EXTENDS VolumeLifecycle, TLC

CONSTANTS vi, ve, c1, c2, uevent

BothVolumes == {vi, ve}
InternalVolume == {vi}
NoVolume == {}
ExternalVolume == {ve}
OneClient == {c1}
TwoClients == {c1, c2}
AllRequests == {"Mount", "Unmount", "TryToFix", "Format"}
MountAndUnmount == {"Mount", "Unmount"}
AllUevents == {"Discover", "Destroy"}
DiscoveryOnly == {"Discover"}
ClientSymmetry == Permutations(Client)
=============================================================================
