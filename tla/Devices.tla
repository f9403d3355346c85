-------------------------------- MODULE Devices -------------------------------
(***************************************************************************)
(* The devices service: a device is enrolled for a venue in a role, both   *)
(* for good, and an administrator sets its status, from any to any.        *)
(*                                                                         *)
(* A heartbeat writes a time that nothing reads and is left out.           *)
(***************************************************************************)
CONSTANTS
    Devices,      \* devices, those not enrolled yet included
    DeviceRole,   \* device_role each of them is enrolled with
    NewStatuses   \* statuses that PATCH /{device_id}/status is sent with

Statuses == {"active", "inactive", "revoked"}
DeviceAdmins == {"venue_admin", "nitecore"}

ASSUME DevicesAssumption == NewStatuses \subseteq Statuses

VARIABLE devices   \* status of each row, "none": there is no row

DevicesInit == devices = [d \in Devices |-> "none"]

\* The status of a new row is the default of the table.
Enroll(role, d) ==
    /\ role \in DeviceAdmins
    /\ devices[d] = "none"
    /\ devices' = [devices EXCEPT ![d] = "pending"]

SetStatus(role, d, status) ==
    /\ role \in DeviceAdmins
    /\ devices[d] # "none" /\ status \in NewStatuses
    /\ devices' = [devices EXCEPT ![d] = status]

\* GetDeviceVenueRole of the auth service finds active devices only.
Active(d) == devices[d] = "active"

DevicesTypeOK == devices \in [Devices -> Statuses \cup {"none", "pending"}]

=============================================================================
