--------------------------- MODULE EpochAllocator ---------------------------
(***************************************************************************)
(* What the Store interface promises of epochs: every operation a caller   *)
(* runs on the epoch table happens at one instant, or not at all.  A       *)
(* caller runs one operation and ends with a result: the (epoch, idx) pair *)
(* of AllocateIndex, Opened after RotateEpoch, or Failed.                  *)
(***************************************************************************)
EXTENDS EpochTable

CONSTANTS Callers,   \* request handlers and admin processes
          Expiries,  \* the credentialExp values passed to AllocateIndex
          Ceilings   \* the max-indices values passed to RotateEpoch

VARIABLES epochs,    \* the issuer_epochs table
          result     \* what each caller got back

avars == <<epochs, result>>

Running == [epoch |-> 0, idx |-> 0, kind |-> "running"]
Failed  == [epoch |-> 0, idx |-> 0, kind |-> "failed"]
Opened  == [epoch |-> 0, idx |-> 0, kind |-> "opened"]
Index(e, i) == [epoch |-> e, idx |-> i, kind |-> "index"]

AbsInit == /\ epochs = [n \in EpochNumbers |-> Absent]
           /\ result = [c \in Callers |-> Running]

\* The first process to open the store on an empty table bootstraps epoch 1.
Bootstrap ==
    /\ epochs[1] = Absent
    /\ epochs' = [epochs EXCEPT ![1] = OpenRow(MaxIndices)]
    /\ UNCHANGED result

\* An index is taken; the caller learns of it, or its reply is lost.
Allocate(c) ==
    /\ result[c] = Running
    /\ OpenEpochs(epochs) # {}
    /\ CanAllocate(epochs)
    /\ \E exp \in Expiries : epochs' = Allocated(epochs, exp)
    /\ \/ result' = [result EXCEPT
                       ![c] = Index(AllocEpoch(epochs), AllocIdx(epochs))]
       \/ result' = [result EXCEPT ![c] = Failed]

Rotate(c) ==
    /\ result[c] = Running
    /\ OpenEpochs(epochs) # {}
    /\ CanRotate(epochs)
    /\ \E max \in Ceilings : epochs' = Rotated(epochs, max)
    /\ \E r \in {Opened, Failed} : result' = [result EXCEPT ![c] = r]

\* The operation fails and leaves no trace.
Fail(c) == /\ result[c] = Running
           /\ result' = [result EXCEPT ![c] = Failed]
           /\ UNCHANGED epochs

AbsNext == \/ Bootstrap
           \/ \E c \in Callers : Allocate(c) \/ Rotate(c) \/ Fail(c)

AbsSpec == AbsInit /\ [][AbsNext]_avars
=============================================================================
