------------------------------- MODULE MCStores -------------------------------
(***************************************************************************)
(* Instances of the protocols over several rows and stores for TLC: a      *)
(* behaviour is one of index generations, one of an upload or one of a     *)
(* batch, the others rest.                                                 *)
(***************************************************************************)
EXTENDS IndexGeneration, UploadIngestion, LifecycleBatch

VARIABLE subject

StoresInit == /\ Init /\ UploadInit /\ BatchInit
              /\ subject \in {"generations", "upload", "batch"}
              /\ subject # "batch" => kind = "publish" /\ batch = NoRow
StoresNext ==
    \/ subject = "generations" /\ Next /\ UNCHANGED <<subject, uploadVars, batchVars>>
    \/ subject = "upload" /\ UploadNext /\ UNCHANGED <<subject, vars, batchVars>>
    \/ subject = "batch" /\ BatchNext /\ UNCHANGED <<subject, vars, uploadVars>>
StoresSpec == /\ StoresInit /\ [][StoresNext]_<<subject, vars, uploadVars, batchVars>>
              /\ Fairness

\* The shape of the stores and of the calls' local state, of all three.
StoresTypeOK == TypeOK /\ UploadTypeOK /\ BatchTypeOK
=============================================================================
