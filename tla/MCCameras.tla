------------------------------ MODULE MCCameras ------------------------------
(***************************************************************************)
(* The pier cameras for TLC: a camera's sessions (CameraSession), its      *)
(* timelapse uploads (TimelapseUploads) and the images it posts            *)
(* (CameraDelivery).  They share no variable, so one run checks them side  *)
(* by side: `part` says which one a behaviour is of, and the others stay   *)
(* in an initial state.                                                    *)
(***************************************************************************)
EXTENDS CameraSession, TimelapseUploads, CameraDelivery, TLC

VARIABLE part

(***************************************************************************)
(* Identities that are only compared are symmetric.  A behaviour of the    *)
(* delivery part never shows a socket, nor one of the session part an      *)
(* event, so swapping events rides on swapping sockets: the group stays as *)
(* small as the session part alone needs it.                               *)
(***************************************************************************)
EventOf == CHOOSE f \in [Sockets -> Events] : \A s, t \in Sockets : f[s] = f[t] => s = t
WithEvents(p) == p @@ [e \in Events |-> LET s == CHOOSE s \in Sockets : EventOf[s] = e
                                       IN  EventOf[p[s]]]
Symmetry == UNION {{WithEvents(p) : p \in Permutations(Sockets)},
                   Permutations(Asks), Permutations(Settings)}

CamerasInit ==
  /\ part \in {"session", "uploads", "delivery"}
  /\ CameraSessionInit /\ UploadsInit /\ Init

CamerasNext ==
  /\ UNCHANGED part
  /\ \/ /\ part = "session" /\ CameraSessionNext /\ UNCHANGED <<uploadVars, vars>>
     \/ /\ part = "uploads" /\ UploadsNext /\ UNCHANGED <<cameraSessionVars, vars>>
     \/ /\ part = "delivery" /\ Next /\ UNCHANGED <<cameraSessionVars, uploadVars>>

TypesOK == CameraSessionTypeOK /\ UploadsTypeOK /\ TypeOK

===========================================================================
