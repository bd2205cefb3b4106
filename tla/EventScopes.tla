------------------------------ MODULE EventScopes ------------------------------
(***************************************************************************)
(* The switches of a rig's owner that events are shared under: an event    *)
(* that is not shared says that its scope was switched off, and takes what *)
(* earlier events of the scope said with it.                               *)
(***************************************************************************)

ScopeKinds ==
  [TargetScheduler |-> {"TS-TARGETSTART", "TS-NEWTARGETSTART", "TS-WAITSTART"},
   Sequence |-> {"SEQUENCE-STARTING", "SEQUENCE-FINISHED", "SEQUENCE-ENTITY-FAILED"},
   Safety |-> {"SAFETY-CONNECTED", "SAFETY-DISCONNECTED", "SAFETY-CHANGED"},
   WeatherChanges |-> {"WEATHER-CHANGED"},
   HighWindAlerts |-> {"WEATHER-HIGH-WIND"},
   EquipmentConnections |->
     {"FOCUSER-CONNECTED", "FOCUSER-DISCONNECTED", "DOME-CONNECTED", "DOME-DISCONNECTED",
      "FLAT-CONNECTED", "FLAT-DISCONNECTED", "WEATHER-CONNECTED", "WEATHER-DISCONNECTED",
      "SWITCH-CONNECTED", "SWITCH-DISCONNECTED"},
   Guiding |-> {"GUIDER-START", "GUIDER-STOP", "GUIDER-DITHER"},
   SlewMotion |-> {"MOUNT-SLEW-STARTED"},
   FocuserMotion |-> {"FOCUSER-MOVED"},
   Mount |-> {"MOUNT-PARKED", "MOUNT-UNPARKED", "MOUNT-HOMED", "MOUNT-SLEWED", "MOUNT-CENTER",
              "MOUNT-BEFORE-FLIP", "MOUNT-AFTER-FLIP"},
   FilterFocuserRotator |-> {"FILTERWHEEL-CHANGED", "FOCUSER-USER-FOCUSED"},
   Observatory |->
     {"DOME-SHUTTER-OPENED", "DOME-SHUTTER-CLOSED", "DOME-HOMED", "DOME-PARKED", "DOME-SYNCED",
      "DOME-SLEWED", "FLAT-COVER-OPENED", "FLAT-COVER-CLOSED", "FLAT-LIGHT-TOGGLED",
      "FLAT-BRIGHTNESS-CHANGED"}]

Scope(k) == CHOOSE s \in DOMAIN ScopeKinds : k \in ScopeKinds[s]

=============================================================================
